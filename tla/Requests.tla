------------------------------- MODULE Requests -----------------------------
(***************************************************************************)
(* When pictures are asked for (session.rs): one request answered by one   *)
(* update, a floor under the pace, a watchdog over a server gone quiet,    *)
(* a full refresh at the user's word; until the server pushes unasked, and *)
(* a probe takes the round trip instead.                                   *)
(*                                                                         *)
(* Time is what it decides: whether requested_at is within                 *)
(* MIN_REQUEST_INTERVAL, past it, or past UPDATE_WATCHDOG; whether the     *)
(* probe is past RTT_PROBE_TIMEOUT; whether RTT_PROBE_INTERVAL is over.    *)
(***************************************************************************)
EXTENDS Naturals, Sequences, FiniteSets

CONSTANTS
    MayPush,        \* the server has continuous updates, and push is wanted
    MaxDamage,      \* bound: changes to the remote's screen
    MaxCommands,    \* bound: full refreshes, and requests for a size
    MaxLost,        \* bound: requests and probes a server leaves unanswered
    MaxStops,       \* bound: times a server stops pushing
    MaxProbes,      \* bound: probes sent
    MaxWire         \* bound: requests on the wire, and held by the server

ASSUME RequestBounds ==
    /\ MayPush \in BOOLEAN
    /\ {MaxDamage, MaxCommands, MaxLost, MaxStops, MaxProbes} \subseteq Nat
    /\ MaxWire \in Nat \ {0, 1}

VARIABLES
    session,    \* the fields of Session that take part
    outbox,     \* what VncBackend owes the server
    toServer, toClient,
    server,     \* requests it holds, whether it pushes, whether it is dirty
    used        \* how much of each bound is used up

vars == <<session, outbox, toServer, toClient, server, used>>

Ages == {"fresh", "ready", "overdue"}
None == 0
Ask == [kind |-> "ask", id |-> None]
Refresh == [kind |-> "refresh", id |-> None]
Enable == [kind |-> "enable", id |-> None]
Probe(n) == [kind |-> "probe", id |-> n]
Frame == [kind |-> "frame", id |-> None]
EndOfContinuousUpdates == [kind |-> "end of pushing", id |-> None]
Message == [kind : {"ask", "refresh", "enable", "probe", "frame",
                    "end of pushing"}, id : 0 .. MaxProbes]

TypeOK ==
    /\ session \in [awaiting : BOOLEAN, pushed : BOOLEAN, age : Ages,
                    stamp : {"request", "size"}, rtt : {"unknown", "true", "false"},
                    probe : 0 .. MaxProbes, old : BOOLEAN, rest : BOOLEAN]
    /\ outbox \in Seq(Message) /\ toServer \in Seq(Message)
    /\ toClient \in Seq(Message)
    /\ server \in [held : 0 .. MaxWire, pushing : BOOLEAN, dirty : BOOLEAN]
    /\ used \in [damage : 0 .. MaxDamage, commands : 0 .. MaxCommands,
                 lost : 0 .. MaxLost, stops : 0 .. MaxStops + 1,
                 probes : 0 .. MaxProbes]

(* The engine asks for the first frame itself.                             *)
Init ==
    /\ session = [awaiting |-> TRUE, pushed |-> FALSE, age |-> "fresh",
                  stamp |-> "request", rtt |-> "unknown", probe |-> None,
                  old |-> FALSE, rest |-> FALSE]
    /\ outbox = <<>> /\ toClient = <<>>
    /\ toServer = <<Refresh>>
    /\ server = [held |-> 0, pushing |-> FALSE, dirty |-> FALSE]
    /\ used = [damage |-> 0, commands |-> 0, lost |-> 0, stops |-> 0,
               probes |-> 0]

-----------------------------------------------------------------------------
(* The session.  A result is the session and what it sends.                *)
Result(s, out) == [s |-> s, out |-> out]
Asked(s) == [s EXCEPT !.awaiting = TRUE, !.age = "fresh", !.stamp = "request"]

(* Slip: it counts as awaited before the floor has had its say.            *)
RequestHasty(s) ==
    CASE s.pushed \/ s.awaiting -> Result(s, <<>>)
      [] ~s.pushed /\ ~s.awaiting /\ s.age = "fresh" ->
            Result([s EXCEPT !.awaiting = TRUE], <<>>)
      [] OTHER -> Result(Asked(s), <<Ask>>)

RequestUpdate(s) ==
    IF s.pushed \/ s.awaiting \/ s.age = "fresh"
      THEN Result(s, <<>>)
      ELSE Result(Asked(s), <<Ask>>)

OnFrameEnd(s) ==
    LET timed == s.awaiting /\ ~s.pushed
        said == IF s.stamp = "request" THEN "true" ELSE "false"
    IN RequestUpdate([s EXCEPT !.awaiting = FALSE,
                               !.rtt = IF timed THEN said ELSE @])

OnPushing(s) == [s EXCEPT !.pushed = TRUE, !.awaiting = FALSE]

OnLatencyProbe(s, n) ==
    IF s.probe = None
      THEN s
      ELSE [s EXCEPT !.probe = None, !.rest = TRUE, !.old = FALSE,
                     !.rtt = IF n = s.probe THEN "true" ELSE "false"]

(* A probe that never came back is given up; then another goes out, unless *)
(* the last answer is recent.                                              *)
GaveUp(s) ==
    IF s.probe # None /\ s.old
      THEN [s EXCEPT !.probe = None, !.old = FALSE, !.rtt = "unknown"]
      ELSE s

ProbeRoundTrip(s) ==
    LET g == GaveUp(s)
        next == used.probes + 1
    IN CASE ~s.pushed -> Result(s, <<>>)
         [] s.pushed /\ (g.probe # None \/ g.rest \/ next > MaxProbes) ->
                Result(g, <<>>)
         [] OTHER ->
                Result([g EXCEPT !.probe = next, !.old = FALSE], <<Probe(next)>>)

(* Slip: the watchdog trusts that a request once sent is answered.         *)
AskTrusting(s) == IF s.awaiting THEN Result(s, <<>>) ELSE RequestUpdate(s)

(* The watchdog does not set awaiting_update: it is set.                   *)
AskOnTick(s) ==
    CASE ~s.awaiting -> RequestUpdate(s)
      [] s.awaiting /\ ~s.pushed /\ s.age = "overdue" ->
            Result([s EXCEPT !.age = "fresh", !.stamp = "request"], <<Ask>>)
      [] OTHER -> Result(s, <<>>)

Send(r) == session' = r.s /\ toServer' = toServer \o r.out

Tick ==
    LET probed == ProbeRoundTrip(session)
        asked == AskOnTick(probed.s)
    IN /\ Len(toServer) + server.held < MaxWire
       /\ Send(Result(asked.s, probed.out \o asked.out))
       /\ used' = [used EXCEPT !.probes = @ + Len(probed.out)]
       /\ UNCHANGED <<outbox, toClient, server>>

(* recv: what is owed goes out before anything is read.                    *)
Answered(s, m) ==
    CASE m.kind = "frame" -> OnFrameEnd(s)
      [] m.kind = "end of pushing" -> Result(OnPushing(s), <<>>)
      [] m.kind = "probe" -> Result(OnLatencyProbe(s, m.id), <<>>)

(* An end of pushing is an invitation to begin, the first time and later.  *)
Arm(m) == IF m = EndOfContinuousUpdates THEN <<Enable>> ELSE <<>>

Receive ==
    /\ toClient # <<>>
    /\ LET r == Answered(session, Head(toClient)) IN
        /\ session' = r.s
        /\ toServer' = toServer \o outbox \o r.out
    /\ outbox' = Arm(Head(toClient))
    /\ toClient' = Tail(toClient)
    /\ UNCHANGED <<server, used>>

Flush ==
    /\ outbox # <<>>
    /\ toServer' = toServer \o outbox
    /\ outbox' = <<>>
    /\ UNCHANGED <<session, toClient, server, used>>

FullRefresh ==
    /\ used.commands < MaxCommands
    /\ used' = [used EXCEPT !.commands = @ + 1]
    /\ Send(Result(Asked(session), <<Refresh>>))
    /\ UNCHANGED <<outbox, toClient, server>>

(* request_native_size keeps its time in requested_at too.                 *)
RequestNativeSize ==
    /\ used.commands < MaxCommands
    /\ used' = [used EXCEPT !.commands = @ + 1]
    /\ session' = [session EXCEPT !.age = "fresh", !.stamp = "size"]
    /\ UNCHANGED <<outbox, toServer, toClient, server>>

-----------------------------------------------------------------------------
(* Time.                                                                   *)
Elapse ==
    /\ session.age # "overdue"
    /\ session' = [session EXCEPT
                    !.age = IF @ = "fresh" THEN "ready" ELSE "overdue"]
    /\ UNCHANGED <<outbox, toServer, toClient, server, used>>
ProbeAges ==
    /\ session.probe # None /\ ~session.old
    /\ session' = [session EXCEPT !.old = TRUE]
    /\ UNCHANGED <<outbox, toServer, toClient, server, used>>
IntervalEnds ==
    /\ session.rest
    /\ session' = [session EXCEPT !.rest = FALSE]
    /\ UNCHANGED <<outbox, toServer, toClient, server, used>>

-----------------------------------------------------------------------------
(* The server, as the protocol allows it.                                  *)
Damage ==
    /\ used.damage < MaxDamage
    /\ used' = [used EXCEPT !.damage = @ + 1]
    /\ server' = [server EXCEPT !.dirty = TRUE]
    /\ UNCHANGED <<session, outbox, toServer, toClient>>

Hold(n) == IF n < MaxWire THEN n + 1 ELSE n

Take ==
    /\ toServer # <<>>
    /\ toServer' = Tail(toServer)
    /\ LET m == Head(toServer) IN
        /\ server' =
            CASE m.kind = "ask" -> [server EXCEPT !.held = Hold(@)]
              [] m.kind = "refresh" ->
                    [server EXCEPT !.held = Hold(@), !.dirty = TRUE]
              [] m.kind = "enable" -> [server EXCEPT !.pushing = TRUE]
              [] m.kind = "probe" -> server
        /\ \/ /\ toClient' = IF m.kind = "probe" THEN Append(toClient, m)
                                                 ELSE toClient
              /\ used' = used
           \/ /\ m.kind = "probe" /\ used.lost < MaxLost
              /\ used' = [used EXCEPT !.lost = @ + 1]
              /\ toClient' = toClient
    /\ UNCHANGED <<session, outbox>>

(* One update answers one request, or all; a server may answer at once     *)
(* with nothing.                                                           *)
Update ==
    /\ server.held > 0 \/ (server.pushing /\ server.dirty)
    /\ Len(toClient) < MaxWire
    /\ toClient' = Append(toClient, Frame)
    /\ \E left \in {0, IF server.held > 0 THEN server.held - 1 ELSE 0} :
        server' = [server EXCEPT !.dirty = FALSE, !.held = left]
    /\ UNCHANGED <<session, outbox, toServer, used>>

Forget ==
    /\ server.held > 0 /\ used.lost < MaxLost
    /\ server' = [server EXCEPT !.held = 0]
    /\ used' = [used EXCEPT !.lost = @ + 1]
    /\ UNCHANGED <<session, outbox, toServer, toClient>>

(* It announces the extension, and may stop pushing later.                 *)
StopPushing ==
    /\ MayPush /\ used.stops <= MaxStops
    /\ used.stops = 0 \/ server.pushing
    /\ used' = [used EXCEPT !.stops = @ + 1]
    /\ server' = [server EXCEPT !.pushing = FALSE]
    /\ toClient' = Append(toClient, EndOfContinuousUpdates)
    /\ UNCHANGED <<session, outbox, toServer>>

Client == Tick \/ Receive \/ Flush \/ FullRefresh \/ RequestNativeSize
Time == Elapse \/ ProbeAges \/ IntervalEnds
Server == Damage \/ Take \/ Update \/ Forget \/ StopPushing
Next == Client \/ Time \/ Server
Spec == Init /\ [][Next]_vars

(* The loop reads and ticks, time passes, and the server works.  A server  *)
(* that only holds a request until something changes is served by Update   *)
(* being fair only then.                                                   *)
FairSpec ==
    /\ Spec
    /\ WF_vars(Tick) /\ WF_vars(Receive) /\ WF_vars(Flush)
    /\ WF_vars(Elapse) /\ WF_vars(ProbeAges) /\ WF_vars(IntervalEnds)
    /\ WF_vars(Take) /\ WF_vars(Update /\ server.dirty)

-----------------------------------------------------------------------------
Kinds(kinds, q) == {i \in DOMAIN q : q[i].kind \in kinds}
Requested == Kinds({"ask", "refresh"}, toServer)
InFlight == Cardinality(Requested) + server.held
            + Cardinality(Kinds({"frame"}, toClient))

(* The session waits only for what is to come: while it holds back the     *)
(* next request, one is under way, unless the server dropped it.           *)
WaitsForAFrame ==
    session.awaiting /\ ~session.pushed => InFlight > 0 \/ used.lost > 0

(* While frames are pushed unasked the server was told to: nothing is      *)
(* asked for any more, so being wrong about it would be a frozen picture.  *)
PushedIsArmed ==
    session.pushed =>
        \/ server.pushing
        \/ Kinds({"enable"}, outbox \o toServer) # {}
        \/ Kinds({"end of pushing"}, toClient) # {}

(* The two of them: what the session counts on to come is coming.          *)
FramesAreComing == WaitsForAFrame /\ PushedIsArmed

(* "A watchdog re-asks if a server goes quiet": a change over there is     *)
(* sent over here, in spite of dropped requests and of a server that stops *)
(* pushing.                                                                *)
PictureArrives == server.dirty ~> ~server.dirty

(* "A probe that never came back was dropped; stop waiting on it."         *)
ProbeEnds ==
    \A n \in 1 .. MaxProbes : session.probe = n ~> session.probe # n

(* "never more than one in flight"                                         *)
OneInFlight == ~session.pushed => InFlight <= 1

(* "Our own probe, back again: the gap is the round trip."                 *)
RttOfItsProbe ==
    [][session.pushed /\ session'.rtt = "false" => session.rtt = "false"]_vars

(* The figure "answers a request of ours": it is timed from that request.  *)
RttOfItsRequest ==
    [][~session.pushed /\ session'.rtt = "false" => session.rtt = "false"]_vars
=============================================================================
