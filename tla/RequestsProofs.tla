---------------------------- MODULE RequestsProofs ---------------------------
(***************************************************************************)
(* What the session counts on to come is coming: a picture it asked for,   *)
(* or one that is pushed; for every bound on what the server, the wire and *)
(* the user do.                                                            *)
(***************************************************************************)
EXTENDS Requests, FiniteSetTheorems, SequenceTheorems, TLAPS

Session == [awaiting : BOOLEAN, pushed : BOOLEAN, age : Ages,
            stamp : {"request", "size"}, rtt : {"unknown", "true", "false"},
            probe : 0 .. MaxProbes, old : BOOLEAN, rest : BOOLEAN]
Serving == [held : 0 .. MaxWire, pushing : BOOLEAN, dirty : BOOLEAN]
Uses == [damage : 0 .. MaxDamage, commands : 0 .. MaxCommands,
         lost : 0 .. MaxLost, stops : 0 .. MaxStops + 1,
         probes : 0 .. MaxProbes]
Probes == {Probe(n) : n \in 0 .. MaxProbes}
ToServer == {Ask, Refresh, Enable} \cup Probes
ToClient == {Frame, EndOfContinuousUpdates} \cup Probes

LEMMA Bounds ==
    /\ MaxProbes \in Nat /\ MaxWire \in Nat /\ MaxWire > 0
    /\ None = 0 /\ None \in 0 .. MaxProbes /\ 0 \in 0 .. MaxWire
    /\ MaxDamage \in Nat /\ MaxCommands \in Nat /\ MaxLost \in Nat /\ MaxStops \in Nat
BY RequestBounds DEF None

LEMMA MessageTypes ==
    /\ ToServer \subseteq Message /\ ToClient \subseteq Message /\ {Enable} \subseteq Message
    /\ Ask \in ToServer /\ Refresh \in ToServer /\ Enable \in ToServer
    /\ Frame \in ToClient /\ EndOfContinuousUpdates \in ToClient
    /\ \A m \in Probes : m \in ToServer /\ m \in ToClient
<1>1. /\ Ask \in Message /\ Refresh \in Message /\ Enable \in Message
      /\ Frame \in Message /\ EndOfContinuousUpdates \in Message
    BY Bounds DEF Ask, Refresh, Enable, Frame, EndOfContinuousUpdates, Message
<1>2. \A n \in 0 .. MaxProbes : Probe(n) \in Message
    BY Bounds DEF Probe, Message
<1>3. \A m \in Probes : m \in Message
    BY <1>2 DEF Probes
<1> QED
    BY <1>1, <1>3 DEF ToServer, ToClient

LEMMA KindsOf ==
    /\ Ask.kind = "ask" /\ Refresh.kind = "refresh" /\ Enable.kind = "enable"
    /\ Frame.kind = "frame" /\ EndOfContinuousUpdates.kind = "end of pushing"
    /\ \A m \in Probes : m.kind = "probe"
BY DEF Ask, Refresh, Enable, Frame, EndOfContinuousUpdates, Probes, Probe

-----------------------------------------------------------------------------
(* A queue holds a message of some kinds.                                  *)
Has(kinds, q) == \E i \in 1 .. Len(q) : q[i].kind \in kinds

LEMMA HasAppend ==
    ASSUME NEW S, NEW q \in Seq(S), NEW m \in S, NEW kinds
    PROVE  /\ Append(q, m) \in Seq(S)
           /\ Has(kinds, Append(q, m)) <=> Has(kinds, q) \/ m.kind \in kinds
<1> DEFINE a == Append(q, m)
<1>1. /\ a \in Seq(S) /\ Len(a) = Len(q) + 1 /\ Len(q) \in Nat
      /\ \A i \in 1 .. Len(q) : a[i] = q[i]
      /\ a[Len(q) + 1] = m
    BY AppendProperties, LenProperties
<1> HIDE DEF a
<1>2. /\ \A i \in 1 .. Len(q) : i \in 1 .. Len(a)
      /\ Len(q) + 1 \in 1 .. Len(a)
      /\ \A i \in 1 .. Len(a) : i \in 1 .. Len(q) \/ i = Len(q) + 1
    BY <1>1
<1>3. Has(kinds, a) <=> Has(kinds, q) \/ m.kind \in kinds
    BY <1>1, <1>2 DEF Has
<1> QED
    BY <1>1, <1>3 DEF a

LEMMA HasConcat ==
    ASSUME NEW S, NEW q \in Seq(S), NEW r \in Seq(S), NEW kinds
    PROVE  /\ q \o r \in Seq(S)
           /\ Has(kinds, q \o r) <=> Has(kinds, q) \/ Has(kinds, r)
<1> DEFINE c == q \o r
<1>1. /\ c \in Seq(S) /\ Len(c) = Len(q) + Len(r) /\ Len(q) \in Nat /\ Len(r) \in Nat
      /\ \A i \in 1 .. Len(c) : c[i] = IF i <= Len(q) THEN q[i] ELSE r[i - Len(q)]
    BY ConcatProperties, LenProperties
<1> HIDE DEF c
<1>2. ASSUME Has(kinds, c) PROVE Has(kinds, q) \/ Has(kinds, r)
    <2>1. PICK i \in 1 .. Len(c) : c[i].kind \in kinds
        BY <1>2 DEF Has
    <2>2. CASE i <= Len(q)
        BY <1>1, <2>1, <2>2 DEF Has
    <2>3. CASE ~(i <= Len(q))
        <3>1. i - Len(q) \in 1 .. Len(r) /\ c[i] = r[i - Len(q)]
            BY <1>1, <2>3
        <3> QED
            BY <2>1, <3>1 DEF Has
    <2> QED
        BY <2>2, <2>3
<1>3. ASSUME Has(kinds, q) PROVE Has(kinds, c)
    <2>1. PICK i \in 1 .. Len(q) : q[i].kind \in kinds
        BY <1>3 DEF Has
    <2>2. i \in 1 .. Len(c) /\ c[i] = q[i]
        BY <1>1
    <2> QED
        BY <2>1, <2>2 DEF Has
<1>4. ASSUME Has(kinds, r) PROVE Has(kinds, c)
    <2>1. PICK i \in 1 .. Len(r) : r[i].kind \in kinds
        BY <1>4 DEF Has
    <2>2. /\ i + Len(q) \in 1 .. Len(c) /\ ~(i + Len(q) <= Len(q))
          /\ (i + Len(q)) - Len(q) = i
        BY <1>1
    <2>3. c[i + Len(q)] = r[i]
        BY <1>1, <2>2
    <2> QED
        BY <2>1, <2>2, <2>3 DEF Has
<1> QED
    BY <1>1, <1>2, <1>3, <1>4 DEF c

LEMMA HasTail ==
    ASSUME NEW S, NEW q \in Seq(S), q # <<>>, NEW kinds
    PROVE  /\ Tail(q) \in Seq(S) /\ Head(q) \in S
           /\ Has(kinds, q) <=> Head(q).kind \in kinds \/ Has(kinds, Tail(q))
<1> DEFINE t == Tail(q)
<1>1. /\ t \in Seq(S) /\ Len(t) = Len(q) - 1 /\ Len(q) \in Nat /\ Len(q) > 0
      /\ \A i \in 1 .. Len(t) : t[i] = q[i + 1]
      /\ Head(q) = q[1] /\ Head(q) \in S
    BY HeadTailProperties, EmptySeq, LenProperties
<1> HIDE DEF t
<1>2. ASSUME Has(kinds, q) PROVE Head(q).kind \in kinds \/ Has(kinds, t)
    <2>1. PICK i \in 1 .. Len(q) : q[i].kind \in kinds
        BY <1>2 DEF Has
    <2>2. CASE i = 1
        BY <1>1, <2>1, <2>2
    <2>3. CASE i # 1
        <3>1. i - 1 \in 1 .. Len(t) /\ t[i - 1] = q[i]
            BY <1>1, <2>3
        <3> QED
            BY <2>1, <3>1 DEF Has
    <2> QED
        BY <2>2, <2>3
<1>3. Head(q).kind \in kinds => Has(kinds, q)
    BY <1>1 DEF Has
<1>4. ASSUME Has(kinds, t) PROVE Has(kinds, q)
    <2>1. PICK i \in 1 .. Len(t) : t[i].kind \in kinds
        BY <1>4 DEF Has
    <2>2. i + 1 \in 1 .. Len(q) /\ q[i + 1] = t[i]
        BY <1>1
    <2> QED
        BY <2>1, <2>2 DEF Has
<1> QED
    BY <1>1, <1>2, <1>3, <1>4 DEF t

LEMMA HasNone == ASSUME NEW kinds PROVE ~Has(kinds, <<>>)
BY DEF Has

LEMMA HasOne ==
    ASSUME NEW m, NEW kinds
    PROVE  Has(kinds, <<m>>) <=> m.kind \in kinds
BY DEF Has

LEMMA Few == ASSUME NEW S PROVE <<>> \in Seq(S) /\ \A m \in S : <<m>> \in Seq(S)
OBVIOUS

(* To be counted among the kinds is to be there.                           *)
LEMMA Counting ==
    ASSUME NEW S, NEW q \in Seq(S), NEW kinds
    PROVE  /\ Cardinality(Kinds(kinds, q)) \in Nat
           /\ Cardinality(Kinds(kinds, q)) > 0 <=> Has(kinds, q)
           /\ Kinds(kinds, q) # {} <=> Has(kinds, q)
<1>1. DOMAIN q = 1 .. Len(q) /\ Len(q) \in Nat
    BY LenProperties
<1>2. Kinds(kinds, q) # {} <=> Has(kinds, q)
    BY <1>1 DEF Kinds, Has
<1>3. IsFiniteSet(Kinds(kinds, q))
    <2>1. IsFiniteSet(1 .. Len(q))
        BY <1>1, FS_Interval
    <2> QED
        BY <1>1, <2>1, FS_Subset DEF Kinds
<1>4. /\ Cardinality(Kinds(kinds, q)) \in Nat
      /\ Cardinality(Kinds(kinds, q)) = 0 <=> Kinds(kinds, q) = {}
    BY <1>3, FS_CardinalityType, FS_EmptySet
<1> QED
    BY <1>2, <1>4

-----------------------------------------------------------------------------
(* The session's handlers: they begin to wait only with a request on its   *)
(* way out, and none of them takes back that frames are pushed.            *)
Asks(s, r) ==
    /\ r.s \in Session /\ r.s.pushed = s.pushed
    /\ \/ r.out = <<>> /\ (r.s.awaiting => s.awaiting)
       \/ r.out = <<Ask>>

LEMMA RequestAsks ==
    ASSUME NEW s \in Session
    PROVE  Asks(s, RequestUpdate(s))
<1> DEFINE n == [s EXCEPT !.awaiting = TRUE, !.age = "fresh", !.stamp = "request"]
<1>1. n \in Session /\ n.pushed = s.pushed
    BY DEF Session, Ages
<1>2. RequestUpdate(s) = [s |-> s, out |-> <<>>] \/ RequestUpdate(s) = [s |-> n, out |-> <<Ask>>]
    BY DEF RequestUpdate, Result, Asked
<1> HIDE DEF n
<1> QED
    BY <1>1, <1>2 DEF Asks

LEMMA TickAsks ==
    ASSUME NEW s \in Session
    PROVE  Asks(s, AskOnTick(s))
<1> DEFINE n == [s EXCEPT !.age = "fresh", !.stamp = "request"]
<1>1. CASE ~s.awaiting
    BY <1>1, RequestAsks DEF AskOnTick
<1>2. CASE s.awaiting
    <2>1. n \in Session /\ n.pushed = s.pushed
        BY DEF Session, Ages
    <2>2. AskOnTick(s) = [s |-> s, out |-> <<>>] \/ AskOnTick(s) = [s |-> n, out |-> <<Ask>>]
        BY <1>2 DEF AskOnTick, Result
    <2> HIDE DEF n
    <2> QED
        BY <2>1, <2>2 DEF Asks
<1> QED
    BY <1>1, <1>2 DEF Session

LEMMA FrameEndAsks ==
    ASSUME NEW s \in Session
    PROVE  LET r == OnFrameEnd(s)
           IN  /\ r.s \in Session /\ r.s.pushed = s.pushed
               /\ r.out \in {<<>>, <<Ask>>} /\ (r.s.awaiting => r.out = <<Ask>>)
<1> DEFINE timed == s.awaiting /\ ~s.pushed
           said == IF s.stamp = "request" THEN "true" ELSE "false"
           n == [s EXCEPT !.awaiting = FALSE, !.rtt = IF timed THEN said ELSE @]
<1>1. n \in Session /\ n.pushed = s.pushed /\ ~n.awaiting
    BY DEF Session
<1>2. OnFrameEnd(s) = RequestUpdate(n)
    BY DEF OnFrameEnd
<1> HIDE DEF n
<1>3. Asks(n, RequestUpdate(n))
    BY <1>1, RequestAsks
<1> QED
    BY <1>1, <1>2, <1>3 DEF Asks

LEMMA ProbeAsks ==
    ASSUME NEW s \in Session, used.probes \in 0 .. MaxProbes
    PROVE  LET r == ProbeRoundTrip(s)
           IN  /\ r.s \in Session /\ r.s.pushed = s.pushed /\ r.s.awaiting = s.awaiting
               /\ \/ r.out = <<>>
                  \/ \E p \in Probes : r.out = <<p>> /\ used.probes + 1 <= MaxProbes
<1> DEFINE g == GaveUp(s)
           next == used.probes + 1
           n == [g EXCEPT !.probe = next, !.old = FALSE]
           r == ProbeRoundTrip(s)
<1>1. MaxProbes \in Nat /\ None \in 0 .. MaxProbes
    BY Bounds
<1>2. g \in Session /\ g.pushed = s.pushed /\ g.awaiting = s.awaiting
    <2> DEFINE h == [s EXCEPT !.probe = None, !.old = FALSE, !.rtt = "unknown"]
    <2>1. h \in Session /\ h.pushed = s.pushed /\ h.awaiting = s.awaiting
        BY <1>1 DEF Session
    <2>2. g = h \/ g = s
        BY DEF GaveUp
    <2> HIDE DEF g, h
    <2> QED
        BY <2>1, <2>2
<1> HIDE DEF g
<1>3. CASE ~s.pushed
    <2>1. r = [s |-> s, out |-> <<>>]
        BY <1>3 DEF ProbeRoundTrip, Result
    <2> QED
        BY <2>1
<1>4. CASE s.pushed /\ (g.probe # None \/ g.rest \/ next > MaxProbes)
    <2>1. r = [s |-> g, out |-> <<>>]
        BY <1>4 DEF ProbeRoundTrip, Result, g
    <2> QED
        BY <1>2, <2>1
<1>5. CASE s.pushed /\ ~(g.probe # None \/ g.rest \/ next > MaxProbes)
    <2>1. r = [s |-> n, out |-> <<Probe(next)>>]
        BY <1>5 DEF ProbeRoundTrip, Result, g
    <2>2. next \in 0 .. MaxProbes /\ next <= MaxProbes
        BY <1>1, <1>5
    <2>3. n \in Session /\ n.pushed = s.pushed /\ n.awaiting = s.awaiting
        BY <1>2, <2>2 DEF Session
    <2>4. Probe(next) \in Probes
        BY <2>2 DEF Probes
    <2> HIDE DEF n
    <2> QED
        BY <2>1, <2>2, <2>3, <2>4
<1> QED
    BY <1>3, <1>4, <1>5 DEF Session

-----------------------------------------------------------------------------
(* The inductive invariant: what travels each way, which TypeOK does not   *)
(* tell apart, and the two promises as what a queue holds.                 *)
Carried ==
    /\ session \in Session
    /\ outbox \in Seq({Enable}) /\ toServer \in Seq(ToServer) /\ toClient \in Seq(ToClient)
    /\ server \in Serving
    /\ used \in Uses
Requesting == {"ask", "refresh"}
Coming == Has(Requesting, toServer) \/ server.held > 0 \/ Has({"frame"}, toClient)
Waits == session.awaiting /\ ~session.pushed => Coming \/ used.lost > 0
Armed ==
    session.pushed =>
        \/ server.pushing
        \/ Has({"enable"}, outbox) \/ Has({"enable"}, toServer)
        \/ Has({"end of pushing"}, toClient)
RInv == Carried /\ Waits /\ Armed

LEMMA Promised ==
    ASSUME Carried
    PROVE  TypeOK /\ (WaitsForAFrame <=> Waits) /\ (PushedIsArmed <=> Armed)
<1>1. /\ outbox \in Seq(Message) /\ toServer \in Seq(Message) /\ toClient \in Seq(Message)
    <2>1. \A S, T : S \subseteq T => Seq(S) \subseteq Seq(T)
        OBVIOUS
    <2> QED
        BY <2>1, MessageTypes DEF Carried
<1>2. TypeOK
    BY <1>1 DEF Carried, TypeOK, Session, Serving, Uses
<1>3. InFlight > 0 <=> Coming
    <2> DEFINE a == Cardinality(Requested)
               b == server.held
               c == Cardinality(Kinds({"frame"}, toClient))
    <2>1. a \in Nat /\ (a > 0 <=> Has(Requesting, toServer))
        BY <1>1, Counting DEF Requested, Requesting
    <2>2. c \in Nat /\ (c > 0 <=> Has({"frame"}, toClient))
        BY <1>1, Counting
    <2>3. b \in Nat
        BY Bounds DEF Carried, Serving
    <2>4. InFlight = a + b + c
        BY DEF InFlight
    <2> HIDE DEF a, c
    <2>5. InFlight > 0 <=> a > 0 \/ b > 0 \/ c > 0
        BY <2>1, <2>2, <2>3, <2>4
    <2> QED
        BY <2>1, <2>2, <2>5 DEF Coming
<1>4. Kinds({"enable"}, outbox \o toServer) # {}
        <=> Has({"enable"}, outbox) \/ Has({"enable"}, toServer)
    <2>1. outbox \o toServer \in Seq(Message)
        BY <1>1, ConcatProperties
    <2>2. Kinds({"enable"}, outbox \o toServer) # {} <=> Has({"enable"}, outbox \o toServer)
        BY <2>1, Counting
    <2> QED
        BY <1>1, <2>2, HasConcat
<1>5. Kinds({"end of pushing"}, toClient) # {} <=> Has({"end of pushing"}, toClient)
    BY <1>1, Counting
<1> QED
    BY <1>2, <1>3, <1>4, <1>5 DEF WaitsForAFrame, Waits, PushedIsArmed, Armed

LEMMA RequestsInit == Init => RInv
<1> SUFFICES ASSUME Init PROVE RInv
    OBVIOUS
<1>1. session \in Session /\ session.pushed = FALSE
    BY Bounds DEF Init, Session, Ages
<1>2. /\ outbox \in Seq({Enable}) /\ toServer \in Seq(ToServer) /\ toClient \in Seq(ToClient)
      /\ Has(Requesting, toServer)
    <2>1. outbox = <<>> /\ toServer = <<Refresh>> /\ toClient = <<>>
        BY DEF Init
    <2>2. Refresh \in ToServer
        BY MessageTypes
    <2>3. Has(Requesting, <<Refresh>>)
        BY HasOne, KindsOf DEF Requesting
    <2> QED
        BY <2>1, <2>2, <2>3, Few
<1>3. server \in Serving
    BY Bounds DEF Init, Serving
<1>4. used \in Uses
    BY Bounds DEF Init, Uses
<1> QED
    BY <1>1, <1>2, <1>3, <1>4 DEF RInv, Carried, Waits, Coming, Armed

(* The session sends: something joins what is on its way to the server.    *)
LEMMA SendStep ==
    ASSUME RInv, NEW s \in Session, NEW out \in Seq(ToServer),
           session' = s, toServer' = toServer \o out,
           s.pushed = session.pushed,
           s.awaiting => session.awaiting \/ Has(Requesting, out),
           UNCHANGED <<outbox, toClient, server>>, used'.lost = used.lost
    PROVE  toServer' \in Seq(ToServer) /\ Waits' /\ Armed'
<1>1. toServer \in Seq(ToServer) /\ used.lost \in Nat
    BY Bounds DEF RInv, Carried, Uses
<1>2. /\ toServer' \in Seq(ToServer)
      /\ \A kinds : Has(kinds, toServer') <=> Has(kinds, toServer) \/ Has(kinds, out)
    BY <1>1, HasConcat
<1>3. Coming => Coming'
    BY <1>2 DEF Coming
<1>4. Has(Requesting, out) => Coming'
    BY <1>2 DEF Coming
<1>5. Waits'
    BY <1>3, <1>4 DEF RInv, Waits
<1>6. Armed'
    BY <1>2 DEF RInv, Armed
<1> QED
    BY <1>2, <1>5, <1>6

LEMMA TickStep == ASSUME RInv, Tick PROVE RInv'
<1> DEFINE probed == ProbeRoundTrip(session)
           asked == AskOnTick(probed.s)
           out == probed.out \o asked.out
<1>1. /\ session' = asked.s /\ toServer' = toServer \o out
      /\ used' = [used EXCEPT !.probes = @ + Len(probed.out)]
      /\ UNCHANGED <<outbox, toClient, server>>
    BY DEF Tick, Send, Result
<1>2. session \in Session /\ used.probes \in 0 .. MaxProbes /\ used.probes \in Nat
    BY Bounds DEF RInv, Carried, Uses
<1>3. /\ probed.s \in Session /\ probed.s.pushed = session.pushed
      /\ probed.s.awaiting = session.awaiting
      /\ \/ probed.out = <<>>
         \/ \E p \in Probes : probed.out = <<p>> /\ used.probes + 1 <= MaxProbes
    BY <1>2, ProbeAsks
<1> HIDE DEF probed
<1>4. Asks(probed.s, asked)
    BY <1>3, TickAsks
<1> HIDE DEF asked
<1>5. /\ asked.s \in Session /\ asked.s.pushed = session.pushed
      /\ \/ asked.out = <<>> /\ (asked.s.awaiting => session.awaiting)
         \/ asked.out = <<Ask>>
    BY <1>3, <1>4 DEF Asks
<1>6. /\ probed.out \in Seq(ToServer) /\ asked.out \in Seq(ToServer)
      /\ asked.s.awaiting => session.awaiting \/ Has(Requesting, asked.out)
    <2>1. \A p \in Probes : <<p>> \in Seq(ToServer)
        BY MessageTypes, Few
    <2>2. <<>> \in Seq(ToServer) /\ <<Ask>> \in Seq(ToServer)
        BY MessageTypes, Few
    <2>3. Has(Requesting, <<Ask>>)
        BY HasOne, KindsOf DEF Requesting
    <2>4. probed.out \in Seq(ToServer)
        BY <1>3, <2>1, <2>2
    <2>5. asked.out \in Seq(ToServer)
        BY <1>5, <2>2
    <2> QED
        BY <1>5, <2>3, <2>4, <2>5
<1>7. /\ out \in Seq(ToServer)
      /\ Has(Requesting, asked.out) => Has(Requesting, out)
    BY <1>6, HasConcat
<1> HIDE DEF out
<1>8. used' \in Uses
      /\ used'.lost = used.lost
    <2>1. used.probes + Len(probed.out) \in 0 .. MaxProbes
        <3>1. CASE probed.out = <<>>
            <4>1. Len(probed.out) = 0
                BY <3>1
            <4> QED
                BY <1>2, <4>1, Bounds
        <3>2. ASSUME NEW p \in Probes, probed.out = <<p>>, used.probes + 1 <= MaxProbes
              PROVE  used.probes + Len(probed.out) \in 0 .. MaxProbes
            <4>1. Len(probed.out) = 1
                BY <3>2
            <4> QED
                BY <1>2, <3>2, <4>1, Bounds
        <3> QED
            BY <1>3, <3>1, <3>2
    <2> QED
        BY <1>1, <2>1 DEF RInv, Carried, Uses
<1>9. toServer' \in Seq(ToServer) /\ Waits' /\ Armed'
    BY <1>1, <1>5, <1>6, <1>7, <1>8, SendStep
<1> QED
    BY <1>1, <1>5, <1>8, <1>9 DEF RInv, Carried

(* What a frame, an end of pushing or a probe leaves the session with.     *)
LEMMA AnswerAsks ==
    ASSUME RInv, NEW m \in ToClient
    PROVE  LET r == Answered(session, m)
           IN  /\ r.s \in Session /\ r.out \in Seq(ToServer)
               /\ m = EndOfContinuousUpdates => r.s.pushed
               /\ m # EndOfContinuousUpdates => r.s.pushed = session.pushed
               /\ r.s.awaiting /\ ~r.s.pushed =>
                    \/ Has(Requesting, r.out)
                    \/ session.awaiting /\ ~session.pushed /\ m.kind # "frame"
<1> DEFINE r == Answered(session, m)
<1>1. session \in Session
    BY DEF RInv, Carried
<1>2. CASE m = Frame
    <2> DEFINE f == OnFrameEnd(session)
    <2>1. m.kind = "frame" /\ m # EndOfContinuousUpdates
        BY <1>2, KindsOf
    <2>2. r = f
        BY <2>1 DEF Answered
    <2>3. /\ f.s \in Session /\ f.s.pushed = session.pushed
          /\ f.out \in {<<>>, <<Ask>>} /\ (f.s.awaiting => f.out = <<Ask>>)
        BY <1>1, FrameEndAsks
    <2> HIDE DEF f, r
    <2>4. f.out \in Seq(ToServer)
        BY <2>3, MessageTypes, Few
    <2>5. Has(Requesting, <<Ask>>)
        BY HasOne, KindsOf DEF Requesting
    <2>6. f.s.awaiting => Has(Requesting, f.out)
        BY <2>3, <2>5
    <2>7. /\ r.s \in Session /\ r.out \in Seq(ToServer)
          /\ r.s.pushed = session.pushed
          /\ r.s.awaiting => Has(Requesting, r.out)
        BY <2>2, <2>3, <2>4, <2>6
    <2> QED
        BY <2>1, <2>7 DEF r
<1>3. CASE m = EndOfContinuousUpdates
    <2> DEFINE n == OnPushing(session)
    <2>1. r = [s |-> n, out |-> <<>>]
        BY <1>3, KindsOf DEF Answered, Result
    <2>2. n \in Session /\ n.pushed
        BY <1>1 DEF OnPushing, Session
    <2> HIDE DEF n
    <2>3. r.s = n /\ r.out = <<>>
        BY <2>1
    <2> HIDE DEF r
    <2>4. /\ r.s \in Session /\ r.out \in Seq(ToServer) /\ r.s.pushed
        BY <2>2, <2>3, Few
    <2> QED
        BY <1>3, <2>4 DEF r
<1>4. CASE m \in Probes
    <2> DEFINE n == OnLatencyProbe(session, m.id)
    <2>1. m.kind = "probe" /\ m # EndOfContinuousUpdates
        BY <1>4, KindsOf
    <2>2. r = [s |-> n, out |-> <<>>]
        BY <2>1 DEF Answered, Result
    <2>3. n \in Session /\ n.pushed = session.pushed /\ n.awaiting = session.awaiting
        BY <1>1, Bounds DEF OnLatencyProbe, Session
    <2> HIDE DEF n
    <2>4. r.s = n /\ r.out = <<>>
        BY <2>2
    <2> HIDE DEF r
    <2>5. /\ r.s \in Session /\ r.out \in Seq(ToServer)
          /\ r.s.pushed = session.pushed /\ r.s.awaiting = session.awaiting
        BY <2>3, <2>4, Few
    <2> QED
        BY <2>1, <2>5 DEF r
<1> QED
    BY <1>2, <1>3, <1>4 DEF ToClient

LEMMA ReceiveStep == ASSUME RInv, Receive PROVE RInv'
<1> DEFINE m == Head(toClient)
           r == Answered(session, m)
<1>1. /\ toClient # <<>> /\ toClient \in Seq(ToClient)
      /\ toServer \in Seq(ToServer) /\ outbox \in Seq({Enable})
    BY DEF Receive, RInv, Carried
<1>2. /\ session' = r.s /\ toServer' = toServer \o outbox \o r.out
      /\ outbox' = Arm(m) /\ toClient' = Tail(toClient) /\ UNCHANGED <<server, used>>
    BY DEF Receive
<1>3. /\ m \in ToClient /\ toClient' \in Seq(ToClient)
      /\ \A kinds : Has(kinds, toClient) <=> m.kind \in kinds \/ Has(kinds, toClient')
    BY <1>1, <1>2, HasTail
<1> HIDE DEF m
<1>4. /\ r.s \in Session /\ r.out \in Seq(ToServer)
      /\ m = EndOfContinuousUpdates => r.s.pushed
      /\ m # EndOfContinuousUpdates => r.s.pushed = session.pushed
      /\ r.s.awaiting /\ ~r.s.pushed =>
            \/ Has(Requesting, r.out)
            \/ session.awaiting /\ ~session.pushed /\ m.kind # "frame"
    BY <1>3, AnswerAsks
<1> HIDE DEF r
<1>5. outbox \in Seq(ToServer)
    <2>1. {Enable} \subseteq ToServer
        BY MessageTypes
    <2> QED
        BY <1>1, <2>1
<1>6. /\ toServer \o outbox \in Seq(ToServer)
      /\ \A kinds : Has(kinds, toServer \o outbox) <=> Has(kinds, toServer) \/ Has(kinds, outbox)
    BY <1>1, <1>5, HasConcat
<1> DEFINE q == toServer \o outbox
<1>7. toServer' = q \o r.out
    BY <1>2
<1>8. q \in Seq(ToServer) /\ \A kinds : Has(kinds, q) <=> Has(kinds, toServer) \/ Has(kinds, outbox)
    BY <1>6
<1> HIDE DEF q
<1>9. /\ toServer' \in Seq(ToServer)
      /\ \A kinds : Has(kinds, toServer')
            <=> Has(kinds, toServer) \/ Has(kinds, outbox) \/ Has(kinds, r.out)
    BY <1>4, <1>7, <1>8, HasConcat
<1>10. /\ outbox' \in Seq({Enable})
       /\ m = EndOfContinuousUpdates => Has({"enable"}, outbox')
    <2>1. outbox' = IF m = EndOfContinuousUpdates THEN <<Enable>> ELSE <<>>
        BY <1>2 DEF Arm
    <2>2. <<>> \in Seq({Enable}) /\ <<Enable>> \in Seq({Enable})
        BY Few
    <2>3. Has({"enable"}, <<Enable>>)
        BY HasOne, KindsOf
    <2> QED
        BY <2>1, <2>2, <2>3
<1>11. Waits'
    <2>1. SUFFICES ASSUME r.s.awaiting, ~r.s.pushed, ~(used.lost > 0) PROVE Coming'
        BY <1>2 DEF Waits
    <2>2. CASE Has(Requesting, r.out)
        BY <1>9, <2>2 DEF Coming
    <2>3. CASE session.awaiting /\ ~session.pushed /\ m.kind # "frame"
        <3>1. Coming
            BY <2>1, <2>3 DEF RInv, Waits
        <3>2. Has({"frame"}, toClient) => Has({"frame"}, toClient')
            BY <1>3, <2>3
        <3> QED
            BY <1>2, <1>9, <3>1, <3>2 DEF Coming
    <2> QED
        BY <1>4, <2>1, <2>2, <2>3
<1>12. Armed'
    <2>1. SUFFICES ASSUME r.s.pushed, m # EndOfContinuousUpdates
                   PROVE  server.pushing \/ Has({"enable"}, toServer') \/ Has({"end of pushing"}, toClient')
        BY <1>2, <1>10 DEF Armed
    <2>2. session.pushed
        BY <1>4, <2>1
    <2>3. m.kind # "end of pushing"
        BY <1>3, <2>1, KindsOf DEF ToClient
    <2> QED
        BY <1>3, <1>9, <2>2, <2>3 DEF RInv, Armed
<1> QED
    BY <1>2, <1>3, <1>4, <1>9, <1>10, <1>11, <1>12 DEF RInv, Carried

LEMMA FlushStep == ASSUME RInv, Flush PROVE RInv'
<1>1. /\ toServer' = toServer \o outbox /\ outbox' = <<>>
      /\ UNCHANGED <<session, toClient, server, used>>
    BY DEF Flush
<1>2. toServer \in Seq(ToServer) /\ outbox \in Seq(ToServer)
    <2>1. {Enable} \subseteq ToServer /\ outbox \in Seq({Enable})
        BY MessageTypes DEF RInv, Carried
    <2> QED
        BY <2>1 DEF RInv, Carried
<1>3. /\ toServer' \in Seq(ToServer)
      /\ \A kinds : Has(kinds, toServer') <=> Has(kinds, toServer) \/ Has(kinds, outbox)
    BY <1>1, <1>2, HasConcat
<1>4. outbox' \in Seq({Enable})
    BY <1>1, Few
<1>5. Waits'
    BY <1>1, <1>3 DEF RInv, Waits, Coming
<1>6. Armed'
    BY <1>1, <1>3 DEF RInv, Armed
<1> QED
    BY <1>1, <1>3, <1>4, <1>5, <1>6 DEF RInv, Carried

LEMMA Commanded ==
    ASSUME used \in Uses, used.commands < MaxCommands,
           used' = [used EXCEPT !.commands = @ + 1]
    PROVE  used' \in Uses /\ used'.lost = used.lost
<1>1. used.commands + 1 \in 0 .. MaxCommands
    BY Bounds DEF Uses
<1> QED
    BY <1>1 DEF Uses

LEMMA FullRefreshStep == ASSUME RInv, FullRefresh PROVE RInv'
<1> DEFINE s == Asked(session)
<1>1. /\ session' = s /\ toServer' = toServer \o <<Refresh>>
      /\ used' = [used EXCEPT !.commands = @ + 1] /\ used.commands < MaxCommands
      /\ UNCHANGED <<outbox, toClient, server>>
    BY DEF FullRefresh, Send, Result
<1>2. s \in Session /\ s.pushed = session.pushed
    BY DEF RInv, Carried, Asked, Session, Ages
<1> HIDE DEF s
<1>3. <<Refresh>> \in Seq(ToServer)
    BY MessageTypes, Few
<1>4. Has(Requesting, <<Refresh>>)
    BY HasOne, KindsOf DEF Requesting
<1>5. /\ used' \in Uses
      /\ used'.lost = used.lost
    BY <1>1, Commanded DEF RInv, Carried
<1>6. toServer' \in Seq(ToServer) /\ Waits' /\ Armed'
    BY <1>1, <1>2, <1>3, <1>4, <1>5, SendStep
<1> QED
    BY <1>1, <1>2, <1>5, <1>6 DEF RInv, Carried

(* A step of the session alone, which neither begins to wait nor forgets   *)
(* that it is pushed at.                                                   *)
LEMMA AloneStep ==
    ASSUME RInv, session' \in Session,
           session'.awaiting = session.awaiting, session'.pushed = session.pushed,
           UNCHANGED <<outbox, toServer, toClient, server>>,
           used'.lost = used.lost,
           used' \in Uses
    PROVE  RInv'
BY DEF RInv, Carried, Waits, Coming, Armed

LEMMA RequestNativeSizeStep == ASSUME RInv, RequestNativeSize PROVE RInv'
<1>1. /\ session' \in Session
      /\ session'.awaiting = session.awaiting /\ session'.pushed = session.pushed
    BY DEF RequestNativeSize, RInv, Carried, Session, Ages
<1>2. /\ used' \in Uses
      /\ used'.lost = used.lost
    BY Commanded DEF RequestNativeSize, RInv, Carried
<1>3. UNCHANGED <<outbox, toServer, toClient, server>>
    BY DEF RequestNativeSize
<1> QED
    BY <1>1, <1>2, <1>3, AloneStep

LEMMA TimeStep == ASSUME RInv, Time PROVE RInv'
<1>1. /\ session' \in Session
      /\ session'.awaiting = session.awaiting /\ session'.pushed = session.pushed
    BY DEF Time, Elapse, ProbeAges, IntervalEnds, RInv, Carried, Session, Ages
<1>2. UNCHANGED <<outbox, toServer, toClient, server, used>>
    BY DEF Time, Elapse, ProbeAges, IntervalEnds
<1> QED
    BY <1>1, <1>2, AloneStep DEF RInv, Carried

-----------------------------------------------------------------------------
(* The server's steps.                                                     *)
LEMMA DamageStep == ASSUME RInv, Damage PROVE RInv'
<1>1. used' \in Uses /\ used'.lost = used.lost
    <2>1. used.damage + 1 \in 0 .. MaxDamage
        BY SMTT(20), Bounds DEF Damage, RInv, Carried, Uses
    <2> QED
        BY <2>1 DEF Damage, RInv, Carried, Uses
<1>2. /\ server' \in Serving
      /\ server'.held = server.held /\ server'.pushing = server.pushing
    BY DEF Damage, RInv, Carried, Serving
<1>3. UNCHANGED <<session, outbox, toServer, toClient>>
    BY DEF Damage
<1> QED
    BY <1>1, <1>2, <1>3 DEF RInv, Carried, Waits, Coming, Armed

LEMMA TakeStep == ASSUME RInv, Take PROVE RInv'
<1> DEFINE m == Head(toServer)
<1>1. /\ toServer # <<>> /\ toServer' = Tail(toServer) /\ UNCHANGED <<session, outbox>>
      /\ toServer \in Seq(ToServer) /\ toClient \in Seq(ToClient)
      /\ server \in Serving /\ used \in Uses /\ server.held \in 0 .. MaxWire
      /\ used.lost \in Nat
    BY Bounds DEF Take, RInv, Carried, Serving, Uses
<1>2. /\ m \in ToServer /\ toServer' \in Seq(ToServer)
      /\ \A kinds : Has(kinds, toServer) <=> m.kind \in kinds \/ Has(kinds, toServer')
    BY <1>1, HasTail
<1>3. server' =
            CASE m.kind = "ask" -> [server EXCEPT !.held = Hold(@)]
              [] m.kind = "refresh" ->
                    [server EXCEPT !.held = Hold(@), !.dirty = TRUE]
              [] m.kind = "enable" -> [server EXCEPT !.pushing = TRUE]
              [] m.kind = "probe" -> server
    BY DEF Take
<1>4. \/ /\ toClient' = IF m.kind = "probe" THEN Append(toClient, m) ELSE toClient
         /\ used' = used
      \/ /\ m.kind = "probe" /\ used.lost < MaxLost
         /\ used' = [used EXCEPT !.lost = @ + 1]
         /\ toClient' = toClient
    BY DEF Take
<1> HIDE DEF m
<1>5. /\ server' \in Serving
      /\ server.pushing => server'.pushing
      /\ server.held > 0 => server'.held > 0
      /\ m.kind \in Requesting => server'.held > 0
      /\ m.kind = "enable" => server'.pushing
    <2>1. Hold(server.held) \in 0 .. MaxWire /\ Hold(server.held) > 0
        BY <1>1, Bounds DEF Hold
    <2>2. CASE m.kind = "ask"
        <3>1. server' = [server EXCEPT !.held = Hold(server.held)]
            BY <1>3, <2>2
        <3> QED
            BY <1>1, <2>1, <2>2, <3>1 DEF Serving
    <2>3. CASE m.kind = "refresh"
        <3>1. server' = [server EXCEPT !.held = Hold(server.held), !.dirty = TRUE]
            BY <1>3, <2>3
        <3> QED
            BY <1>1, <2>1, <2>3, <3>1 DEF Serving
    <2>4. CASE m.kind = "enable"
        <3>1. server' = [server EXCEPT !.pushing = TRUE]
            BY <1>3, <2>4
        <3> QED
            BY <1>1, <2>4, <3>1 DEF Serving, Requesting
    <2>5. CASE m.kind = "probe"
        <3>1. server' = server
            BY <1>3, <2>5
        <3> QED
            BY <1>1, <2>5, <3>1 DEF Requesting
    <2> QED
        BY <1>2, <2>2, <2>3, <2>4, <2>5, KindsOf DEF ToServer
<1>6. m.kind = "probe" => m \in Probes
    BY <1>2, KindsOf DEF ToServer
<1>7. /\ used' \in Uses /\ toClient' \in Seq(ToClient)
      /\ used.lost > 0 => used'.lost > 0
      /\ Has({"frame"}, toClient) => Has({"frame"}, toClient')
      /\ Has({"end of pushing"}, toClient) => Has({"end of pushing"}, toClient')
    <2>1. CASE m.kind = "probe" /\ toClient' = Append(toClient, m) /\ used' = used
        <3>1. m \in ToClient
            BY <1>6, <2>1, MessageTypes
        <3>2. /\ Append(toClient, m) \in Seq(ToClient)
              /\ \A kinds : Has(kinds, toClient) => Has(kinds, Append(toClient, m))
            BY <1>1, <3>1, HasAppend
        <3> QED
            BY <1>1, <2>1, <3>2
    <2>2. CASE toClient' = toClient /\ used' = used
        BY <1>1, <2>2
    <2>3. CASE /\ used.lost < MaxLost /\ toClient' = toClient
               /\ used' = [used EXCEPT !.lost = @ + 1]
        <3>1. used.lost + 1 \in 0 .. MaxLost /\ used.lost + 1 > 0
            BY SMTT(20), <1>1, <2>3, Bounds
        <3>2. used' \in Uses /\ used'.lost = used.lost + 1
            BY <1>1, <2>3, <3>1 DEF Uses
        <3> QED
            BY <1>1, <2>3, <3>1, <3>2
    <2> QED
        BY <1>4, <2>1, <2>2, <2>3
<1>8. Coming => Coming'
    BY <1>2, <1>5, <1>7 DEF Coming
<1>9. Waits'
    BY <1>1, <1>7, <1>8 DEF RInv, Waits
<1>10. Armed'
    BY <1>1, <1>2, <1>5, <1>7 DEF RInv, Armed
<1> QED
    BY <1>1, <1>2, <1>5, <1>7, <1>9, <1>10 DEF RInv, Carried

LEMMA UpdateStep == ASSUME RInv, Update PROVE RInv'
<1>1. /\ toClient' = Append(toClient, Frame) /\ UNCHANGED <<session, outbox, toServer, used>>
      /\ toClient \in Seq(ToClient) /\ Frame \in ToClient
    BY MessageTypes DEF Update, RInv, Carried
<1>2. /\ toClient' \in Seq(ToClient)
      /\ \A kinds : Has(kinds, toClient') <=> Has(kinds, toClient) \/ Frame.kind \in kinds
    BY <1>1, HasAppend
<1>3. server' \in Serving /\ server'.pushing = server.pushing
    <2>1. PICK left \in {0, IF server.held > 0 THEN server.held - 1 ELSE 0} :
             server' = [server EXCEPT !.dirty = FALSE, !.held = left]
        BY DEF Update
    <2>2. left \in 0 .. MaxWire
        BY <2>1, Bounds DEF RInv, Carried, Serving
    <2> QED
        BY <2>1, <2>2 DEF RInv, Carried, Serving
<1>4. Coming'
    BY <1>2, KindsOf DEF Coming
<1>5. Armed'
    BY <1>1, <1>2, <1>3 DEF RInv, Armed
<1> QED
    BY <1>1, <1>2, <1>3, <1>4, <1>5 DEF RInv, Carried, Waits

LEMMA ForgetStep == ASSUME RInv, Forget PROVE RInv'
<1>1. used' \in Uses /\ used'.lost > 0
    <2>1. used.lost + 1 \in 0 .. MaxLost /\ used.lost + 1 > 0
        BY SMTT(20), Bounds DEF Forget, RInv, Carried, Uses
    <2> QED
        BY <2>1 DEF Forget, RInv, Carried, Uses
<1>2. server' \in Serving /\ server'.pushing = server.pushing
    BY Bounds DEF Forget, RInv, Carried, Serving
<1>3. UNCHANGED <<session, outbox, toServer, toClient>>
    BY DEF Forget
<1> QED
    BY <1>1, <1>2, <1>3 DEF RInv, Carried, Waits, Armed

LEMMA StopPushingStep == ASSUME RInv, StopPushing PROVE RInv'
<1>1. /\ toClient' = Append(toClient, EndOfContinuousUpdates)
      /\ UNCHANGED <<session, outbox, toServer>>
      /\ toClient \in Seq(ToClient) /\ EndOfContinuousUpdates \in ToClient
    BY MessageTypes DEF StopPushing, RInv, Carried
<1>2. /\ toClient' \in Seq(ToClient)
      /\ \A kinds : Has(kinds, toClient')
            <=> Has(kinds, toClient) \/ EndOfContinuousUpdates.kind \in kinds
    BY <1>1, HasAppend
<1>3. used' \in Uses /\ used'.lost = used.lost
    <2>1. used.stops + 1 \in 0 .. MaxStops + 1
        BY SMTT(20), Bounds DEF StopPushing, RInv, Carried, Uses
    <2> QED
        BY <2>1 DEF StopPushing, RInv, Carried, Uses
<1>4. server' \in Serving /\ server'.held = server.held
    BY DEF StopPushing, RInv, Carried, Serving
<1>5. Armed'
    BY <1>2, KindsOf DEF Armed
<1>6. Coming => Coming'
    BY <1>1, <1>2, <1>4 DEF Coming
<1> QED
    BY <1>1, <1>2, <1>3, <1>4, <1>5, <1>6 DEF RInv, Carried, Waits

(* The queues keep their types, and the two promises stand, whatever the   *)
(* session (session.rs), the user, time and the server do.                 *)
THEOREM Invariance == Spec => []RInv
<1>1. Init => RInv
    BY RequestsInit
<1>2. RInv /\ [Next]_vars => RInv'
    <2> SUFFICES ASSUME RInv, [Next]_vars PROVE RInv'
        OBVIOUS
    <2>1. CASE Client
        BY <2>1, TickStep, ReceiveStep, FlushStep, FullRefreshStep, RequestNativeSizeStep
           DEF Client
    <2>2. CASE Time
        BY <2>2, TimeStep
    <2>3. CASE Server
        BY <2>3, DamageStep, TakeStep, UpdateStep, ForgetStep, StopPushingStep DEF Server
    <2>4. CASE UNCHANGED vars
        BY <2>4 DEF vars, RInv, Carried, Waits, Coming, Armed
    <2> QED
        BY <2>1, <2>2, <2>3, <2>4 DEF Next
<1> QED
    BY <1>1, <1>2, PTL DEF Spec

(* The session never waits for a frame that nothing will bring, unless the *)
(* server dropped a request (request_update, on_update); and it never      *)
(* takes itself to be pushed at by a server that was not told to push and  *)
(* will not be (the outbox of vnc.rs).                                     *)
THEOREM PicturesAreComing == Spec => []FramesAreComing
<1>1. RInv => FramesAreComing
    BY Promised DEF RInv, FramesAreComing
<1> QED
    BY <1>1, Invariance, PTL

(* The fields of the session and both queues hold what they should.        *)
THEOREM TypeCorrect == Spec => []TypeOK
<1>1. RInv => TypeOK
    BY Promised DEF RInv
<1> QED
    BY <1>1, Invariance, PTL
=============================================================================
