----------------------------- MODULE Negotiation ----------------------------
(***************************************************************************)
(* The size of the remote desktop (session.rs): the session asks the       *)
(* server for exactly the terminal's pixel area, the server grants, snaps, *)
(* refuses or forwards, other clients change the size too, and meanwhile   *)
(* the window is resized and the user changes his mind.                    *)
(*                                                                         *)
(* A size stands for a pair of dimensions, a window for the even size of   *)
(* its image area (target_size). A layout lists at least one screen, and   *)
(* every request carries the ids over, so only whether any is known counts.*)
(***************************************************************************)
EXTENDS Naturals, Sequences

CONSTANTS
    Sizes,          \* sizes of remote desktops
    None,           \* no size
    Windows,        \* what the terminal's window may be
    Plausible,      \* framebuffer_size_is_plausible
    Fits(_, _),     \* whether a desktop needs no scaling in a window
    FirstRemote, FirstWindow,
    CanResize,      \* whether servers know ExtendedDesktopSize
    Grants(_),      \* the sizes a request for a size may be given
    MayRefuse,      \* the server may refuse a request
    LateReasons,    \* how a server that forwards reports the outcome, if any does
    MaxWindows,     \* bound: window changes
    MaxCommands,    \* bound: commands of the user
    MaxOthers       \* bound: changes by somebody else

ASSUME SizeTypes ==
    /\ Windows \subseteq Sizes /\ Plausible \subseteq Sizes /\ None \notin Sizes
    /\ FirstRemote \in Plausible /\ FirstWindow \in Windows
    /\ \A s \in Windows : Grants(s) \subseteq Sizes
ASSUME ServerTypes ==
    /\ CanResize \subseteq BOOLEAN /\ MayRefuse \in BOOLEAN
    /\ LateReasons \subseteq {0, 1}
ASSUME MoveBounds ==
    MaxWindows \in Nat /\ MaxCommands \in Nat /\ MaxOthers \in Nat

VARIABLES
    session,    \* the fields of Session that take part
    window,     \* what the terminal's window is
    pending,    \* pending_metrics: a resize event waits for a tick
    toServer,   \* requests on their way
    toClient,   \* updates on their way
    server,     \* the size of the remote desktop, and what the server can
    guest,      \* requests the server has forwarded
    asks,       \* requests since what we want last changed
    early,      \* history: the window changed before the first layout was in
    windows, commands, others

vars == <<session, window, pending, toServer, toClient, server, guest, asks,
          early, windows, commands, others>>

Modes == {"native", "fit", "integer", "one"}
Session == [
    mode : Modes,
    resize : {"probing", "unsupported", "waiting", "native", "refused"},
    remote : Plausible,
    screens : BOOLEAN,
    requested : Sizes \union {None},
    metrics : Windows,
    laid : [mode : Modes, size : Plausible, window : Windows],
    out : {<<>>}]

End == [kind |-> "end", reason |-> 0, status |-> "success", size |-> None]
Resolution(s) == [kind |-> "size", reason |-> 0, status |-> "success", size |-> s]
Layout(r, st, s) == [kind |-> "layout", reason |-> r, status |-> st, size |-> s]

Update == [kind : {"end", "size", "layout"}, reason : 0 .. 2,
           status : {"success", "forwarded", "refused"},
           size : Sizes \union {None}]

TypeOK ==
    /\ session \in Session
    /\ window \in Windows
    /\ pending \in BOOLEAN
    /\ toServer \in Seq(Windows)
    /\ toClient \in Seq(Update)
    /\ server \in [size : Sizes, can : BOOLEAN]
    /\ guest \in Seq(Windows)
    /\ asks \in Nat
    /\ early \in BOOLEAN

(* The mode is --scale's; the first update brings a layout if there is one.*)
Init ==
    /\ \E m \in Modes :
        session = [mode |-> m, resize |-> "probing",
                   remote |-> FirstRemote, screens |-> FALSE,
                   requested |-> None, metrics |-> FirstWindow,
                   laid |-> [mode |-> m, size |-> FirstRemote,
                             window |-> FirstWindow],
                   out |-> <<>>]
    /\ window = FirstWindow
    /\ pending = FALSE
    /\ toServer = <<>>
    /\ server \in [size : {FirstRemote}, can : CanResize]
    /\ toClient = IF server.can
                    THEN <<Layout(0, "success", FirstRemote), End>>
                    ELSE <<End>>
    /\ guest = <<>>
    /\ asks = 0
    /\ early = FALSE /\ windows = 0 /\ commands = 0 /\ others = 0

-----------------------------------------------------------------------------
(* The handlers, each from one state of the session to the next.           *)
Relayout(c) ==
    [c EXCEPT !.laid = [mode |-> c.mode, size |-> c.remote, window |-> c.metrics]]

OnRemoteSize(c, s) ==
    IF s = c.remote \/ s \notin Plausible
      THEN c
      ELSE Relayout([c EXCEPT !.remote = s])

FallBackFromNative(c) ==
    IF c.mode = "native"
      THEN Relayout([c EXCEPT !.mode = IF Fits(c.remote, c.metrics)
                                         THEN "one" ELSE "fit"])
      ELSE c

(* Slips: what was asked for before is asked for again; a request that is  *)
(* outstanding is taken to cover whatever is wanted by now; and a reply is *)
(* waited for to a request that could not be sent.                         *)
AskAgain(c, force) ==
    IF c.metrics = c.remote THEN Relayout([c EXCEPT !.resize = "native"])
    ELSE IF (~force /\ c.resize = "waiting") \/ ~c.screens THEN c
    ELSE [c EXCEPT !.resize = "waiting", !.requested = c.metrics,
                   !.out = Append(@, c.metrics)]
AskOnce(c, force) ==
    IF c.metrics = c.remote THEN Relayout([c EXCEPT !.resize = "native"])
    ELSE IF (~force /\ c.requested # None) \/ ~c.screens THEN c
    ELSE [c EXCEPT !.resize = "waiting", !.requested = c.metrics,
                   !.out = Append(@, c.metrics)]

WaitUnsent(c, force) ==
    IF c.metrics = c.remote THEN Relayout([c EXCEPT !.resize = "native"])
    ELSE IF ~force /\ (c.resize = "waiting" \/ c.requested = c.metrics) THEN c
    ELSE [c EXCEPT !.resize = "waiting", !.requested = c.metrics,
                   !.out = IF c.screens THEN Append(@, c.metrics) ELSE @]

RequestNativeSize(c, force) ==
    LET want == c.metrics IN
    IF want = c.remote THEN Relayout([c EXCEPT !.resize = "native"])
    ELSE IF ~force /\ (c.resize = "waiting" \/ c.requested = want) THEN c
    ELSE IF ~c.screens THEN c
    ELSE [c EXCEPT !.resize = "waiting", !.requested = want,
                   !.out = Append(@, want)]

OnReply(c, m) ==
    CASE m.status = "success" ->
            RequestNativeSize(
                OnRemoteSize([c EXCEPT !.resize = "native"], m.size), FALSE)
      [] m.status = "forwarded" -> c
      [] m.status = "refused" ->
            FallBackFromNative([c EXCEPT !.resize = "refused"])

(* A layout at all means that requests are understood.                     *)
AfterProbing(c) ==
    IF c.mode = "native"
      THEN RequestNativeSize([c EXCEPT !.resize = "probing"], FALSE)
      ELSE [c EXCEPT !.resize = IF @ = "native" THEN @ ELSE "unsupported"]

OnLayout(c, m) ==
    LET known == [c EXCEPT !.screens = TRUE]
        heard == IF m.reason = 1 THEN OnReply(known, m)
                                 ELSE OnRemoteSize(known, m.size)
    IN IF c.resize = "probing" THEN AfterProbing(heard) ELSE heard

OnFrameEnd(c) ==
    IF c.resize = "probing"
      THEN FallBackFromNative([c EXCEPT !.resize = "unsupported"])
      ELSE c

OnUpdate(c, m) ==
    CASE m.kind = "end" -> OnFrameEnd(c)
      [] m.kind = "size" -> OnRemoteSize(c, m.size)
      [] m.kind = "layout" -> OnLayout(c, m)

(* on_tick, with a resize event waiting.                                   *)
OnResize(c) ==
    LET seen == Relayout([c EXCEPT !.metrics = window]) IN
    IF seen.mode = "native" \/ seen.resize \in {"native", "waiting"}
      THEN RequestNativeSize(seen, FALSE)
      ELSE seen

SetMode(c, m) ==
    IF m = "native"
      THEN RequestNativeSize([c EXCEPT !.mode = m, !.requested = None], TRUE)
      ELSE Relayout([c EXCEPT !.mode = m])

OnRenegotiate(c) ==
    RequestNativeSize([c EXCEPT !.mode = "native", !.resize = "probing",
                                !.requested = None], TRUE)

Become(c, before) ==
    /\ session' = [c EXCEPT !.out = <<>>]
    /\ toServer' = toServer \o c.out
    /\ asks' = before + Len(c.out)

-----------------------------------------------------------------------------
(* The session's steps.                                                    *)
Receive ==
    /\ toClient # <<>>
    /\ Become(OnUpdate(session, Head(toClient)), asks)
    /\ toClient' = Tail(toClient)
    /\ UNCHANGED <<window, pending, server, guest, early, windows, commands,
                   others>>

ApplyMetrics ==
    /\ pending
    /\ pending' = FALSE
    /\ Become(OnResize(session), IF window = session.metrics THEN asks ELSE 0)
    /\ UNCHANGED <<window, toClient, server, guest, early, windows, commands,
                   others>>

Command ==
    /\ commands < MaxCommands
    /\ commands' = commands + 1
    /\ \/ \E m \in Modes : Become(SetMode(session, m), 0)
       \/ Become(OnRenegotiate(session), 0)
    /\ UNCHANGED <<window, pending, toClient, server, guest, early, windows,
                   others>>

(* The terminal's window changes, and the event is read.                   *)
WindowChanges ==
    /\ windows < MaxWindows
    /\ windows' = windows + 1
    /\ early' = (early \/ ~session.screens)
    /\ window' \in Windows \ {window}
    /\ pending' = TRUE
    /\ UNCHANGED <<session, toServer, toClient, server, guest, asks, commands,
                   others>>

-----------------------------------------------------------------------------
(* The server, as the protocol allows it.                                  *)
Tell(m) == toClient' = Append(toClient, m)

Grant(w) == \E s \in Grants(w) :
    /\ server' = [server EXCEPT !.size = s]
    /\ guest' = guest
    /\ Tell(Layout(1, "success", s))
Refuse ==
    /\ MayRefuse
    /\ Tell(Layout(1, "refused", None))
    /\ UNCHANGED <<server, guest>>
Forward(w) ==
    /\ LateReasons # {}
    /\ Tell(Layout(1, "forwarded", None))
    /\ guest' = Append(guest, w)
    /\ server' = server

Answer ==
    /\ toServer # <<>>
    /\ toServer' = Tail(toServer)
    /\ Grant(Head(toServer)) \/ Refuse \/ Forward(Head(toServer))
    /\ UNCHANGED <<session, window, pending, asks, early, windows, commands,
                   others>>

GuestResizes ==
    /\ guest # <<>>
    /\ server' = [server EXCEPT !.size = Head(guest)]
    /\ guest' = Tail(guest)
    /\ \E r \in LateReasons : Tell(Layout(r, "success", Head(guest)))
    /\ UNCHANGED <<session, window, pending, toServer, asks, early, windows,
                   commands, others>>

SomebodyResizes ==
    /\ others < MaxOthers
    /\ others' = others + 1
    /\ \E s \in Sizes \ {server.size} :
        /\ server' = [server EXCEPT !.size = s]
        /\ Tell(IF server.can THEN Layout(2, "success", s) ELSE Resolution(s))
    /\ UNCHANGED <<session, window, pending, toServer, guest, asks, early,
                   windows, commands>>

(* Updates keep ending; one that is followed by another says no more.      *)
FrameEnds ==
    /\ toClient = <<>>
    /\ session.resize = "probing"
    /\ Tell(End)
    /\ UNCHANGED <<session, window, pending, toServer, server, guest, asks,
                   early, windows, commands, others>>

Quiet ==
    /\ toClient = <<>> /\ toServer = <<>> /\ guest = <<>> /\ ~pending
    /\ UNCHANGED vars

Client == Receive \/ ApplyMetrics \/ Command
Server == Answer \/ GuestResizes \/ SomebodyResizes \/ FrameEnds
Next == Client \/ Server \/ WindowChanges \/ Quiet
Spec == Init /\ [][Next]_vars

(* The loop reads and ticks, and the server gets round to what it is asked.*)
FairSpec ==
    /\ Spec
    /\ WF_vars(Receive) /\ WF_vars(ApplyMetrics)
    /\ WF_vars(Answer) /\ WF_vars(GuestResizes) /\ WF_vars(FrameEnds)

-----------------------------------------------------------------------------
(* "Asking again whenever the granted size differs from the wanted one     *)
(* would loop for ever, so a repeat only follows a change in what we want":*)
(* a window size or a command earns one request, however the answers, the  *)
(* snapping and other clients' changes fall around it.                     *)
AskedOnce == asks <= 1

(* What is on the screen is laid out for the desktop and the window the    *)
(* session knows, in the mode it says; only native mode may still be on    *)
(* its way, while the server is asked.                                     *)
LaidOutAsKnown ==
    /\ session.laid.size = session.remote
    /\ session.laid.window = session.metrics
    /\ session.laid.mode # session.mode => session.mode = "native"

(* The session waits only for what is still to come: while it holds back   *)
(* further requests, a reply is on its way.                                *)
Replies == {i \in DOMAIN toClient : toClient[i].reason = 1}
WaitsForAReply ==
    session.resize = "waiting" =>
        toServer # <<>> \/ guest # <<>> \/ Replies # {}

(* The two of them: the session and its server keep in step.               *)
KeepsStep == TypeOK /\ LaidOutAsKnown /\ WaitsForAReply

(* "Resize the terminal window and the remote desktop follows": when all   *)
(* is quiet, native mode is exact, or was answered with another size when  *)
(* it asked for exactly this window. That is, unless the window changed    *)
(* before there was a layout to ask with, somebody else has resized the    *)
(* desktop, which nobody here fights, or the server cannot (FallsBack).    *)
Settled ==
    /\ session.metrics = window
    /\ session.mode = "native" =>
        /\ session.resize = "native"
        /\ session.metrics \in {session.remote, session.requested}
Settles == <>[](early \/ others > 0 \/ ~server.can \/ Settled)

(* "keep waiting: a later layout may report success": waiting ends.        *)
WaitingEnds == session.resize = "waiting" ~> session.resize # "waiting"

(* "one request in flight at a time, so a drag cannot pile them up"        *)
OneInFlight == Len(toServer) + (IF Replies = {} THEN 0 ELSE 1) <= 1

(* "Until it does, or when it refuses, it behaves as a 1:1 window"         *)
(* (render/mod.rs:135-136): native mode is never drawn scaled.             *)
NativeIsOneToOne ==
    session.mode = "native" => session.laid.mode \in {"native", "one"}

(* "When a server will not do that [...] falls back to scaling or a 1:1    *)
(* view": native mode does not last on a server that cannot resize.        *)
FallsBack == []<>(session.mode = "native" => session.resize # "unsupported")
=============================================================================
