------------------------------- MODULE Backend ------------------------------
(***************************************************************************)
(* The road between the session and the server (remote/vnc.rs and          *)
(* rfb/client/connection.rs): the replies the protocol owes, the sizes the *)
(* two halves remember, the clipboard that is announced before it is sent, *)
(* and the two tasks with their bounded channels.                          *)
(*                                                                         *)
(* The session is one task.  In its select it flushes, then reads; any     *)
(* other branch cancels that.  A send is not cancelled: it flushes, then   *)
(* waits for room.  A message leaves the outbox in the poll that puts it   *)
(* into the channel, so each such step is atomic.                          *)
(***************************************************************************)
EXTENDS Naturals, Sequences, SequencesExt

CONSTANTS
    Sizes, Zero, None,  \* sizes of a desktop, 0 x 0, and no size at all
    First,              \* the size in ServerInit
    Room,               \* CHANNEL_SIZE, of both channels
    Wire,               \* bound: messages a socket holds, in each direction
    PushWanted, ClipboardWanted,
    MaxSaid,            \* bound: messages of the server
    MaxPastes           \* bound: texts pasted

ASSUME BackendConstants ==
    /\ First \in Sizes /\ Zero \notin Sizes /\ None \notin Sizes /\ Zero # None
    /\ {Room, Wire} \subseteq Nat \ {0}
    /\ {PushWanted, ClipboardWanted} \subseteq BOOLEAN
    /\ {MaxSaid, MaxPastes} \subseteq Nat

VARIABLES
    session,    \* where it is, what it is sending, whether it holds a key down
    state,      \* VncBackend's State
    screen,     \* VncInner's screen
    inCh, outCh,            \* input_ch and output_ch
    writer,                 \* the task behind input_ch
    toServer, toClient,     \* the socket
    server

vars == <<session, state, screen, inCh, outCh, writer, toServer, toClient, server>>
channels == <<inCh, outCh, writer, toServer, toClient>>

(* What a clipboard's caps allow: nothing, provides, or notifies as well.  *)
Caps == {"none", "provide", "notify"}

Message(kind, arg) == [kind |-> kind, arg |-> arg]
(* A size, and whether the server stands behind it.                        *)
Report(s, stands) == [kind |-> "size", arg |-> s, stands |-> stands]

TypeOK ==
    /\ session.at \in {"select", "send", "leaving", "closed"}
    /\ state.size \in Sizes /\ state.pushingFor \in Sizes \cup {None}
    /\ state.caps \in Caps /\ state.announced \in 0 .. MaxPastes
    /\ screen \in Sizes \cup {Zero}
    /\ Len(inCh) <= Room /\ Len(outCh) <= Room
    /\ Len(toServer) <= Wire /\ Len(toClient) <= Wire
    /\ writer \in {"running", "stopped"}
    /\ server.size \in Sizes \cup {Zero} /\ server.pushing \in Sizes \cup {None}

(* The connector has sent what opens the session; the first size is        *)
(* already in output_ch, and the first request in input_ch.                *)
Init ==
    /\ session = [at |-> "select", input |-> None, held |-> FALSE, pastes |-> 0]
    /\ state = [outbox |-> <<>>, size |-> First, pushingFor |-> None,
                caps |-> "none", announced |-> 0]
    /\ screen = First
    /\ inCh = <<>> /\ outCh = <<Report(First, TRUE)>>
    /\ writer = "running"
    /\ toServer = <<>> /\ toClient = <<>>
    /\ server = [said |-> 0, size |-> First, pushing |-> None, pushes |-> FALSE,
                 fenced |-> 0, echoed |-> 0, agreed |-> FALSE, notified |-> 0,
                 asked |-> <<>>, answers |-> <<>>, keyDown |-> FALSE,
                 gone |-> FALSE]

-----------------------------------------------------------------------------
(* What VncBackend does with an event, and the replies it owes.            *)
Owe(st, m) == [st EXCEPT !.outbox = Append(@, m)]

EnablePushing(st) ==
    IF st.pushingFor = st.size THEN st
    ELSE [Owe(st, Message("enable", st.size)) EXCEPT !.pushingFor = st.size]

(* Slip: the server is left with the rectangle it was given.               *)
AdoptOnly(st, s) == IF s = Zero THEN st ELSE [st EXCEPT !.size = s]

AdoptSize(st, s) ==
    IF s \in {st.size, Zero} THEN st
    ELSE LET known == [st EXCEPT !.size = s]
         IN IF st.pushingFor = None THEN known
            ELSE EnablePushing([known EXCEPT !.pushingFor = None])

OnSize(st, e) == IF e.stands THEN AdoptSize(st, e.arg) ELSE st

OnEnd(st) ==
    IF PushWanted THEN EnablePushing([st EXCEPT !.pushingFor = None]) ELSE st

OnCaps(st, caps) == Owe([st EXCEPT !.caps = caps], Message("caps", 0))

OnNotify(st) == IF ClipboardWanted THEN Owe(st, Message("request", 0)) ELSE st

OnRequest(st) ==
    IF ClipboardWanted /\ st.announced # 0
      THEN Owe(st, Message("answer", st.announced)) ELSE st

Translate(st, e) ==
    CASE e.kind = "size" -> OnSize(st, e)
      [] e.kind = "end of pushing" -> OnEnd(st)
      [] e.kind = "fence" -> Owe(st, e)
      [] e.kind = "caps" -> OnCaps(st, e.arg)
      [] e.kind = "notify" -> OnNotify(st)
      [] e.kind = "request" -> OnRequest(st)
      [] OTHER -> st

(* VncInner keeps a size of its own, from the same events.                 *)
Observe(e) == IF e.kind = "size" /\ e.stands THEN e.arg ELSE screen

(* Slip: what was announced first is what is sent.                         *)
PasteOnce(st, n, small) ==
    IF st.caps # "notify" \/ small
      THEN [out |-> Message("provide", n), st |-> st]
      ELSE [out |-> Message("notify", n),
            st |-> [st EXCEPT !.announced = IF @ = 0 THEN n ELSE @]]

(* Pasted text goes at once where it is small or cannot be announced,      *)
(* and as Latin-1 where the extension is not in play.                      *)
Paste(st, n, small) ==
    CASE st.caps = "none" -> [out |-> Message("text", n), st |-> st]
      [] st.caps # "none" /\ (small \/ st.caps = "provide") ->
            [out |-> Message("provide", n), st |-> st]
      [] OTHER -> [out |-> Message("notify", n), st |-> [st EXCEPT !.announced = n]]

-----------------------------------------------------------------------------
(* The session's side.                                                     *)
Input(kind, arg, small) == [kind |-> kind, arg |-> arg, small |-> small]
KeyUp == Input("key", "up", FALSE)

Sending == session.at \in {"send", "leaving"} /\ session.input # None
Polls == session.at = "select" \/ Sending
HasRoom == writer = "running" /\ Len(inCh) < Room

(* The session ends: what is held is let go of, then the client is closed. *)
Left == [session EXCEPT !.at = "leaving",
                        !.input = IF session.held THEN KeyUp ELSE None]

(* Slip: the reply is off the queue before there is room for it, and the   *)
(* wait for room is cancelled.                                             *)
FlushEarly ==
    /\ Polls /\ state.outbox # <<>> /\ writer = "running"
    /\ inCh' = IF Len(inCh) < Room THEN Append(inCh, Head(state.outbox)) ELSE inCh
    /\ state' = [state EXCEPT !.outbox = Tail(@)]
    /\ UNCHANGED <<session, screen, outCh, writer, toServer, toClient, server>>

Flush ==
    /\ Polls /\ state.outbox # <<>> /\ HasRoom
    /\ inCh' = Append(inCh, Head(state.outbox))
    /\ state' = [state EXCEPT !.outbox = Tail(@)]
    /\ UNCHANGED <<session, screen, outCh, writer, toServer, toClient, server>>

Recv ==
    /\ session.at = "select" /\ state.outbox = <<>> /\ outCh # <<>>
    /\ outCh' = Tail(outCh)
    /\ state' = Translate(state, Head(outCh))
    /\ screen' = Observe(Head(outCh))
    /\ session' = IF Head(outCh).kind = "error" THEN Left ELSE session
    /\ UNCHANGED <<inCh, writer, toServer, toClient, server>>

(* Another branch of the select wins and has something to send.            *)
Command ==
    /\ session.at = "select"
    /\ \/ /\ session.pastes < MaxPastes /\ ClipboardWanted
          /\ \E small \in BOOLEAN :
                session' = [session EXCEPT !.at = "send", !.pastes = @ + 1,
                            !.input = Input("paste", session.pastes + 1, small)]
       \/ /\ ~session.held
          /\ session' = [session EXCEPT !.at = "send", !.held = TRUE,
                         !.input = Input("key", "down", FALSE)]
    /\ UNCHANGED <<state, screen, channels, server>>

Quit ==
    /\ session.at = "select"
    /\ session' = Left
    /\ UNCHANGED <<state, screen, channels, server>>

Sent == [session EXCEPT !.at = IF @ = "send" THEN "select" ELSE @, !.input = None]
Carried == IF session.input.kind = "paste"
             THEN Paste(state, session.input.arg, session.input.small)
             ELSE [out |-> Message("key", session.input.arg), st |-> state]

Send ==
    /\ Sending /\ state.outbox = <<>> /\ HasRoom
    /\ inCh' = Append(inCh, Carried.out)
    /\ state' = Carried.st
    /\ session' = Sent
    /\ UNCHANGED <<screen, outCh, writer, toServer, toClient, server>>

(* The channel is closed: recv and send fail, and the session ends.  On    *)
(* the way out nobody looks at the result.                                 *)
SendFails ==
    /\ writer = "stopped"
    /\ Sending \/ (session.at = "select" /\ state.outbox # <<>>)
    /\ session' = IF session.at = "leaving" THEN [session EXCEPT !.input = None] ELSE Left
    /\ UNCHANGED <<state, screen, channels, server>>

(* Both tasks are aborted, and what is still in their channels goes with   *)
(* them.                                                                   *)
Close ==
    /\ session.at = "leaving" /\ session.input = None
    /\ session' = [session EXCEPT !.at = "closed"]
    /\ writer' = "stopped" /\ inCh' = <<>> /\ outCh' = <<>>
    /\ UNCHANGED <<state, screen, toServer, toClient, server>>

-----------------------------------------------------------------------------
(* The two tasks.                                                          *)
Read ==
    /\ session.at # "closed" /\ toClient # <<>> /\ Len(outCh) < Room
    /\ outCh' = Append(outCh, Head(toClient))
    /\ toClient' = Tail(toClient)
    /\ UNCHANGED <<session, state, screen, inCh, writer, toServer, server>>

Write ==
    /\ writer = "running" /\ inCh # <<>> /\ Len(toServer) < Wire /\ ~server.gone
    /\ toServer' = Append(toServer, Head(inCh))
    /\ inCh' = Tail(inCh)
    /\ UNCHANGED <<session, state, screen, outCh, writer, toClient, server>>

(* Slip: what cannot be written is tried again.                            *)
WriteRetries ==
    /\ writer = "running" /\ inCh # <<>> /\ server.gone
    /\ UNCHANGED vars

WriteFails ==
    /\ writer = "running" /\ inCh # <<>> /\ server.gone
    /\ writer' = "stopped" /\ inCh' = <<>>
    /\ UNCHANGED <<session, state, screen, outCh, toServer, toClient, server>>

-----------------------------------------------------------------------------
(* The server, which reads whatever it has to say itself.                  *)
Says(m, after) ==
    /\ server.said < MaxSaid /\ ~server.gone /\ Len(toClient) < Wire
    /\ toClient' = Append(toClient, m)
    /\ server' = [after EXCEPT !.said = @ + 1]
    /\ UNCHANGED <<session, state, screen, inCh, outCh, writer, toServer>>

Fences ==
    Says(Message("fence", server.fenced + 1), [server EXCEPT !.fenced = @ + 1])

Resizes ==
    \E s \in Sizes \cup {Zero} : Says(Report(s, TRUE), [server EXCEPT !.size = s])

(* Its answer to a resize it will not do: the size in it means nothing.    *)
Refuses == \E s \in Sizes \cup {Zero} : Says(Report(s, FALSE), server)

(* It has continuous updates, or has stopped them.                         *)
EndsPushing ==
    Says(Message("end of pushing", 0),
         [server EXCEPT !.pushes = TRUE, !.pushing = None])

OffersCaps == ClipboardWanted /\ \E c \in Caps : Says(Message("caps", c), server)

Notifies == server.agreed /\ Says(Message("notify", 0), server)

AsksForText ==
    /\ server.notified # 0
    /\ Says(Message("request", 0),
            [server EXCEPT !.asked = Append(@, server.notified)])

GoesAway ==
    Says(Message("error", 0), [server EXCEPT !.gone = TRUE])

(* What it makes of a message.                                             *)
Hears(m) ==
    CASE m.kind = "fence" -> [server EXCEPT !.echoed = m.arg]
      [] m.kind = "enable" -> [server EXCEPT !.pushing = m.arg]
      [] m.kind = "caps" -> [server EXCEPT !.agreed = TRUE]
      [] m.kind = "notify" -> [server EXCEPT !.notified = m.arg]
      [] m.kind = "answer" -> [server EXCEPT !.answers = Append(@, m.arg)]
      [] m.kind = "key" -> [server EXCEPT !.keyDown = m.arg = "down"]
      [] OTHER -> server

ServerReads ==
    /\ toServer # <<>> /\ ~server.gone
    /\ toServer' = Tail(toServer)
    /\ server' = Hears(Head(toServer))
    /\ UNCHANGED <<session, state, screen, inCh, outCh, writer, toClient>>

-----------------------------------------------------------------------------
Session == Flush \/ Recv \/ Command \/ Quit \/ Send \/ SendFails \/ Close
Tasks == Read \/ Write \/ WriteFails
Server == Fences \/ Resizes \/ Refuses \/ EndsPushing \/ OffersCaps \/ Notifies
            \/ AsksForText \/ GoesAway \/ ServerReads

Next == Session \/ Tasks \/ Server

Spec == Init /\ [][Next]_vars

(* Runnable tasks run; when to speak is up to the server and the user.     *)
FairSpec ==
    /\ Spec
    /\ WF_vars(Flush) /\ WF_vars(Recv) /\ WF_vars(Send) /\ WF_vars(SendFails)
    /\ WF_vars(Close)
    /\ WF_vars(Read) /\ WF_vars(Write) /\ WF_vars(WriteFails)
    /\ WF_vars(ServerReads)

-----------------------------------------------------------------------------
Live == session.at # "closed" /\ writer = "running"
(* Everything on its way out, in the order it will arrive in.              *)
Outgoing == toServer \o inCh \o state.outbox
Incoming == outCh \o toClient
Fencing(q) == {i \in DOMAIN q : q[i].kind = "fence"}

(* Every fence of the server is answered, once and in order: those not     *)
(* answered yet are on their way, whatever cancelled a flush (outbox and   *)
(* flush, vnc.rs:166-173, 225-241).                                        *)
EchoesInOrder ==
    Live => LET q == Outgoing \o Incoming IN
        /\ {q[i].arg : i \in Fencing(q)} = server.echoed + 1 .. server.fenced
        /\ \A i, j \in Fencing(q) : i < j => q[i].arg < q[j].arg

(* Our caps come before anything else of the extended clipboard            *)
(* (vnc.rs:291-296), although pastes and replies take different ways into  *)
(* the channel.                                                            *)
CapsFirst ==
    ~server.agreed => \A i \in DOMAIN Outgoing :
        Outgoing[i].kind \in {"request", "notify", "provide", "answer"} =>
            \E j \in 1 .. i - 1 : Outgoing[j].kind = "caps"

(* The two of them: what is owed goes out in the order it has to.          *)
GoesOutInOrder == EchoesInOrder /\ CapsFirst

(* Backend and engine each keep the size of the desktop and agree on it    *)
(* (vnc.rs:186-191), but for a size of zero, which only the engine takes.  *)
SizesAgree == screen \in {state.size, Zero}

(* A server that asks for the text it was told of is given that text or a  *)
(* later one (announced, vnc.rs:196-201).                                  *)
AnswersAnnounced ==
    \A i \in DOMAIN server.answers : server.answers[i] >= server.asked[i]

(* The two of them: what the backend remembers for later is still right.   *)
RemembersRightly == SizesAgree /\ AnswersAnnounced

(* Once sizes settle, a server that pushes pushes the whole desktop        *)
(* (pushing_for, vnc.rs:176-181).                                          *)
PushedWhole ==
    <>[](\/ session.at \in {"leaving", "closed"} \/ server.gone
         \/ ~server.pushes \/ server.size = Zero
         \/ ~PushWanted \/ server.pushing = server.size)

(* A send ends: with a server that reads, or one that goes away, nothing   *)
(* keeps the session from its loop (send and recv share one lock and two   *)
(* bounded channels, connection.rs:23, 309-316).                           *)
SendReturns == (session.at = "send") ~> (session.at # "send")

(* What the user held is let go of on the remote before the session is     *)
(* over (session.rs:172-176).                                              *)
LetGoOnLeaving ==
    (session.at = "closed") ~> (server.gone \/ ~server.keyDown)
=============================================================================
