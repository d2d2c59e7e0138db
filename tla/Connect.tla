------------------------------- MODULE Connect ------------------------------
(***************************************************************************)
(* From nothing to a session and back (session.rs run, remote/vnc.rs       *)
(* connect, rfb/client/connector.rs, rfb/client/auth.rs and the opening of *)
(* rfb/client/connection.rs): the handshake in its three versions, the     *)
(* prompt, and the loop that comes back after a loss.                      *)
(*                                                                         *)
(* The socket carries units: the bytes one read takes are one unit, of a   *)
(* kind.  A side that meets a unit of another kind than it reads is out of *)
(* step with its peer, and nothing it reads from then on means anything.   *)
(* The other end is external: a server that does what RFC 6143 says.       *)
(***************************************************************************)
EXTENDS Naturals, Sequences, SequencesExt

CONSTANTS
    Versions,       \* what a server may announce: 33, 37, 38, or something else
    Offers,         \* the sets of security types a server may offer
    Formats, Unset, \* pixel formats; Unset asks for none
    Wanted,         \* the formats a client may ask for, Unset among them
    Options,        \* the sets of encodings the command line may leave in
    Passwords, Secret, NoPassword,  \* NoPassword: none given yet
    First, Longest, \* the backoff, in half seconds
    Keeps,          \* whether --reconnect was given
    AsksLater,      \* whether one may come to ask for a password nobody gave
    MaxFaults       \* bound: times the other end, or the terminal, fails us

ASSUME ConnectConstants ==
    /\ Unset \notin Formats /\ Wanted \subseteq Formats \cup {Unset}
    /\ Secret \in Passwords /\ NoPassword \notin Passwords
    /\ {First, Longest, MaxFaults} \subseteq Nat /\ First <= Longest
    /\ Keeps \subseteq BOOLEAN /\ AsksLater \in BOOLEAN

VARIABLES
    run,                \* the loop: where it is, and what it keeps
    hand,               \* the client's side of the handshake
    toServer, toClient, \* the socket
    server,             \* the other end of this connection
    faults

vars == <<run, hand, toServer, toClient, server, faults>>
socket == <<toServer, toClient>>

Unit(kind, arg) == [kind |-> kind, arg |-> arg]

Unconnected ==
    [reads |-> "nothing", version |-> 38, auth |-> FALSE,
     format |-> run.wants]

Away == [at |-> "away", says |-> 38, speaks |-> 38, offer |-> {}, refuses |-> FALSE,
         denies |-> FALSE, admits |-> FALSE, format |-> Unset, encodings |-> {},
         asked |-> FALSE]

Init ==
    /\ \E opts \in Options, given \in Passwords \cup {NoPassword},
          wants \in Wanted, keeps \in Keeps :
        run = [at |-> "dial", full |-> FALSE, password |-> given, prompted |-> FALSE,
               backoff |-> First, options |-> opts, wants |-> wants, quits |-> FALSE,
               keeps |-> keeps]
    /\ hand = Unconnected /\ server = Away
    /\ toServer = <<>> /\ toClient = <<>> /\ faults = 0

-----------------------------------------------------------------------------
(* The loop, and the connect before the alternate screen.                  *)
HangUp == hand' = Unconnected /\ server' = Away /\ toServer' = <<>> /\ toClient' = <<>>

Pause == [run EXCEPT !.at = "pause",
                     !.backoff = IF 2 * @ < Longest THEN 2 * @ ELSE Longest]
Exit == [run EXCEPT !.at = "exited"]

(* connect returned an error: in the loop it is tried again, whatever it   *)
(* was; before the alternate screen only a password is asked for, once.    *)
Failed(needsPassword) ==
    CASE run.full -> Pause
      [] ~run.full /\ needsPassword /\ ~run.prompted -> [run EXCEPT !.at = "prompt"]
      [] OTHER -> Exit

Usable == {"none", "vnc"}

Willing(s) ==
    /\ ~s.refuses /\ ~s.denies /\ s.offer \cap Usable # {}
    /\ AsksLater \/ ~run.full \/ "vnc" \notin s.offer \/ run.password = Secret

(* A connection is accepted by a server that is willing, or costs a fault. *)
Dial ==
    /\ run.at = "dial"
    /\ \E v \in Versions, offer \in Offers, refuses \in BOOLEAN,
          denies \in BOOLEAN, f \in Formats :
        /\ server' = [Away EXCEPT !.at = "greet", !.says = v, !.offer = offer,
                                  !.refuses = refuses, !.denies = denies, !.format = f]
        /\ Willing(server') \/ faults < MaxFaults
        /\ faults' = IF Willing(server') THEN faults ELSE faults + 1
    /\ hand' = [Unconnected EXCEPT !.reads = "version"]
    /\ run' = [run EXCEPT !.at = "handshake"]
    /\ UNCHANGED socket

(* Refused, or timed out after CONNECT_TIMEOUT.                            *)
DialFails ==
    /\ run.at = "dial" /\ faults < MaxFaults
    /\ faults' = faults + 1
    /\ run' = Failed(FALSE)
    /\ UNCHANGED <<hand, socket, server>>

Prompted ==
    /\ run.at = "prompt"
    /\ \/ \E p \in Passwords :
            run' = [run EXCEPT !.at = "dial", !.password = p, !.prompted = TRUE]
       \/ run' = Exit
    /\ UNCHANGED <<hand, socket, server, faults>>

Paused ==
    /\ run.at = "pause"
    /\ run' = [run EXCEPT !.at = "dial"]
    /\ UNCHANGED <<hand, socket, server, faults>>

(* Connected: the full screen on the first time, and a Session over it.    *)
Begin ==
    /\ run.at = "opening"
    /\ run' = [run EXCEPT !.at = "session", !.full = TRUE, !.backoff = First]
    /\ UNCHANGED <<hand, socket, server, faults>>

(* The terminal fails us there, which ends the loop whatever was asked.    *)
BeginFails ==
    /\ run.at = "opening" /\ faults < MaxFaults
    /\ run' = Exit /\ HangUp /\ faults' = faults + 1

(* The user asks to quit, at any time once the screen is ours.             *)
TypeQuit ==
    /\ run.full /\ run.at # "exited" /\ ~run.quits
    /\ run' = [run EXCEPT !.quits = TRUE]
    /\ UNCHANGED <<hand, socket, server, faults>>

(* Only a session reads the keyboard.                                      *)
Quit ==
    /\ run.at = "session" /\ run.quits
    /\ run' = Exit /\ HangUp /\ UNCHANGED faults

(* The engine reports the end of the stream.                               *)
Lost ==
    /\ run.at = "session" /\ server.at = "gone"
    /\ run' = IF run.keeps THEN Pause ELSE Exit
    /\ HangUp /\ UNCHANGED faults

-----------------------------------------------------------------------------
(* The handshake, from read to read.  What is written fits the socket.     *)
Reads(kind) ==
    /\ run.at = "handshake" /\ hand.reads = kind
    /\ toClient # <<>> /\ Head(toClient).kind = kind
    /\ toClient' = Tail(toClient)
Got == Head(toClient).arg

Sends(units) == toServer' = toServer \o units

(* Any other version than the three is 3.3, which every server speaks.     *)
Known(v) == IF v \in {33, 37, 38} THEN v ELSE 33
Lower(v, w) == IF v < w THEN v ELSE w

ReadVersion ==
    /\ Reads("version")
    /\ \E v \in {Lower(hand.version, Known(Got))} :
        /\ hand' = [hand EXCEPT !.version = v,
                                !.reads = IF v = 33 THEN "type" ELSE "types"]
        /\ Sends(<<Unit("version", v)>>)
    /\ UNCHANGED <<run, server, faults>>

Stop(needsPassword) ==
    /\ run' = Failed(needsPassword)
    /\ hand' = Unconnected /\ server' = Away /\ toServer' = <<>> /\ toClient' = <<>>
    /\ UNCHANGED faults

(* Slip: every version is answered with the chosen type.                   *)
ChosenAlways(type) == <<Unit("type", type)>>

(* From 3.7 on the client chooses.                                         *)
Chosen(type) == IF hand.version = 33 THEN <<>> ELSE <<Unit("type", type)>>

(* Slip: 3.7 is taken to confirm such a type, as 3.8 does.                 *)
OpensUnconfirmed(v) == v = 33

(* Before 3.8 nothing confirms a type that needs no password.              *)
Opens(v) == v # 38

ReadTypes ==
    /\ \/ Reads("type") \/ Reads("types")
    /\ UNCHANGED <<run, server, faults>>
    /\ \/ /\ Got = {}
          /\ hand' = [hand EXCEPT !.reads = "reason"] /\ UNCHANGED toServer
       \/ /\ "none" \in Got /\ "unknown" \notin Got
          /\ IF Opens(hand.version)
               THEN /\ Sends(Chosen("none") \o <<Unit("shared", TRUE)>>)
                    /\ hand' = [hand EXCEPT !.reads = "init"]
               ELSE /\ Sends(Chosen("none"))
                    /\ hand' = [hand EXCEPT !.reads = "result"]
       \/ /\ "vnc" \in Got /\ Got \cap {"none", "unknown"} = {}
          /\ run.password # NoPassword
          /\ Sends(Chosen("vnc"))
          /\ hand' = [hand EXCEPT !.reads = "challenge"]

(* An unknown type fails the whole list, known ones in it or not; and a    *)
(* password the server wants and nobody gave fails this attempt.           *)
ReadTypesFails ==
    /\ run.at = "handshake" /\ hand.reads \in {"type", "types"}
    /\ toClient # <<>> /\ Head(toClient).kind = hand.reads
    /\ \/ Got # {} /\ (Got \cap {"none", "vnc"} = {} \/ "unknown" \in Got)
            /\ Stop(FALSE)
       \/ "vnc" \in Got /\ Got \cap {"none", "unknown"} = {}
            /\ run.password = NoPassword /\ Stop(TRUE)

ReadChallenge ==
    /\ Reads("challenge")
    /\ Sends(<<Unit("response", run.password)>>)
    /\ hand' = [hand EXCEPT !.reads = "result", !.auth = TRUE]
    /\ UNCHANGED <<run, server, faults>>

(* Where no password was sent the word is read and not looked at.          *)
Rejected(ok) == hand.auth /\ ~ok

ReadResult ==
    /\ Reads("result")
    /\ \/ /\ ~Rejected(Got)
          /\ Sends(<<Unit("shared", TRUE)>>)
          /\ hand' = [hand EXCEPT !.reads = "init"]
          /\ UNCHANGED <<run, server, faults>>
       \/ /\ Rejected(Got) /\ hand.version # 37
          /\ hand' = [hand EXCEPT !.reads = "reason"]
          /\ UNCHANGED <<run, toServer, server, faults>>

(* 3.7 closes without a reason.                                            *)
ReadResultFails ==
    /\ run.at = "handshake" /\ hand.reads = "result" /\ hand.version = 37
    /\ toClient # <<>> /\ Head(toClient).kind = "result" /\ Rejected(Got)
    /\ Stop(FALSE)

(* A reason is read to the end of the stream.                              *)
ReadReason ==
    /\ run.at = "handshake" /\ hand.reads = "reason"
    /\ toClient # <<>> /\ Head(toClient).kind = "reason" /\ server.at = "gone"
    /\ Stop(FALSE)

FormatKept(theirs) == IF hand.format = Unset THEN theirs ELSE hand.format
FormatSent == IF hand.format = Unset THEN <<>> ELSE <<Unit("format", hand.format)>>

(* What is asked for whatever the command line says, and what it leaves in.*)
Always == {"pictures", "sizes", "fence", "leds"}
Encodings == Always \cup run.options

(* The format, the encodings in one message with the hints, and the first  *)
(* request, which is queued before the two tasks start.                    *)
ReadInit ==
    /\ Reads("init")
    /\ Sends(FormatSent \o <<Unit("encodings", Encodings), Unit("request", "whole")>>)
    /\ hand' = [hand EXCEPT !.reads = "messages", !.format = FormatKept(Got)]
    /\ run' = [run EXCEPT !.at = "opening"]
    /\ UNCHANGED <<server, faults>>

(* The stream ends where something was to be read, or has less than that   *)
(* left: a reason is shorter than what ServerInit takes.                   *)
ReadFails ==
    /\ run.at = "handshake" /\ server.at = "gone"
    /\ ~(toClient # <<>> /\ Head(toClient).kind = hand.reads)
    /\ Stop(FALSE)

-----------------------------------------------------------------------------
(* The other end.                                                          *)
Says(units) == toClient' = toClient \o units
Hears(kind) ==
    /\ toServer # <<>> /\ Head(toServer).kind = kind
    /\ toServer' = Tail(toServer)
Heard == Head(toServer).arg

Greets ==
    /\ server.at = "greet"
    /\ Says(<<Unit("version", server.says)>>)
    /\ server' = [server EXCEPT !.at = "version"]
    /\ UNCHANGED <<run, hand, toServer, faults>>

(* What it offers, in the words of the version they have agreed on.        *)
OffersTypes ==
    /\ server.at = "version" /\ Hears("version")
    /\ UNCHANGED <<run, hand, faults>>
    /\ \E kind \in {IF Heard = 33 THEN "type" ELSE "types"} :
        \/ /\ server.refuses
           /\ Says(<<Unit(kind, {}), Unit("reason", 0)>>)
           /\ server' = [server EXCEPT !.at = "gone", !.speaks = Heard]
        \/ /\ ~server.refuses /\ Heard # 33
           /\ Says(<<Unit(kind, server.offer)>>)
           /\ server' = [server EXCEPT !.at = "type", !.speaks = Heard]
        \/ /\ ~server.refuses /\ Heard = 33
           /\ \E t \in IF server.offer \cap Usable = {} THEN server.offer
                      ELSE server.offer \cap Usable :
                /\ Says(<<Unit(kind, {t})>> \o
                        (IF t = "vnc" THEN <<Unit("challenge", 0)>> ELSE <<>>))
                /\ server' = [server EXCEPT !.speaks = 33, !.admits = t = "none",
                       !.at = IF t = "vnc" THEN "response" ELSE "shared"]

Admits == [server EXCEPT !.at = "shared", !.admits = TRUE]
TurnsAway == [server EXCEPT !.at = "gone"]
Reason == IF server.speaks = 38 THEN <<Unit("reason", 0)>> ELSE <<>>

HearsType ==
    /\ server.at = "type" /\ Hears("type")
    /\ UNCHANGED <<run, hand, faults>>
    /\ \/ /\ Heard = "none" /\ server.speaks # 38
          /\ server' = Admits /\ UNCHANGED toClient
       \/ /\ Heard = "none" /\ server.speaks = 38 /\ ~server.denies
          /\ server' = Admits /\ Says(<<Unit("result", TRUE)>>)
       \/ /\ Heard = "none" /\ server.speaks = 38 /\ server.denies
          /\ server' = TurnsAway /\ Says(<<Unit("result", FALSE)>> \o Reason)
       \/ /\ Heard = "vnc"
          /\ server' = [server EXCEPT !.at = "response"]
          /\ Says(<<Unit("challenge", 0)>>)

HearsResponse ==
    /\ server.at = "response" /\ Hears("response")
    /\ UNCHANGED <<run, hand, faults>>
    /\ \/ /\ Heard = Secret
          /\ server' = Admits /\ Says(<<Unit("result", TRUE)>>)
       \/ /\ Heard # Secret
          /\ server' = TurnsAway /\ Says(<<Unit("result", FALSE)>> \o Reason)

HearsShared ==
    /\ server.at = "shared" /\ Hears("shared")
    /\ Says(<<Unit("init", server.format)>>)
    /\ server' = [server EXCEPT !.at = "messages"]
    /\ UNCHANGED <<run, hand, faults>>

HearsMessage ==
    /\ server.at = "messages"
    /\ \/ Hears("format") /\ server' = [server EXCEPT !.format = Heard]
       \/ Hears("encodings") /\ server' = [server EXCEPT !.encodings = Heard]
       \/ Hears("request") /\ server' = [server EXCEPT !.asked = TRUE]
    /\ UNCHANGED <<run, hand, toClient, faults>>

(* It goes away; what it had said may be lost with it.                     *)
GoesAway ==
    /\ server.at \notin {"away", "gone", "asleep"} /\ faults < MaxFaults
    /\ server' = [server EXCEPT !.at = "gone"] /\ faults' = faults + 1
    /\ toClient' \in {toClient, <<>>}
    /\ UNCHANGED <<run, hand, toServer>>

FallsSilent ==
    /\ server.at \notin {"away", "gone", "asleep"} /\ faults < MaxFaults
    /\ server' = [server EXCEPT !.at = "asleep"] /\ faults' = faults + 1
    /\ UNCHANGED <<run, hand, socket>>

-----------------------------------------------------------------------------
Client ==
    \/ Dial \/ DialFails \/ Prompted \/ Paused \/ Begin \/ BeginFails
    \/ Quit \/ Lost
    \/ ReadVersion \/ ReadTypes \/ ReadTypesFails \/ ReadChallenge \/ ReadResult
    \/ ReadResultFails \/ ReadReason \/ ReadInit \/ ReadFails
Server ==
    \/ Greets \/ OffersTypes \/ HearsType \/ HearsResponse \/ HearsShared
    \/ HearsMessage

Next == Client \/ Server \/ TypeQuit \/ GoesAway \/ FallsSilent

Spec == Init /\ [][Next]_vars

(* The task and the peer keep going; faults and the quit are choices.  A   *)
(* dial that can succeed is not refused for ever: refusals are counted.    *)
FairSpec == Spec /\ WF_vars(Client) /\ WF_vars(Server)

-----------------------------------------------------------------------------
(* Both sides agree on what comes next: whatever either finds on the       *)
(* stream is what it is about to read, in all three versions of the        *)
(* handshake and with every type (the reads that only some versions make,  *)
(* connector.rs:60-81 and 84-125, auth.rs:61-94).                          *)
ClientInStep ==
    run.at = "handshake" /\ toClient # <<>> => Head(toClient).kind = hand.reads
ServerInStep ==
    /\ server.at \in {"version", "type", "response", "shared"} /\ toServer # <<>> =>
          Head(toServer).kind = server.at
    /\ server.at = "messages" /\ toServer # <<>> =>
          Head(toServer).kind \in {"format", "encodings", "request"}

(* The same, but for a server that says no to a client without a password: *)
(* see RefusalRead.                                                        *)
InStep == ServerInStep /\ (ClientInStep \/ server.denies)

(* A session is one the server granted, in the version it speaks; and once *)
(* what opens it has arrived, the server paints in the format the client   *)
(* decodes, with the encodings it was offered, and owes the first frame    *)
(* (connector.rs:113-133, connection.rs:109-142, 350-402).                 *)
Admitted ==
    run.at \in {"opening", "session"} =>
        /\ server.admits /\ server.speaks = hand.version
        /\ server.at = "messages" /\ toServer = <<>> =>
              /\ server.format = hand.format
              /\ server.encodings = Encodings /\ server.asked

(* The two of them: the handshake ends as both sides mean it.              *)
ShakenHands == InStep /\ Admitted

(* With --reconnect a quit is heard in the end, whenever it was typed,     *)
(* once the other end has failed us for the last time, unless a server     *)
(* falls silent in the handshake (the loop of session.rs:148-188, which    *)
(* reads no key between two sessions).                                     *)
QuitHeard ==
    run.quits ~> \/ run.at = "exited"
                 \/ run.at = "handshake" /\ server.at = "asleep"

(* What the code does not keep, see the README.  A refused connection is   *)
(* reported as such (connector.rs:76-81).                                  *)
RefusalRead == ClientInStep

(* A quit needs nothing of the other end.                                  *)
QuitAlone == run.quits ~> (run.at = "exited")

(* Only the user, or a loss without --reconnect, ends what was begun: it   *)
(* asks again for a password a server has come to want (cli.rs:73-75).     *)
ComesBack ==
    (run.at = "pause") ~> \/ run.at \in {"session", "exited"}
                          \/ run.at = "handshake" /\ server.at = "asleep"
=============================================================================
