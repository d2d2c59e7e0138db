------------------------------- MODULE RunProofs ------------------------------
(***************************************************************************)
(* What main and run do, towards the server and towards the terminal.      *)
(*                                                                         *)
(* For any versions, offers, formats, passwords and options, and any       *)
(* number of failures: neither side of the handshake ever finds on the     *)
(* stream what it is not about to read, and a session is one the server    *)
(* granted, in the version, the format and the encodings both of them mean.*)
(*                                                                         *)
(* The argument is what is on its way, in both directions, for every place *)
(* the server can be at; and, for a server that is gone or silent, for     *)
(* every read of the client, which goes on with what had been said.        *)
(***************************************************************************)
EXTENDS Connect, Stdout, SequenceTheorems, TLAPS

Kinds == {"nothing", "version", "type", "types", "challenge", "result",
          "reason", "init", "messages"}

(* What has a type; the offers, the format and the encodings a server keeps*)
(* are left open.                                                          *)
IsRun(r) ==
    r \in [at : {"dial", "handshake", "prompt", "pause", "opening", "session", "exited"},
           full : BOOLEAN, password : Passwords \cup {NoPassword}, prompted : BOOLEAN,
           backoff : Nat, options : Options, wants : Wanted, quits : BOOLEAN,
           keeps : BOOLEAN]
IsHand(h) ==
    h \in [reads : Kinds, version : {33, 37, 38}, auth : BOOLEAN,
           format : Formats \cup {Unset}]
IsServer(s) ==
    s \in [at : {"away", "greet", "version", "type", "response", "shared",
                 "messages", "gone", "asleep"},
           says : {s.says}, speaks : {33, 37, 38}, offer : {s.offer},
           refuses : BOOLEAN, denies : BOOLEAN, admits : BOOLEAN,
           format : Formats \cup {Unset}, encodings : {s.encodings}, asked : BOOLEAN]

TypeOK ==
    /\ IsRun(run) /\ IsHand(hand) /\ IsServer(server)
    /\ faults \in 0 .. MaxFaults

-----------------------------------------------------------------------------
(* The unit that lists the types, by version.                              *)
ListKind(v) == IF v = 33 THEN "type" ELSE "types"

(* What a client that reads something may still come to read: that, and    *)
(* what follows it without an answer.                                      *)
Road ==
    CASE hand.reads = "version" ->
            toClient = <<>> \/ \E x \in {server.says} : toClient = <<Unit("version", x)>>
      [] hand.reads \in {"type", "types"} ->
            \/ toClient = <<>>
            \/ toClient = <<Unit(hand.reads, {}), Unit("reason", 0)>>
            \/ \E T \in {server.offer} : toClient = <<Unit(hand.reads, T)>>
            \/ \E t \in server.offer : toClient = <<Unit(hand.reads, {t})>>
            \/ toClient = <<Unit(hand.reads, {"vnc"}), Unit("challenge", 0)>>
      [] hand.reads = "challenge" -> toClient \in {<<>>, <<Unit("challenge", 0)>>}
      [] hand.reads = "result" ->
            \/ toClient \in {<<>>, <<Unit("result", TRUE)>>}
            \/ /\ toClient \in {<<Unit("result", FALSE)>>,
                                <<Unit("result", FALSE), Unit("reason", 0)>>}
               /\ hand.auth \/ server.denies
      [] hand.reads = "reason" -> toClient \in {<<>>, <<Unit("reason", 0)>>}
      [] hand.reads = "init" ->
            \/ toClient = <<>>
            \/ toClient = <<Unit("reason", 0)>> /\ server.denies
            \/ /\ \E f \in Formats \cup {Unset} : toClient = <<Unit("init", f)>>
               /\ server.admits /\ server.speaks = hand.version
      [] OTHER -> FALSE

(* Nothing is under way yet, or everything has been hung up.               *)
Idle ==
    run.at \notin {"handshake", "opening", "session"} =>
        server.at = "away" /\ toServer = <<>> /\ toClient = <<>>

Granted ==
    run.at \in {"opening", "session"} => server.admits /\ server.speaks = hand.version

(* What opens a session, as far as the server has come with it.            *)
Told ==
    \/ /\ toServer = <<Unit("format", hand.format), Unit("encodings", Encodings),
                       Unit("request", "whole")>>
    \/ /\ toServer = <<Unit("encodings", Encodings), Unit("request", "whole")>>
       /\ server.format = hand.format
    \/ /\ toServer = <<Unit("request", "whole")>>
       /\ server.format = hand.format /\ server.encodings = Encodings
    \/ /\ toServer = <<>>
       /\ server.format = hand.format /\ server.encodings = Encodings /\ server.asked

(* The client reads one thing, and these units are all that is on its way. *)
Awaits(kind, units) == hand.reads = kind /\ toServer = units /\ toClient = <<>>
Finds(kind, units) == hand.reads = kind /\ toClient = units /\ toServer = <<>>

(* Where the two are with each other, by where the server is.              *)
AtVersion ==
    \/ Finds("version", <<Unit("version", server.says)>>)
    \/ Awaits(ListKind(hand.version), <<Unit("version", hand.version)>>)
AtType ==
    /\ hand.version # 33
    /\ \/ Finds("types", <<Unit("types", server.offer)>>)
       \/ Finds("reason", <<>>)
       \/ hand.version = 38 /\ Awaits("result", <<Unit("type", "none")>>)
       \/ hand.version = 37
            /\ Awaits("init", <<Unit("type", "none"), Unit("shared", TRUE)>>)
       \/ Awaits("challenge", <<Unit("type", "vnc")>>)
AtResponse ==
    \/ hand.version = 33
         /\ Finds("type", <<Unit("type", {"vnc"}), Unit("challenge", 0)>>)
    \/ Finds("challenge", <<Unit("challenge", 0)>>)
    \/ hand.auth /\ Awaits("result", <<Unit("response", run.password)>>)
AtShared ==
    \/ /\ hand.version = 33
       /\ \E t \in server.offer \ {"vnc"} :
            Finds("type", <<Unit("type", {t})>>) /\ (server.admits <=> t = "none")
    \/ server.admits /\ Finds("result", <<Unit("result", TRUE)>>)
    \/ server.admits /\ Awaits("init", <<Unit("shared", TRUE)>>)
AtMessages ==
    /\ server.admits
    /\ \/ run.at = "handshake" /\ Finds("init", <<Unit("init", server.format)>>)
       \/ run.at \in {"opening", "session"} /\ toClient = <<>> /\ Told

Meeting ==
    /\ server.at \in {"greet", "version", "type", "response", "shared"} =>
          run.at = "handshake"
    /\ server.at = "greet" => Finds("version", <<>>)
    /\ server.at = "version" => AtVersion
    /\ server.at \in {"type", "response", "shared", "messages"} =>
          server.speaks = hand.version
    /\ server.at = "type" => AtType
    /\ server.at = "response" => AtResponse
    /\ server.at = "shared" => AtShared
    /\ server.at = "messages" => AtMessages

CInv ==
    /\ TypeOK /\ Idle /\ Granted /\ Meeting
    /\ run.at = "handshake" => Road
-----------------------------------------------------------------------------
LEMMA Units ==
    \A k, a : Unit(k, a).kind = k /\ Unit(k, a).arg = a
  BY DEF Unit

LEMMA One ==
    ASSUME NEW a
    PROVE  <<a>> # <<>> /\ Head(<<a>>) = a /\ Tail(<<a>>) = <<>>
           /\ <<>> \o <<a>> = <<a>>
  OBVIOUS

LEMMA Two ==
    ASSUME NEW a, NEW b
    PROVE  <<a, b>> # <<>> /\ Head(<<a, b>>) = a /\ Tail(<<a, b>>) = <<b>>
           /\ <<>> \o <<a, b>> = <<a, b>> /\ <<a>> \o <<b>> = <<a, b>>
  <1> DEFINE S == {a, b}
             s == <<a, b>>
             p == <<a>>
             r == <<b>>
             q == Tail(s)
             t == p \o r
  <1>1. s \in Seq(S) /\ r \in Seq(S) /\ p \in Seq(S)
        /\ Len(s) = 2 /\ Len(r) = 1 /\ Len(p) = 1
        /\ s[1] = a /\ s[2] = b /\ r[1] = b /\ p[1] = a
    OBVIOUS
  <1>2. s # <<>> /\ Head(s) = a
    OBVIOUS
  <1> HIDE DEF S, s, p, r
  <1>3. q = r
    <2>1. /\ q \in Seq(S) /\ Len(q) = 1
          /\ \A i \in 1 .. Len(q) : q[i] = s[i + 1]
      BY <1>1, <1>2, HeadTailProperties
    <2> HIDE DEF q
    <2>2. q[1] = s[1 + 1]
      BY <2>1
    <2>3. \A i \in 1 .. Len(q) : i = 1
      BY <2>1
    <2>4. QED
      BY <1>1, <2>1, <2>2, <2>3, SeqEqual
  <1>4. <<>> \o s = s
    BY <1>1, ConcatEmptySeq
  <1>5. t = s
    <2>1. /\ t \in Seq(S) /\ Len(t) = Len(p) + Len(r)
          /\ \A i \in 1 .. Len(p) + Len(r) :
                t[i] = IF i <= Len(p) THEN p[i] ELSE r[i - Len(p)]
      BY <1>1, ConcatProperties
    <2> HIDE DEF t
    <2>2. t[1] = p[1] /\ t[2] = r[2 - 1] /\ Len(t) = 2
      BY <1>1, <2>1
    <2>3. \A i \in 1 .. Len(t) : i = 1 \/ i = 2
      BY <2>2
    <2>4. QED
      BY <1>1, <2>1, <2>2, <2>3, SeqEqual
  <1>6. QED
    BY <1>2, <1>3, <1>4, <1>5 DEF p, r, s

LEMMA Three ==
    ASSUME NEW a, NEW b, NEW c
    PROVE  <<a, b, c>> # <<>> /\ Head(<<a, b, c>>) = a /\ Tail(<<a, b, c>>) = <<b, c>>
           /\ <<>> \o <<a, b, c>> = <<a, b, c>> /\ <<a>> \o <<b, c>> = <<a, b, c>>
  <1> DEFINE S == {a, b, c}
             s == <<a, b, c>>
             p == <<a>>
             r == <<b, c>>
             q == Tail(s)
             t == p \o r
  <1>1. s \in Seq(S) /\ r \in Seq(S) /\ p \in Seq(S)
        /\ Len(s) = 3 /\ Len(r) = 2 /\ Len(p) = 1
        /\ s[1] = a /\ s[2] = b /\ s[3] = c /\ r[1] = b /\ r[2] = c /\ p[1] = a
    OBVIOUS
  <1>2. s # <<>> /\ Head(s) = a
    OBVIOUS
  <1> HIDE DEF S, s, p, r
  <1>3. q = r
    <2>1. /\ q \in Seq(S) /\ Len(q) = 2
          /\ \A i \in 1 .. Len(q) : q[i] = s[i + 1]
      BY <1>1, <1>2, HeadTailProperties
    <2> HIDE DEF q
    <2>2. q[1] = s[1 + 1] /\ q[2] = s[2 + 1]
      BY <2>1
    <2>3. \A i \in 1 .. Len(q) : i = 1 \/ i = 2
      BY <2>1
    <2>4. QED
      BY <1>1, <2>1, <2>2, <2>3, SeqEqual
  <1>4. <<>> \o s = s
    BY <1>1, ConcatEmptySeq
  <1>5. t = s
    <2>1. /\ t \in Seq(S) /\ Len(t) = Len(p) + Len(r)
          /\ \A i \in 1 .. Len(p) + Len(r) :
                t[i] = IF i <= Len(p) THEN p[i] ELSE r[i - Len(p)]
      BY <1>1, ConcatProperties
    <2> HIDE DEF t
    <2>2. t[1] = p[1] /\ t[2] = r[2 - 1] /\ t[3] = r[3 - 1] /\ Len(t) = 3
      BY <1>1, <2>1
    <2>3. \A i \in 1 .. Len(t) : i = 1 \/ i = 2 \/ i = 3
      BY <2>2
    <2>4. QED
      BY <1>1, <2>1, <2>2, <2>3, SeqEqual
  <1>6. QED
    BY <1>2, <1>3, <1>4, <1>5 DEF p, r, s

-----------------------------------------------------------------------------
(* Hanging up, and where the loop goes from there.                         *)
LEMMA Falling ==
    ASSUME TypeOK, NEW b
    PROVE  /\ IsRun(Failed(b)) /\ Failed(b).at \in {"pause", "prompt", "exited"}
           /\ IsRun(Pause) /\ Pause.at = "pause"
           /\ IsRun(Exit) /\ Exit.at = "exited"
           /\ IsHand(Unconnected) /\ IsServer(Away) /\ Away.at = "away"
  <1>1. IsRun(Pause) /\ Pause.at = "pause"
    <2> DEFINE twice == IF 2 * run.backoff < Longest THEN 2 * run.backoff ELSE Longest
    <2>1. twice \in Nat
      BY ConnectConstants DEF TypeOK, IsRun
    <2>2. Pause = [run EXCEPT !.at = "pause", !.backoff = twice]
      BY DEF Pause
    <2> HIDE DEF twice
    <2>3. QED
      BY <2>1, <2>2 DEF TypeOK, IsRun
  <1>2. IsRun(Exit) /\ Exit.at = "exited"
    BY DEF TypeOK, IsRun, Exit
  <1>3. IsRun(Failed(b)) /\ Failed(b).at \in {"pause", "prompt", "exited"}
    <2>1. CASE Failed(b) = Pause \/ Failed(b) = Exit
      BY <1>1, <1>2, <2>1
    <2>2. CASE Failed(b) = [run EXCEPT !.at = "prompt"]
      BY <2>2 DEF TypeOK, IsRun
    <2>3. Failed(b) = Pause \/ Failed(b) = Exit \/ Failed(b) = [run EXCEPT !.at = "prompt"]
      BY DEF Failed
    <2>4. QED
      BY <2>1, <2>2, <2>3
  <1>4. IsHand(Unconnected)
    BY ConnectConstants DEF TypeOK, IsRun, IsHand, Unconnected, Kinds
  <1>5. IsServer(Away) /\ Away.at = "away"
    BY DEF IsServer, Away
  <1>6. QED
    BY <1>1, <1>2, <1>3, <1>4, <1>5

LEMMA HungUp ==
    ASSUME TypeOK, HangUp, IsRun(run'), run'.at \in {"pause", "prompt", "exited"},
           faults' \in 0 .. MaxFaults
    PROVE  CInv'
  <1>1. TypeOK'
    BY Falling DEF HangUp, TypeOK
  <1>2. server'.at = "away" /\ toServer' = <<>> /\ toClient' = <<>>
    BY Falling DEF HangUp
  <1>3. (Idle /\ Granted /\ Meeting /\ (run.at = "handshake" => Road))'
    BY <1>2 DEF Idle, Granted, Meeting
  <1>4. QED
    BY <1>1, <1>3 DEF CInv

LEMMA LoopSteps ==
    ASSUME CInv, \/ BeginFails \/ Quit \/ Lost \/ ReadTypesFails \/ ReadResultFails
                 \/ ReadReason \/ ReadFails
    PROVE  CInv'
  <1>1. \/ BeginFails \/ Quit \/ Lost
        \/ Stop(FALSE) \/ Stop(TRUE)
    BY DEF ReadTypesFails, ReadResultFails, ReadReason, ReadFails
  <1>2. TypeOK /\ HangUp
    BY <1>1 DEF CInv, BeginFails, Quit, Lost, Stop, HangUp
  <1>3. \/ run' = Pause \/ run' = Exit
        \/ run' = Failed(FALSE) \/ run' = Failed(TRUE)
    BY <1>1 DEF BeginFails, Quit, Lost, Stop
  <1>4. IsRun(run') /\ run'.at \in {"pause", "prompt", "exited"}
    BY <1>2, <1>3, Falling
  <1>5. faults' \in 0 .. MaxFaults
    <2>1. \/ faults' = faults
          \/ faults < MaxFaults /\ faults' = faults + 1
      BY <1>1 DEF BeginFails, Quit, Lost, Stop
    <2>2. faults \in 0 .. MaxFaults /\ MaxFaults \in Nat
      BY <1>2, ConnectConstants DEF TypeOK
    <2>3. QED
      BY <2>1, <2>2
  <1>6. QED
    BY <1>2, <1>4, <1>5, HungUp

(* The loop on its way to a connection, and the first steps of a session.  *)
LEMMA IdleSteps ==
    ASSUME CInv, DialFails \/ Prompted \/ Paused
    PROVE  CInv'
  <1>1. /\ TypeOK /\ server.at = "away" /\ toServer = <<>> /\ toClient = <<>>
        /\ UNCHANGED <<hand, toServer, toClient, server>>
    BY DEF CInv, Idle, DialFails, Prompted, Paused, socket
  <1>2. IsRun(run') /\ run'.at \in {"dial", "pause", "prompt", "exited"}
    <2>1. CASE DialFails
      BY <1>1, <2>1, Falling DEF DialFails
    <2>2. CASE Prompted
      BY <1>1, <2>2 DEF Prompted, TypeOK, IsRun, Exit
    <2>3. CASE Paused
      BY <1>1, <2>3 DEF Paused, TypeOK, IsRun
    <2>4. QED
      BY <2>1, <2>2, <2>3
  <1>3. faults' \in 0 .. MaxFaults
    <2>1. \/ faults' = faults
          \/ faults < MaxFaults /\ faults' = faults + 1
      BY DEF DialFails, Prompted, Paused
    <2>2. faults \in 0 .. MaxFaults /\ MaxFaults \in Nat
      BY <1>1, ConnectConstants DEF TypeOK
    <2>3. QED
      BY <2>1, <2>2
  <1>4. TypeOK'
    BY <1>1, <1>2, <1>3 DEF TypeOK
  <1>5. (Idle /\ Granted /\ Meeting /\ (run.at = "handshake" => Road))'
    BY <1>1, <1>2 DEF Idle, Granted, Meeting
  <1>6. QED
    BY <1>4, <1>5 DEF CInv

LEMMA Dialling == ASSUME CInv, Dial PROVE CInv'
  <1>1. TypeOK /\ toServer = <<>> /\ toClient = <<>> /\ run.at = "dial"
    BY DEF CInv, Idle, Dial
  <1>2. PICK v \in Versions, offer \in Offers, refuses \in BOOLEAN,
             denies \in BOOLEAN, f \in Formats :
            server' = [Away EXCEPT !.at = "greet", !.says = v, !.offer = offer,
                                   !.refuses = refuses, !.denies = denies, !.format = f]
    BY ZenonT(30) DEF Dial
  <1>3. IsServer(server') /\ server'.at = "greet"
    <2>1. server' = [at |-> "greet", says |-> v, speaks |-> 38, offer |-> offer,
                     refuses |-> refuses, denies |-> denies, admits |-> FALSE,
                     format |-> f, encodings |-> {}, asked |-> FALSE]
      BY <1>2 DEF Away
    <2>2. QED
      BY <2>1 DEF IsServer
  <1>4. IsHand(hand') /\ hand'.reads = "version"
    <2>1. hand' = [Unconnected EXCEPT !.reads = "version"]
      BY DEF Dial
    <2>2. IsHand(Unconnected)
      BY <1>1, Falling
    <2>3. QED
      BY <2>1, <2>2 DEF IsHand, Kinds
  <1>5. IsRun(run') /\ run'.at = "handshake"
    BY <1>1 DEF Dial, TypeOK, IsRun
  <1>6. faults' \in 0 .. MaxFaults
    <2>1. \/ faults' = faults
          \/ faults < MaxFaults /\ faults' = faults + 1
      BY DEF Dial
    <2>2. faults \in 0 .. MaxFaults /\ MaxFaults \in Nat
      BY <1>1, ConnectConstants DEF TypeOK
    <2>3. QED
      BY <2>1, <2>2
  <1>7. toServer' = <<>> /\ toClient' = <<>>
    BY <1>1 DEF Dial, socket
  <1>8. (Meeting /\ Idle /\ Granted)'
    BY <1>3, <1>4, <1>5, <1>7 DEF Meeting, Finds, Idle, Granted
  <1>9. Road'
    BY <1>4, <1>7 DEF Road
  <1>10. TypeOK'
    BY <1>3, <1>4, <1>5, <1>6 DEF TypeOK
  <1>11. QED
    BY <1>8, <1>9, <1>10 DEF CInv

LEMMA Onwards == ASSUME CInv, Begin \/ TypeQuit PROVE CInv'
  <1>1. /\ TypeOK
        /\ UNCHANGED <<hand, toServer, toClient, server, faults>>
        /\ run'.options = run.options /\ run'.password = run.password
        /\ IsRun(run')
        /\ \/ run'.at = run.at
           \/ run.at = "opening" /\ run'.at = "session"
    <2>1. TypeOK /\ IsRun(run) /\ First \in Nat
      BY ConnectConstants DEF CInv, TypeOK
    <2>2. CASE Begin
      BY <2>1, <2>2 DEF IsRun, Begin, socket
    <2>3. CASE TypeQuit
      BY <2>1, <2>3 DEF IsRun, TypeQuit, socket
    <2>4. QED
      BY <2>2, <2>3
  <1>2. TypeOK'
    BY <1>1 DEF TypeOK, IsHand, IsServer
  <1>3. Idle' /\ Granted'
    BY <1>1 DEF CInv, Idle, Granted
  <1>4. run'.at = "handshake" => Road'
    BY <1>1 DEF CInv, Road
  <1>5. Meeting'
    <2>1. Told' <=> Told
      BY <1>1 DEF Told, Encodings
    <2>2. AtMessages => AtMessages'
      BY <1>1, <2>1 DEF AtMessages, Finds
    <2>3. /\ AtResponse => AtResponse'
          /\ AtShared => AtShared'
          /\ AtVersion => AtVersion'
          /\ AtType => AtType'
      BY <1>1 DEF AtResponse, AtShared, AtVersion, AtType, Finds, Awaits
    <2>4. Finds("version", <<>>) => Finds("version", <<>>)'
      BY <1>1 DEF Finds
    <2>5. QED
      BY <1>1, <2>2, <2>3, <2>4 DEF CInv, Meeting
  <1>6. QED
    BY <1>2, <1>3, <1>4, <1>5 DEF CInv

LEMMA OtherEndFails == ASSUME CInv, GoesAway \/ FallsSilent PROVE CInv'
  <1>1. /\ TypeOK
        /\ UNCHANGED <<run, hand, toServer>>
        /\ toClient' = toClient \/ toClient' = <<>>
        /\ server.at \notin {"away", "gone", "asleep"}
        /\ server' \in {[server EXCEPT !.at = "gone"], [server EXCEPT !.at = "asleep"]}
        /\ faults < MaxFaults /\ faults' = faults + 1
    BY DEF CInv, GoesAway, FallsSilent, socket
  <1>2. /\ IsServer(server') /\ server'.at \in {"gone", "asleep"}
        /\ server'.admits = server.admits /\ server'.speaks = server.speaks
        /\ server'.denies = server.denies /\ server'.offer = server.offer
        /\ server'.says = server.says
    BY <1>1 DEF TypeOK, IsServer
  <1>3. TypeOK'
    <2>1. faults' \in 0 .. MaxFaults
      <3>1. faults \in 0 .. MaxFaults /\ MaxFaults \in Nat
        BY <1>1, ConnectConstants DEF TypeOK
      <3>2. QED
        BY <1>1, <3>1
    <2>2. QED
      BY <1>1, <1>2, <2>1 DEF TypeOK
  <1>4. Idle' /\ Granted' /\ Meeting'
    BY <1>1, <1>2 DEF CInv, Idle, Granted, Meeting
  <1>5. run'.at = "handshake" => Road'
    <2> SUFFICES ASSUME run.at = "handshake" PROVE Road'
      BY <1>1
    <2>1. Road
      BY DEF CInv
    <2>2. CASE toClient' = toClient
      BY <1>1, <1>2, <2>1, <2>2 DEF Road
    <2>3. CASE toClient' = <<>>
      <3>1. hand'.reads \in {"version", "type", "types", "challenge", "result",
                             "reason", "init"}
        BY <1>1, <2>1 DEF Road
      <3>2. QED
        BY <2>3, <3>1 DEF Road
    <2>4. QED
      BY <1>1, <2>2, <2>3
  <1>6. QED
    BY <1>3, <1>4, <1>5 DEF CInv

-----------------------------------------------------------------------------
(* What the client reads, and what it answers.                             *)
LEMMA VersionRead == ASSUME CInv, ReadVersion PROVE CInv'
  <1>1. /\ TypeOK /\ run.at = "handshake" /\ hand.reads = "version"
        /\ toClient = <<Unit("version", server.says)>>
        /\ UNCHANGED <<run, server, faults>>
    BY DEF CInv, ReadVersion, Reads, Road
  <1>2. toClient' = <<>>
    BY <1>1, One DEF ReadVersion, Reads
  <1>3. PICK v : /\ v = Lower(hand.version, Known(Got))
                 /\ hand' = [hand EXCEPT !.version = v,
                                         !.reads = IF v = 33 THEN "type" ELSE "types"]
                 /\ toServer' = toServer \o <<Unit("version", v)>>
    BY DEF ReadVersion, Sends
  <1>4. v \in {33, 37, 38}
    <2>1. Known(Got) \in {33, 37, 38} /\ hand.version \in {33, 37, 38}
      BY <1>1 DEF Known, TypeOK, IsHand
    <2>2. QED
      BY <1>3, <2>1 DEF Lower
  <1>5. /\ IsHand(hand') /\ hand'.version = v /\ hand'.reads = ListKind(v)
        /\ hand'.reads \in {"type", "types"}
    <2>1. ListKind(v) \in Kinds /\ ListKind(v) \in {"type", "types"}
      BY DEF ListKind, Kinds
    <2>2. hand' = [hand EXCEPT !.version = v, !.reads = ListKind(v)]
      BY <1>3 DEF ListKind
    <2>3. QED
      BY <1>1, <1>4, <2>1, <2>2 DEF TypeOK, IsHand
  <1>6. TypeOK' /\ Idle' /\ Granted'
    BY <1>1, <1>5 DEF TypeOK, Idle, Granted
  <1>7. Road'
    BY <1>2, <1>5 DEF Road
  <1>8. /\ server.at \notin {"greet", "type", "response", "shared", "messages"}
        /\ server.at = "version" => toServer = <<>>
    <2>1. hand.reads # ListKind(hand.version)
      BY <1>1 DEF ListKind
    <2>2. QED
      BY <1>1, <2>1, One DEF CInv, Meeting, AtVersion, AtType, AtResponse, AtShared,
         AtMessages, Finds, Awaits
  <1>9. Meeting'
    <2>1. server.at = "version" => AtVersion'
      BY <1>2, <1>3, <1>5, <1>8, One DEF AtVersion, Awaits
    <2>2. QED
      BY <1>1, <1>8, <2>1 DEF Meeting
  <1>10. QED
    BY <1>6, <1>7, <1>9 DEF CInv

(* The first unit is what is read, and the others are left.                *)
LEMMA FirstOfOne ==
    ASSUME NEW k, NEW a, toClient = <<Unit(k, a)>>, toClient' = Tail(toClient)
    PROVE  Got = a /\ toClient' = <<>>
  BY One, Units DEF Got

LEMMA FirstOfTwo ==
    ASSUME NEW k, NEW a, NEW u, toClient = <<Unit(k, a), u>>, toClient' = Tail(toClient)
    PROVE  Got = a /\ toClient' = <<u>>
  BY Two, Units DEF Got

(* What comes after a list, which has at most one unit after it.           *)
LEMMA Listing ==
    ASSUME CInv, Reads("type") \/ Reads("types")
    PROVE  /\ TypeOK /\ run.at = "handshake" /\ hand.reads \in {"type", "types"}
           /\ \/ toClient' = <<>>
              \/ toClient' = <<Unit("reason", 0)>> /\ Got = {}
              \/ toClient' = <<Unit("challenge", 0)>> /\ Got = {"vnc"}
           /\ server.at \notin {"greet", "version", "messages"}
           /\ server.at = "type" =>
                 /\ toServer = <<>> /\ hand.version \in {37, 38}
                 /\ toClient' = <<>>
           /\ server.at = "response" =>
                 /\ toServer = <<>> /\ hand.version = 33 /\ Got = {"vnc"}
                 /\ toClient' = <<Unit("challenge", 0)>>
           /\ server.at = "shared" =>
                 /\ toServer = <<>> /\ hand.version = 33 /\ toClient' = <<>>
                 /\ \E t \in server.offer \ {"vnc"} :
                       Got = {t} /\ (server.admits <=> t = "none")
  <1>1. /\ TypeOK /\ run.at = "handshake" /\ hand.reads \in {"type", "types"}
        /\ Road /\ toClient # <<>> /\ toClient' = Tail(toClient)
    BY DEF CInv, Reads
  <1>2. \/ toClient' = <<>>
        \/ toClient' = <<Unit("reason", 0)>> /\ Got = {}
        \/ toClient' = <<Unit("challenge", 0)>> /\ Got = {"vnc"}
    <2>1. \/ toClient = <<Unit(hand.reads, {}), Unit("reason", 0)>>
          \/ toClient = <<Unit(hand.reads, server.offer)>>
          \/ \E t \in server.offer : toClient = <<Unit(hand.reads, {t})>>
          \/ toClient = <<Unit(hand.reads, {"vnc"}), Unit("challenge", 0)>>
      BY <1>1 DEF Road
    <2>2. QED
      BY <1>1, <2>1, FirstOfOne, FirstOfTwo
  <1>3. server.at \notin {"greet", "version", "messages"}
    BY <1>1 DEF CInv, Meeting, AtVersion, AtMessages, Finds, Awaits
  <1>4. server.at = "type" =>
            /\ toServer = <<>> /\ hand.version \in {37, 38}
            /\ toClient' = <<>>
    <2> SUFFICES ASSUME server.at = "type"
                 PROVE  /\ toServer = <<>> /\ hand.version \in {37, 38}
                        /\ toClient' = <<>>
      OBVIOUS
    <2>1. toServer = <<>> /\ toClient = <<Unit("types", server.offer)>>
      BY <1>1 DEF CInv, Meeting, AtType, Finds, Awaits
    <2>2. toClient' = <<>>
      BY <1>1, <2>1, FirstOfOne
    <2>3. hand.version \in {37, 38}
      BY <1>1 DEF CInv, Meeting, AtType, TypeOK, IsHand
    <2>4. QED
      BY <2>1, <2>2, <2>3
  <1>5. server.at = "response" =>
            /\ toServer = <<>> /\ hand.version = 33 /\ Got = {"vnc"}
            /\ toClient' = <<Unit("challenge", 0)>>
    <2> SUFFICES ASSUME server.at = "response"
                 PROVE  /\ toServer = <<>> /\ hand.version = 33 /\ Got = {"vnc"}
                        /\ toClient' = <<Unit("challenge", 0)>>
      OBVIOUS
    <2>1. /\ toServer = <<>> /\ hand.version = 33
          /\ toClient = <<Unit("type", {"vnc"}), Unit("challenge", 0)>>
      BY <1>1 DEF CInv, Meeting, AtResponse, Finds, Awaits
    <2>2. QED
      BY <1>1, <2>1, FirstOfTwo
  <1>6. server.at = "shared" =>
            /\ toServer = <<>> /\ hand.version = 33 /\ toClient' = <<>>
            /\ \E t \in server.offer \ {"vnc"} :
                  Got = {t} /\ (server.admits <=> t = "none")
    <2> SUFFICES ASSUME server.at = "shared"
                 PROVE  /\ toServer = <<>> /\ hand.version = 33 /\ toClient' = <<>>
                        /\ \E t \in server.offer \ {"vnc"} :
                              Got = {t} /\ (server.admits <=> t = "none")
      OBVIOUS
    <2>1. PICK t \in server.offer \ {"vnc"} :
              /\ toServer = <<>> /\ hand.version = 33
              /\ toClient = <<Unit("type", {t})>> /\ (server.admits <=> t = "none")
      BY <1>1 DEF CInv, Meeting, AtShared, Finds, Awaits
    <2>2. Got = {t} /\ toClient' = <<>>
      BY <1>1, <2>1, FirstOfOne
    <2>3. QED
      BY <2>1, <2>2
  <1>7. QED
    BY <1>1, <1>2, <1>3, <1>4, <1>5, <1>6

(* A read that only moves the client on to its next one.                   *)
LEMMA MovesOn ==
    ASSUME TypeOK, run.at = "handshake", NEW r \in Kinds,
           hand' = [hand EXCEPT !.reads = r], UNCHANGED <<run, server, faults>>
    PROVE  /\ TypeOK' /\ Idle' /\ Granted' /\ hand'.reads = r
           /\ hand'.version = hand.version /\ hand'.auth = hand.auth
  <1>1. /\ IsHand(hand') /\ hand'.reads = r
        /\ hand'.version = hand.version /\ hand'.auth = hand.auth
    BY DEF TypeOK, IsHand
  <1>2. QED
    BY <1>1 DEF TypeOK, Idle, Granted

LEMMA TypesRead == ASSUME CInv, ReadTypes PROVE CInv'
  <1>1. Reads("type") \/ Reads("types")
    BY DEF ReadTypes
  <1>2. /\ TypeOK /\ run.at = "handshake"
        /\ UNCHANGED <<run, server, faults>>
        /\ server.at \notin {"greet", "version", "messages"}
        /\ server.at \in {"type", "response", "shared"} => server.speaks = hand.version
    BY <1>1, Listing DEF CInv, Meeting, ReadTypes
  <1>3. CASE Got = {} /\ hand' = [hand EXCEPT !.reads = "reason"] /\ UNCHANGED toServer
    <2>1. /\ TypeOK' /\ Idle' /\ Granted' /\ hand'.reads = "reason"
          /\ hand'.version = hand.version
      BY <1>2, <1>3, MovesOn DEF Kinds
    <2>2. toClient' \in {<<>>, <<Unit("reason", 0)>>}
      BY <1>1, <1>3, Listing
    <2>3. Road'
      BY <2>1, <2>2 DEF Road
    <2>4. server.at \notin {"response", "shared"}
      BY <1>1, <1>3, Listing
    <2>5. server.at = "type" => AtType'
      BY <1>1, <1>3, <2>1, Listing DEF AtType, Finds
    <2>6. Meeting'
      BY <1>2, <2>1, <2>4, <2>5 DEF Meeting
    <2>7. QED
      BY <2>1, <2>3, <2>6 DEF CInv
  <1>4. CASE /\ "none" \in Got /\ "unknown" \notin Got
             /\ IF Opens(hand.version)
                  THEN /\ Sends(Chosen("none") \o <<Unit("shared", TRUE)>>)
                       /\ hand' = [hand EXCEPT !.reads = "init"]
                  ELSE /\ Sends(Chosen("none"))
                       /\ hand' = [hand EXCEPT !.reads = "result"]
    <2>1. /\ TypeOK' /\ Idle' /\ Granted' /\ hand'.reads \in {"init", "result"}
          /\ hand'.version = hand.version
          /\ hand'.reads = "init" <=> hand.version # 38
      BY <1>2, <1>4, MovesOn DEF Kinds, Opens
    <2>2. toClient' = <<>>
      BY <1>1, <1>4, Listing
    <2>3. Road'
      BY <2>1, <2>2 DEF Road
    <2>4. server.at # "response"
      BY <1>1, <1>4, Listing
    <2>5. server.at = "type" => AtType'
      <3> SUFFICES ASSUME server.at = "type" PROVE AtType'
        OBVIOUS
      <3>1. toServer = <<>> /\ hand.version \in {37, 38}
        BY <1>1, Listing
      <3>2. CASE hand.version = 37
        <4>1. toServer' = toServer \o (Chosen("none") \o <<Unit("shared", TRUE)>>)
          <5>1. Opens(hand.version)
            BY <3>2 DEF Opens
          <5>2. QED
            BY <1>4, <5>1 DEF Sends
        <4>2. toServer' = <<Unit("type", "none"), Unit("shared", TRUE)>>
          <5>1. Chosen("none") = <<Unit("type", "none")>>
            BY <3>2 DEF Chosen
          <5>2. QED
            BY <3>1, <4>1, <5>1, Two
        <4>3. QED
          BY <2>1, <2>2, <3>2, <4>2 DEF AtType, Awaits
      <3>3. CASE hand.version = 38
        <4>1. toServer' = <<>> \o <<Unit("type", "none")>>
          BY <1>4, <3>1, <3>3 DEF Opens, Chosen, Sends
        <4>2. toServer' = <<Unit("type", "none")>>
          BY <4>1, One
        <4>3. QED
          BY <2>1, <2>2, <3>3, <4>2 DEF AtType, Awaits
      <3>4. QED
        BY <3>1, <3>2, <3>3
    <2>6. server.at = "shared" => AtShared'
      <3> SUFFICES ASSUME server.at = "shared" PROVE AtShared'
        OBVIOUS
      <3>1. toServer = <<>> /\ hand.version = 33 /\ server.admits
        BY <1>1, <1>4, Listing
      <3>2. toServer' = toServer \o (Chosen("none") \o <<Unit("shared", TRUE)>>)
        <4>1. Opens(hand.version)
          BY <3>1 DEF Opens
        <4>2. QED
          BY <1>4, <4>1 DEF Sends
      <3>3. toServer' = <<Unit("shared", TRUE)>>
        <4>1. Chosen("none") = <<>>
          BY <3>1 DEF Chosen
        <4>2. QED
          BY <3>1, <3>2, <4>1, One
      <3>4. QED
        BY <1>2, <2>1, <2>2, <3>1, <3>3 DEF AtShared, Awaits
    <2>7. Meeting'
      BY <1>2, <2>1, <2>4, <2>5, <2>6 DEF Meeting
    <2>8. QED
      BY <2>1, <2>3, <2>7 DEF CInv
  <1>5. CASE /\ "vnc" \in Got /\ Got \cap {"none", "unknown"} = {}
             /\ run.password # NoPassword
             /\ Sends(Chosen("vnc"))
             /\ hand' = [hand EXCEPT !.reads = "challenge"]
    <2>1. /\ TypeOK' /\ Idle' /\ Granted' /\ hand'.reads = "challenge"
          /\ hand'.version = hand.version
      BY <1>2, <1>5, MovesOn DEF Kinds
    <2>2. toClient' \in {<<>>, <<Unit("challenge", 0)>>}
      BY <1>1, <1>5, Listing
    <2>3. Road'
      BY <2>1, <2>2 DEF Road
    <2>4. server.at # "shared"
      BY <1>1, <1>5, Listing
    <2>5. server.at = "type" => AtType'
      <3> SUFFICES ASSUME server.at = "type" PROVE AtType'
        OBVIOUS
      <3>1. toServer = <<>> /\ hand.version \in {37, 38} /\ toClient' = <<>>
        BY <1>1, Listing
      <3>2. toServer' = <<>> \o <<Unit("type", "vnc")>>
        BY <1>5, <3>1 DEF Chosen, Sends
      <3>3. toServer' = <<Unit("type", "vnc")>>
        BY <3>2, One
      <3>4. QED
        BY <2>1, <3>1, <3>3 DEF AtType, Awaits
    <2>6. server.at = "response" => AtResponse'
      <3> SUFFICES ASSUME server.at = "response" PROVE AtResponse'
        OBVIOUS
      <3>1. /\ toServer = <<>> /\ hand.version = 33
            /\ toClient' = <<Unit("challenge", 0)>>
        BY <1>1, Listing
      <3>2. toServer' = <<>> \o <<>>
        BY <1>5, <3>1 DEF Chosen, Sends
      <3>3. toServer' = <<>>
        BY <3>2, EmptySeq, ConcatEmptySeq
      <3>4. QED
        BY <2>1, <3>1, <3>3 DEF AtResponse, Finds
    <2>7. Meeting'
      BY <1>2, <2>1, <2>4, <2>5, <2>6 DEF Meeting
    <2>8. QED
      BY <2>1, <2>3, <2>7 DEF CInv
  <1>6. QED
    BY <1>3, <1>4, <1>5 DEF ReadTypes

LEMMA ChallengeRead == ASSUME CInv, ReadChallenge PROVE CInv'
  <1>1. /\ TypeOK /\ run.at = "handshake" /\ hand.reads = "challenge"
        /\ toClient = <<Unit("challenge", 0)>> /\ toClient' = Tail(toClient)
        /\ hand' = [hand EXCEPT !.reads = "result", !.auth = TRUE]
        /\ toServer' = toServer \o <<Unit("response", run.password)>>
        /\ UNCHANGED <<run, server, faults>>
    BY DEF CInv, ReadChallenge, Reads, Road, Sends
  <1>2. toClient' = <<>>
    BY <1>1, FirstOfOne
  <1>3. /\ IsHand(hand') /\ hand'.reads = "result" /\ hand'.auth
        /\ hand'.version = hand.version
    BY <1>1 DEF TypeOK, IsHand, Kinds
  <1>4. TypeOK' /\ Idle' /\ Granted' /\ Road'
    BY <1>1, <1>2, <1>3 DEF TypeOK, Idle, Granted, Road
  <1>5. server.at \notin {"greet", "version", "type", "shared", "messages"}
    BY <1>1, One DEF CInv, Meeting, AtVersion, ListKind, AtType, AtShared, AtMessages,
       Finds, Awaits
  <1>6. server.at = "response" => AtResponse'
    <2> SUFFICES ASSUME server.at = "response" PROVE AtResponse'
      OBVIOUS
    <2>1. toServer = <<>>
      BY <1>1 DEF CInv, Meeting, AtResponse, Finds, Awaits
    <2>2. toServer' = <<Unit("response", run.password)>>
      BY <1>1, <2>1, One
    <2>3. QED
      BY <1>1, <1>2, <1>3, <2>2 DEF AtResponse, Awaits
  <1>7. Meeting'
    BY <1>1, <1>3, <1>5, <1>6 DEF CInv, Meeting
  <1>8. QED
    BY <1>4, <1>7 DEF CInv

LEMMA ResultRead == ASSUME CInv, ReadResult PROVE CInv'
  <1>1. /\ TypeOK /\ run.at = "handshake" /\ hand.reads = "result"
        /\ toClient # <<>> /\ toClient' = Tail(toClient)
        /\ \/ toClient = <<Unit("result", TRUE)>>
           \/ /\ \/ toClient = <<Unit("result", FALSE)>>
                 \/ toClient = <<Unit("result", FALSE), Unit("reason", 0)>>
              /\ hand.auth \/ server.denies
        /\ UNCHANGED <<run, server, faults>>
    BY DEF CInv, ReadResult, Reads, Road
  <1>2. \/ Got = TRUE /\ toClient' = <<>>
        \/ /\ Got = FALSE /\ toClient' \in {<<>>, <<Unit("reason", 0)>>}
           /\ hand.auth \/ server.denies
    BY <1>1, FirstOfOne, FirstOfTwo
  <1>3. server.at \notin {"greet", "version", "type", "response", "messages"}
    BY <1>1 DEF CInv, Meeting, AtVersion, ListKind, AtType, AtResponse, AtMessages,
       Finds, Awaits
  <1>4. server.at = "shared" =>
            server.admits /\ toClient = <<Unit("result", TRUE)>> /\ toServer = <<>>
    BY <1>1, One DEF CInv, Meeting, AtShared, Finds, Awaits
  <1>5. server.at = "shared" => Got = TRUE /\ toClient' = <<>>
    BY <1>1, <1>4, FirstOfOne
  <1>6. CASE /\ ~Rejected(Got)
             /\ toServer' = toServer \o <<Unit("shared", TRUE)>>
             /\ hand' = [hand EXCEPT !.reads = "init"]
    <2>1. /\ TypeOK' /\ Idle' /\ Granted' /\ hand'.reads = "init"
          /\ hand'.version = hand.version
      BY <1>1, <1>6, MovesOn DEF Kinds
    <2>2. \/ toClient' = <<>>
          \/ toClient' = <<Unit("reason", 0)>> /\ server.denies
      BY <1>2, <1>6 DEF Rejected
    <2>3. Road'
      BY <1>1, <2>1, <2>2 DEF Road
    <2>4. server.at = "shared" => AtShared'
      <3> SUFFICES ASSUME server.at = "shared" PROVE AtShared'
        OBVIOUS
      <3>1. toServer' = <<Unit("shared", TRUE)>>
        BY <1>4, <1>6, One
      <3>2. QED
        BY <1>1, <1>4, <1>5, <2>1, <3>1 DEF AtShared, Awaits
    <2>5. Meeting'
      BY <1>1, <1>3, <2>1, <2>4 DEF CInv, Meeting
    <2>6. QED
      BY <2>1, <2>3, <2>5 DEF CInv
  <1>7. CASE Rejected(Got) /\ hand' = [hand EXCEPT !.reads = "reason"]
    <2>1. /\ TypeOK' /\ Idle' /\ Granted' /\ hand'.reads = "reason"
      BY <1>1, <1>7, MovesOn DEF Kinds
    <2>2. toClient' \in {<<>>, <<Unit("reason", 0)>>} /\ server.at # "shared"
      BY <1>2, <1>5, <1>7 DEF Rejected
    <2>3. Road' /\ Meeting'
      BY <1>1, <1>3, <2>1, <2>2 DEF Road, Meeting
    <2>4. QED
      BY <2>1, <2>3 DEF CInv
  <1>8. QED
    BY <1>6, <1>7 DEF ReadResult, Sends

(* What opens a session goes out in one go, on a road that is empty.       *)
LEMMA InitRead == ASSUME CInv, ReadInit PROVE CInv'
  <1>1. PICK f \in Formats \cup {Unset} :
            /\ toClient = <<Unit("init", f)>> /\ toClient' = Tail(toClient)
            /\ server.admits /\ server.speaks = hand.version /\ toClient # <<>>
            /\ TypeOK /\ run.at = "handshake" /\ hand.reads = "init"
    <2>1. /\ toClient # <<>> /\ Head(toClient).kind = "init" /\ Road
          /\ TypeOK /\ run.at = "handshake" /\ hand.reads = "init"
          /\ toClient' = Tail(toClient)
      BY DEF CInv, ReadInit, Reads
    <2>2. toClient # <<Unit("reason", 0)>>
      <3> SUFFICES ASSUME toClient = <<Unit("reason", 0)>> PROVE FALSE
        OBVIOUS
      <3>1. Head(toClient).kind = "reason"
        BY One, Units
      <3>2. QED
        BY <2>1, <3>1
    <2>3. QED
      BY <2>1, <2>2 DEF Road
  <1>2. Got = f /\ toClient' = <<>>
    BY <1>1, FirstOfOne
  <1>3. /\ UNCHANGED <<server, faults>>
        /\ run' = [run EXCEPT !.at = "opening"]
        /\ hand' = [hand EXCEPT !.reads = "messages", !.format = FormatKept(f)]
        /\ toServer' = toServer \o (FormatSent \o
              <<Unit("encodings", Encodings), Unit("request", "whole")>>)
    BY <1>2 DEF ReadInit, Sends
  <1>4. /\ IsRun(run') /\ run'.at = "opening" /\ Encodings' = Encodings
    BY <1>1, <1>3 DEF TypeOK, IsRun, Encodings
  <1>5. /\ IsHand(hand') /\ hand'.reads = "messages"
        /\ hand'.version = hand.version /\ hand'.format = FormatKept(f)
    <2>1. FormatKept(f) \in Formats \cup {Unset}
      BY <1>1 DEF FormatKept, TypeOK, IsHand
    <2>2. QED
      BY <1>1, <1>3, <2>1 DEF TypeOK, IsHand, Kinds
  <1>6. TypeOK' /\ Idle' /\ Granted'
    BY <1>1, <1>3, <1>4, <1>5 DEF TypeOK, Idle, Granted
  <1>7. server.at \notin {"greet", "version", "type", "response", "shared"}
    BY <1>1 DEF CInv, Meeting, AtVersion, ListKind, AtType, AtResponse, AtShared,
       Finds, Awaits
  <1>8. server.at = "messages" => AtMessages'
    <2> SUFFICES ASSUME server.at = "messages" PROVE AtMessages'
      OBVIOUS
    <2>1. toServer = <<>> /\ toClient = <<Unit("init", server.format)>>
      BY <1>1 DEF CInv, Meeting, AtMessages, Finds
    <2>2. f = server.format
      BY <1>1, <1>2, <2>1, FirstOfOne
    <2> DEFINE e == Unit("encodings", Encodings)
               q == Unit("request", "whole")
               m == Unit("format", hand.format)
    <2>3. CASE hand.format = Unset
      <3>1. toServer' = <<>> \o (<<>> \o <<e, q>>)
        BY <1>3, <2>1, <2>3 DEF FormatSent
      <3>2. toServer' = <<e, q>>
        BY <3>1, Two
      <3>3. hand'.format = server.format
        BY <1>5, <2>2, <2>3 DEF FormatKept
      <3>4. Told'
        BY <1>3, <1>4, <3>2, <3>3 DEF Told
      <3>5. QED
        BY <1>1, <1>2, <1>3, <1>4, <3>4 DEF AtMessages
    <2>4. CASE hand.format # Unset
      <3>1. toServer' = <<>> \o (<<m>> \o <<e, q>>)
        BY <1>3, <2>1, <2>4 DEF FormatSent
      <3>2. toServer' = <<m, e, q>>
        BY <3>1, Three
      <3>3. hand'.format = hand.format
        BY <1>5, <2>4 DEF FormatKept
      <3>4. Told'
        BY <1>4, <3>2, <3>3 DEF Told
      <3>5. QED
        BY <1>1, <1>2, <1>3, <1>4, <3>4 DEF AtMessages
    <2>5. QED
      BY <2>3, <2>4
  <1>9. Meeting'
    BY <1>1, <1>3, <1>5, <1>7, <1>8 DEF Meeting
  <1>10. QED
    BY <1>4, <1>6, <1>9 DEF CInv

-----------------------------------------------------------------------------
(* What the server says, on a road that is empty, and hears.               *)
LEMMA Greeted == ASSUME CInv, Greets PROVE CInv'
  <1>1. /\ TypeOK /\ run.at = "handshake" /\ hand.reads = "version"
        /\ toServer = <<>> /\ toClient = <<>>
        /\ toClient' = toClient \o <<Unit("version", server.says)>>
        /\ server' = [server EXCEPT !.at = "version"]
        /\ UNCHANGED <<run, hand, toServer, faults>>
    BY DEF CInv, Meeting, Finds, Greets, Says
  <1>2. /\ IsServer(server') /\ server'.at = "version" /\ server'.says = server.says
    BY <1>1 DEF TypeOK, IsServer
  <1>3. toClient' = <<Unit("version", server.says)>>
    BY <1>1, One
  <1>4. TypeOK' /\ Idle' /\ Granted'
    BY <1>1, <1>2 DEF TypeOK, IsRun, IsHand, Idle, Granted
  <1>5. Road'
    BY <1>1, <1>2, <1>3 DEF Road
  <1>6. Meeting'
    BY <1>1, <1>2, <1>3 DEF Meeting, AtVersion, Finds
  <1>7. QED
    BY <1>4, <1>5, <1>6 DEF CInv

LEMMA TypesOffered == ASSUME CInv, OffersTypes PROVE CInv'
  <1> DEFINE K == ListKind(hand.version)
  <1>1. /\ TypeOK /\ run.at = "handshake" /\ hand.reads = K
        /\ toServer = <<Unit("version", hand.version)>> /\ toClient = <<>>
        /\ toServer' = Tail(toServer)
        /\ UNCHANGED <<run, hand, faults>>
    BY DEF CInv, Meeting, AtVersion, Finds, Awaits, OffersTypes, Hears
  <1>2. Heard = hand.version /\ toServer' = <<>>
    BY <1>1, One, Units DEF Heard
  <1>3. K \in {"type", "types"} /\ hand.version \in {33, 37, 38}
        /\ (K = "type" <=> hand.version = 33)
    BY <1>1 DEF ListKind, TypeOK, IsHand
  <1>4. CASE /\ Says(<<Unit(K, {}), Unit("reason", 0)>>)
             /\ server' = [server EXCEPT !.at = "gone", !.speaks = Heard]
    <2>1. IsServer(server') /\ server'.at = "gone"
      BY <1>1, <1>2, <1>3, <1>4 DEF TypeOK, IsServer
    <2>2. toClient' = <<Unit(K, {}), Unit("reason", 0)>>
      BY <1>1, <1>4, Two DEF Says
    <2>3. TypeOK' /\ Idle' /\ Granted' /\ Meeting'
      BY <1>1, <2>1 DEF TypeOK, IsRun, IsHand, Idle, Granted, Meeting
    <2>4. Road'
      BY <1>1, <1>3, <2>2 DEF Road
    <2>5. QED
      BY <2>3, <2>4 DEF CInv
  <1>5. CASE /\ hand.version # 33
             /\ Says(<<Unit(K, server.offer)>>)
             /\ server' = [server EXCEPT !.at = "type", !.speaks = Heard]
    <2>1. /\ IsServer(server') /\ server'.at = "type" /\ server'.offer = server.offer
          /\ server'.speaks = hand.version
      BY <1>1, <1>2, <1>3, <1>5 DEF TypeOK, IsServer
    <2>2. toClient' = <<Unit(K, server.offer)>>
      BY <1>1, <1>5, One DEF Says
    <2>3. TypeOK' /\ Idle' /\ Granted'
      BY <1>1, <2>1 DEF TypeOK, IsRun, IsHand, Idle, Granted
    <2>4. Road'
      BY <1>1, <1>3, <2>1, <2>2 DEF Road
    <2>5. AtType'
      BY <1>1, <1>2, <1>3, <1>5, <2>1, <2>2 DEF AtType, Finds
    <2>6. Meeting'
      BY <1>1, <2>1, <2>5 DEF Meeting
    <2>7. QED
      BY <2>3, <2>4, <2>6 DEF CInv
  <1>6. CASE \E t \in server.offer :
                /\ hand.version = 33
                /\ Says(<<Unit(K, {t})>> \o
                        (IF t = "vnc" THEN <<Unit("challenge", 0)>> ELSE <<>>))
                /\ server' = [server EXCEPT !.speaks = 33, !.admits = t = "none",
                       !.at = IF t = "vnc" THEN "response" ELSE "shared"]
    <2>1. PICK t \in server.offer :
                /\ hand.version = 33
                /\ Says(<<Unit(K, {t})>> \o
                        (IF t = "vnc" THEN <<Unit("challenge", 0)>> ELSE <<>>))
                /\ server' = [server EXCEPT !.speaks = 33, !.admits = t = "none",
                       !.at = IF t = "vnc" THEN "response" ELSE "shared"]
      BY <1>6
    <2>2. K = "type"
      BY <1>3, <2>1
    <2>3. CASE t = "vnc"
      <3>1. server' = [server EXCEPT !.speaks = 33, !.admits = FALSE, !.at = "response"]
        BY <2>1, <2>3
      <3>2. IsServer(server') /\ server'.at = "response" /\ server'.speaks = 33
        BY <1>1, <3>1 DEF TypeOK, IsServer
      <3>3. toClient' = <<>> \o (<<Unit("type", {"vnc"})>> \o <<Unit("challenge", 0)>>)
        BY <1>1, <2>1, <2>2, <2>3 DEF Says
      <3>4. toClient' = <<Unit("type", {"vnc"}), Unit("challenge", 0)>>
        BY <3>3, Two
      <3>5. TypeOK' /\ Idle' /\ Granted'
        BY <1>1, <3>2 DEF TypeOK, IsRun, IsHand, Idle, Granted
      <3>6. Road'
        BY <1>1, <2>2, <3>4 DEF Road
      <3>7. AtResponse'
        BY <1>1, <1>2, <2>1, <2>2, <3>4 DEF AtResponse, Finds
      <3>8. Meeting'
        BY <1>1, <2>1, <3>2, <3>7 DEF Meeting
      <3>9. QED
        BY <3>5, <3>6, <3>8 DEF CInv
    <2>4. CASE t # "vnc"
      <3>1. server' = [server EXCEPT !.speaks = 33, !.admits = (t = "none"), !.at = "shared"]
        BY <2>1, <2>4
      <3>2. /\ IsServer(server') /\ server'.at = "shared" /\ server'.speaks = 33
            /\ server'.offer = server.offer /\ (server'.admits <=> t = "none")
        <4>1. CASE t = "none"
          <5>1. server' = [server EXCEPT !.speaks = 33, !.admits = TRUE, !.at = "shared"]
            BY <3>1, <4>1
          <5>2. QED
            BY <1>1, <4>1, <5>1 DEF TypeOK, IsServer
        <4>2. CASE t # "none"
          <5>1. server' = [server EXCEPT !.speaks = 33, !.admits = FALSE, !.at = "shared"]
            BY <3>1, <4>2
          <5>2. QED
            BY <1>1, <4>2, <5>1 DEF TypeOK, IsServer
        <4>3. QED
          BY <4>1, <4>2
      <3>3. toClient' = <<>> \o (<<Unit("type", {t})>> \o <<>>)
        BY <1>1, <2>1, <2>2, <2>4 DEF Says
      <3>4. toClient' = <<Unit("type", {t})>>
        <4>1. <<Unit("type", {t})>> \in Seq({Unit("type", {t})})
          OBVIOUS
        <4>2. QED
          BY <3>3, <4>1, One, ConcatEmptySeq
      <3>5. TypeOK' /\ Idle' /\ Granted'
        BY <1>1, <3>2 DEF TypeOK, IsRun, IsHand, Idle, Granted
      <3>6. Road'
        BY <1>1, <2>2, <3>2, <3>4 DEF Road
      <3>7. AtShared'
        BY <1>1, <1>2, <2>1, <2>2, <2>4, <3>2, <3>4 DEF AtShared, Finds
      <3>8. Meeting'
        BY <1>1, <2>1, <3>2, <3>7 DEF Meeting
      <3>9. QED
        BY <3>5, <3>6, <3>8 DEF CInv
    <2>5. QED
      BY <2>3, <2>4
  <1>7. QED
    BY <1>2, <1>4, <1>5, <1>6 DEF OffersTypes, ListKind

(* One unit is all there is on the road to the server.                     *)
LEMMA HeardOne ==
    ASSUME NEW k, NEW a, toServer = <<Unit(k, a)>>, toServer' = Tail(toServer)
    PROVE  Heard = a /\ toServer' = <<>>
  BY One, Units DEF Heard

LEMMA HeardTwo ==
    ASSUME NEW k, NEW a, NEW u, toServer = <<Unit(k, a), u>>, toServer' = Tail(toServer)
    PROVE  Heard = a /\ toServer' = <<u>>
  BY Two, Units DEF Heard

LEMMA HeardThree ==
    ASSUME NEW k, NEW a, NEW u, NEW w, toServer = <<Unit(k, a), u, w>>,
           toServer' = Tail(toServer)
    PROVE  Heard = a /\ toServer' = <<u, w>>
  BY Three, Units DEF Heard

(* Letting in, turning away, and what is said to it.                       *)
LEMMA LetsIn ==
    ASSUME TypeOK
    PROVE  /\ IsServer(Admits) /\ Admits.at = "shared" /\ Admits.admits
           /\ Admits.speaks = server.speaks
           /\ IsServer(TurnsAway) /\ TurnsAway.at = "gone"
           /\ TurnsAway.denies = server.denies
  BY DEF TypeOK, IsServer, Admits, TurnsAway

LEMMA SaysNo ==
    ASSUME toClient = <<>>, Says(<<Unit("result", FALSE)>> \o Reason)
    PROVE  toClient' \in {<<Unit("result", FALSE)>>,
                          <<Unit("result", FALSE), Unit("reason", 0)>>}
  <1> DEFINE n == <<Unit("result", FALSE)>>
  <1>1. CASE Reason = <<Unit("reason", 0)>>
    <2>1. n \o Reason = <<Unit("result", FALSE), Unit("reason", 0)>>
      BY <1>1, Two
    <2>2. QED
      BY <2>1, Two DEF Says
  <1>2. CASE Reason = <<>>
    <2>1. n \in Seq({Unit("result", FALSE)})
      OBVIOUS
    <2>2. n \o Reason = n
      BY <1>2, <2>1, ConcatEmptySeq
    <2>3. QED
      BY <2>2, One DEF Says
  <1>3. QED
    BY <1>1, <1>2 DEF Reason

LEMMA TypeHeard == ASSUME CInv, HearsType PROVE CInv'
  <1>1. /\ TypeOK /\ run.at = "handshake" /\ server.at = "type"
        /\ server.speaks = hand.version /\ hand.version # 33 /\ toClient = <<>>
        /\ toServer' = Tail(toServer)
        /\ \/ /\ hand.version = 38 /\ hand.reads = "result"
              /\ toServer = <<Unit("type", "none")>>
           \/ /\ hand.version = 37 /\ hand.reads = "init"
              /\ toServer = <<Unit("type", "none"), Unit("shared", TRUE)>>
           \/ /\ hand.reads = "challenge"
              /\ toServer = <<Unit("type", "vnc")>>
        /\ UNCHANGED <<run, hand, faults>>
    BY DEF CInv, Meeting, AtType, Finds, Awaits, HearsType, Hears
  <1>2. \/ /\ hand.version = 38 /\ hand.reads = "result"
           /\ Heard = "none" /\ toServer' = <<>>
        \/ /\ hand.version = 37 /\ hand.reads = "init"
           /\ Heard = "none" /\ toServer' = <<Unit("shared", TRUE)>>
        \/ hand.reads = "challenge" /\ Heard = "vnc" /\ toServer' = <<>>
    <2>1. toServer = <<Unit("type", "none")>> => Heard = "none" /\ toServer' = <<>>
      BY <1>1, HeardOne
    <2>2. toServer = <<Unit("type", "vnc")>> => Heard = "vnc" /\ toServer' = <<>>
      BY <1>1, HeardOne
    <2>3. toServer = <<Unit("type", "none"), Unit("shared", TRUE)>> =>
              Heard = "none" /\ toServer' = <<Unit("shared", TRUE)>>
      BY <1>1, HeardTwo
    <2>4. QED
      BY <1>1, <2>1, <2>2, <2>3
  <1>3. CASE Heard = "none" /\ server.speaks # 38 /\ server' = Admits /\ UNCHANGED toClient
    <2>1. /\ hand.version = 37 /\ hand.reads = "init"
          /\ toServer' = <<Unit("shared", TRUE)>> /\ toClient' = <<>>
      BY <1>1, <1>2, <1>3
    <2>2. TypeOK' /\ Idle' /\ Granted'
      BY <1>1, <1>3, LetsIn DEF TypeOK, IsRun, IsHand, Idle, Granted
    <2>3. Road'
      BY <1>1, <2>1 DEF Road
    <2>4. AtShared'
      BY <1>1, <1>3, <2>1, LetsIn DEF AtShared, Awaits
    <2>5. Meeting'
      BY <1>1, <1>3, <2>4, LetsIn DEF Meeting
    <2>6. QED
      BY <2>2, <2>3, <2>5 DEF CInv
  <1>4. CASE /\ Heard = "none" /\ server.speaks = 38
             /\ server' = Admits /\ Says(<<Unit("result", TRUE)>>)
    <2>1. /\ hand.reads = "result" /\ toServer' = <<>>
          /\ toClient' = <<Unit("result", TRUE)>>
      BY <1>1, <1>2, <1>4, One DEF Says
    <2>2. TypeOK' /\ Idle' /\ Granted'
      BY <1>1, <1>4, LetsIn DEF TypeOK, IsRun, IsHand, Idle, Granted
    <2>3. Road'
      BY <1>1, <2>1 DEF Road
    <2>4. AtShared'
      BY <1>1, <1>4, <2>1, LetsIn DEF AtShared, Finds
    <2>5. Meeting'
      BY <1>1, <1>4, <2>4, LetsIn DEF Meeting
    <2>6. QED
      BY <2>2, <2>3, <2>5 DEF CInv
  <1>5. CASE /\ Heard = "none" /\ server.speaks = 38 /\ server.denies
             /\ server' = TurnsAway /\ Says(<<Unit("result", FALSE)>> \o Reason)
    <2>1. /\ hand.reads = "result"
          /\ toClient' \in {<<Unit("result", FALSE)>>,
                             <<Unit("result", FALSE), Unit("reason", 0)>>}
      <3>1. hand.reads = "result"
        BY <1>1, <1>2, <1>5
      <3>2. toClient = <<>> /\ Says(<<Unit("result", FALSE)>> \o Reason)
        BY <1>1, <1>5
      <3>3. QED
        BY <3>1, <3>2, SaysNo
    <2>2. TypeOK' /\ Idle' /\ Granted' /\ Meeting'
      <3>1. IsServer(server') /\ server'.at = "gone"
        BY <1>1, <1>5, LetsIn
      <3>2. TypeOK'
        BY <1>1, <3>1 DEF TypeOK, IsRun, IsHand
      <3>3. QED
        BY <1>1, <3>1, <3>2 DEF Idle, Granted, Meeting
    <2>3. Road'
      BY <1>1, <1>5, <2>1, LetsIn DEF Road
    <2>4. QED
      BY <2>2, <2>3 DEF CInv
  <1>6. CASE /\ Heard = "vnc" /\ server' = [server EXCEPT !.at = "response"]
             /\ Says(<<Unit("challenge", 0)>>)
    <2>1. /\ hand.reads = "challenge" /\ toServer' = <<>>
          /\ toClient' = <<Unit("challenge", 0)>>
      BY <1>1, <1>2, <1>6, One DEF Says
    <2>2. /\ IsServer(server') /\ server'.at = "response"
          /\ server'.speaks = server.speaks
      BY <1>1, <1>6 DEF TypeOK, IsServer
    <2>3. TypeOK' /\ Idle' /\ Granted'
      BY <1>1, <2>2 DEF TypeOK, IsRun, IsHand, Idle, Granted
    <2>4. Road'
      BY <1>1, <2>1 DEF Road
    <2>5. AtResponse'
      BY <1>1, <2>1 DEF AtResponse, Finds
    <2>6. Meeting'
      BY <1>1, <2>2, <2>5 DEF Meeting
    <2>7. QED
      BY <2>3, <2>4, <2>6 DEF CInv
  <1>7. QED
    BY <1>3, <1>4, <1>5, <1>6 DEF HearsType

LEMMA ResponseHeard == ASSUME CInv, HearsResponse PROVE CInv'
  <1>1. /\ TypeOK /\ run.at = "handshake" /\ server.at = "response"
        /\ server.speaks = hand.version /\ toClient = <<>>
        /\ hand.auth /\ hand.reads = "result"
        /\ toServer = <<Unit("response", run.password)>>
        /\ toServer' = Tail(toServer)
        /\ UNCHANGED <<run, hand, faults>>
    BY DEF CInv, Meeting, AtResponse, Finds, Awaits, HearsResponse, Hears
  <1>2. toServer' = <<>>
    BY <1>1, HeardOne
  <1>3. CASE server' = Admits /\ Says(<<Unit("result", TRUE)>>)
    <2>1. toClient' = <<Unit("result", TRUE)>>
      BY <1>1, <1>3, One DEF Says
    <2>2. TypeOK' /\ Idle' /\ Granted'
      BY <1>1, <1>3, LetsIn DEF TypeOK, IsRun, IsHand, Idle, Granted
    <2>3. Road'
      BY <1>1, <2>1 DEF Road
    <2>4. AtShared'
      BY <1>1, <1>2, <1>3, <2>1, LetsIn DEF AtShared, Finds
    <2>5. Meeting'
      BY <1>1, <1>3, <2>4, LetsIn DEF Meeting
    <2>6. QED
      BY <2>2, <2>3, <2>5 DEF CInv
  <1>4. CASE server' = TurnsAway /\ Says(<<Unit("result", FALSE)>> \o Reason)
    <2>1. toClient' \in {<<Unit("result", FALSE)>>,
                         <<Unit("result", FALSE), Unit("reason", 0)>>}
      BY <1>1, <1>4, SaysNo
    <2>2. TypeOK' /\ Idle' /\ Granted' /\ Meeting'
      BY <1>1, <1>4, LetsIn DEF TypeOK, IsRun, IsHand, Idle, Granted, Meeting
    <2>3. Road'
      BY <1>1, <1>4, <2>1, LetsIn DEF Road
    <2>4. QED
      BY <2>2, <2>3 DEF CInv
  <1>5. QED
    BY <1>3, <1>4 DEF HearsResponse

LEMMA SharedHeard == ASSUME CInv, HearsShared PROVE CInv'
  <1>1. /\ TypeOK /\ run.at = "handshake" /\ server.at = "shared"
        /\ server.speaks = hand.version /\ server.admits /\ toClient = <<>>
        /\ hand.reads = "init" /\ toServer = <<Unit("shared", TRUE)>>
        /\ toServer' = Tail(toServer)
        /\ toClient' = toClient \o <<Unit("init", server.format)>>
        /\ server' = [server EXCEPT !.at = "messages"]
        /\ UNCHANGED <<run, hand, faults>>
    BY DEF CInv, Meeting, AtShared, Finds, Awaits, HearsShared, Hears, Says
  <1>2. toServer' = <<>> /\ toClient' = <<Unit("init", server.format)>>
    BY <1>1, HeardOne, One
  <1>3. /\ IsServer(server') /\ server'.at = "messages" /\ server'.admits
        /\ server'.speaks = hand.version /\ server'.format = server.format
        /\ server.format \in Formats \cup {Unset}
    BY <1>1 DEF TypeOK, IsServer
  <1>4. TypeOK' /\ Idle' /\ Granted'
    BY <1>1, <1>3 DEF TypeOK, IsRun, IsHand, Idle, Granted
  <1>5. Road'
    BY <1>1, <1>2, <1>3 DEF Road
  <1>6. Meeting'
    BY <1>1, <1>2, <1>3 DEF Meeting, AtMessages, Finds
  <1>7. QED
    BY <1>4, <1>5, <1>6 DEF CInv

LEMMA MessageHeard == ASSUME CInv, HearsMessage PROVE CInv'
  <1>1. /\ TypeOK /\ run.at \in {"opening", "session"} /\ server.at = "messages"
        /\ server.speaks = hand.version /\ server.admits /\ toClient = <<>> /\ Told
        /\ toServer # <<>> /\ toServer' = Tail(toServer)
        /\ UNCHANGED <<run, hand, toClient, faults>>
    BY DEF CInv, Meeting, AtMessages, Finds, HearsMessage, Hears
  <1> DEFINE e == Unit("encodings", Encodings)
             q == Unit("request", "whole")
             m == Unit("format", hand.format)
  <1>2. Encodings' = Encodings /\ hand.format \in Formats \cup {Unset}
    BY <1>1 DEF Encodings, TypeOK, IsHand
  <1>3. /\ IsServer(server') /\ server'.at = "messages" /\ server'.admits
        /\ server'.speaks = hand.version /\ Told'
    <2>1. CASE toServer = <<m, e, q>>
      <3>1. Heard = hand.format /\ toServer' = <<e, q>> /\ Head(toServer).kind = "format"
        BY <1>1, <2>1, HeardThree, Three, Units
      <3>2. server' = [server EXCEPT !.format = hand.format]
        BY <3>1 DEF HearsMessage, Hears
      <3>3. QED
        BY <1>1, <1>2, <3>1, <3>2 DEF Told, TypeOK, IsServer
    <2>2. CASE toServer = <<e, q>> /\ server.format = hand.format
      <3>1. Heard = Encodings /\ toServer' = <<q>> /\ Head(toServer).kind = "encodings"
        BY <1>1, <2>2, HeardTwo, Two, Units
      <3>2. server' = [server EXCEPT !.encodings = Encodings]
        BY <3>1 DEF HearsMessage, Hears
      <3>3. QED
        BY <1>1, <1>2, <2>2, <3>1, <3>2 DEF Told, TypeOK, IsServer
    <2>3. CASE toServer = <<q>> /\ server.format = hand.format /\ server.encodings = Encodings
      <3>1. toServer' = <<>> /\ Head(toServer).kind = "request"
        BY <1>1, <2>3, HeardOne, One, Units
      <3>2. server' = [server EXCEPT !.asked = TRUE]
        BY <3>1 DEF HearsMessage, Hears
      <3>3. QED
        BY <1>1, <1>2, <2>3, <3>1, <3>2 DEF Told, TypeOK, IsServer
    <2>4. QED
      BY <1>1, <2>1, <2>2, <2>3 DEF Told
  <1>4. TypeOK' /\ Idle' /\ Granted'
    BY <1>1, <1>3 DEF TypeOK, IsRun, IsHand, Idle, Granted
  <1>5. Meeting'
    BY <1>1, <1>3 DEF Meeting, AtMessages
  <1>6. run'.at # "handshake"
    BY <1>1
  <1>7. QED
    BY <1>4, <1>5, <1>6 DEF CInv

-----------------------------------------------------------------------------
LEMMA InitCInv == Init => CInv
  <1> SUFFICES ASSUME Init PROVE CInv
    OBVIOUS
  <1>1. PICK opts \in Options, given \in Passwords \cup {NoPassword},
             wants \in Wanted, keeps \in Keeps :
        run = [at |-> "dial", full |-> FALSE, password |-> given, prompted |-> FALSE,
               backoff |-> First, options |-> opts, wants |-> wants, quits |-> FALSE,
               keeps |-> keeps]
    BY DEF Init
  <1>2. IsRun(run) /\ run.at = "dial"
    BY <1>1, ConnectConstants DEF IsRun
  <1>3. IsHand(hand)
    BY <1>2, ConnectConstants DEF Init, IsRun, IsHand, Unconnected, Kinds
  <1>4. IsServer(server) /\ server.at = "away"
    BY DEF Init, IsServer, Away
  <1>5. TypeOK
    BY <1>2, <1>3, <1>4, ConnectConstants DEF Init, TypeOK
  <1>6. QED
    BY <1>2, <1>4, <1>5 DEF Init, CInv, Idle, Granted, Meeting

LEMMA NextCInv == CInv /\ [Next]_vars => CInv'
  <1> SUFFICES ASSUME CInv, [Next]_vars PROVE CInv'
    OBVIOUS
  <1>1. CASE \/ BeginFails \/ Quit \/ Lost \/ ReadTypesFails \/ ReadResultFails
             \/ ReadReason \/ ReadFails
    BY <1>1, LoopSteps
  <1>2. CASE DialFails \/ Prompted \/ Paused
    BY <1>2, IdleSteps
  <1>3. CASE Dial
    BY <1>3, Dialling
  <1>4. CASE Begin \/ TypeQuit
    BY <1>4, Onwards
  <1>5. CASE GoesAway \/ FallsSilent
    BY <1>5, OtherEndFails
  <1>6. CASE ReadVersion \/ ReadTypes \/ ReadChallenge \/ ReadResult \/ ReadInit
    BY <1>6, VersionRead, TypesRead, ChallengeRead, ResultRead, InitRead
  <1>7. CASE Greets \/ OffersTypes \/ HearsType \/ HearsResponse \/ HearsShared
             \/ HearsMessage
    BY <1>7, Greeted, TypesOffered, TypeHeard, ResponseHeard, SharedHeard, MessageHeard
  <1>8. CASE UNCHANGED vars
    <2>1. UNCHANGED <<run, hand, toServer, toClient, server, faults>>
      BY <1>8 DEF vars
    <2>2. TypeOK' /\ Idle' /\ Granted' /\ (Road' <=> Road)
      BY <2>1 DEF CInv, TypeOK, IsRun, IsHand, IsServer, Idle, Granted, Road
    <2>3. Meeting'
      BY <2>1 DEF CInv, Meeting, AtVersion, AtType, AtResponse, AtShared, AtMessages,
         Told, Encodings, Finds, Awaits
    <2>4. QED
      BY <2>1, <2>2, <2>3 DEF CInv
  <1>9. QED
    BY <1>1, <1>2, <1>3, <1>4, <1>5, <1>6, <1>7, <1>8 DEF Next, Client, Server

(* The places of the two, and what is between them, of every connection.   *)
THEOREM Invariance == Spec => []CInv
  BY InitCInv, NextCInv, PTL DEF Spec

(* The loop, the handshake and the server keep to their places and values. *)
THEOREM TypeCorrect == Spec => []TypeOK
  <1>1. CInv => TypeOK
    BY DEF CInv
  <1>2. QED
    BY Invariance, <1>1, PTL

(* In all three versions and with every type, whatever either side finds   *)
(* is what it is about to read (but for the refusal of RefusalRead), and a *)
(* session is one the server granted, in the version, format and encodings *)
(* both of them mean (connector.rs:60-133, auth.rs:61-94,                  *)
(* connection.rs:350-402).                                                 *)
THEOREM ShakesHands == Spec => []ShakenHands
  <1>1. CInv => ShakenHands
    <2> SUFFICES ASSUME CInv PROVE ShakenHands
      OBVIOUS
    <2>1. ClientInStep \/ server.denies
      <3> SUFFICES ASSUME run.at = "handshake", toClient # <<>>, ~server.denies
                   PROVE  Head(toClient).kind = hand.reads
        BY DEF ClientInStep
      <3>1. Road
        BY DEF CInv
      <3>2. \/ \E a : toClient = <<Unit(hand.reads, a)>>
            \/ \E a, u : toClient = <<Unit(hand.reads, a), u>>
        BY <3>1 DEF Road
      <3>3. QED
        BY <3>2, One, Two, Units
    <2>2. ServerInStep
      <3>1. ASSUME server.at \in {"version", "type", "response", "shared"}, toServer # <<>>
            PROVE  Head(toServer).kind = server.at
        <4>1. \/ \E a : toServer = <<Unit(server.at, a)>>
              \/ \E a, u : toServer = <<Unit(server.at, a), u>>
          <5>1. CASE server.at = "version"
            BY <3>1, <5>1 DEF CInv, Meeting, AtVersion, Finds, Awaits
          <5>2. CASE server.at = "type"
            BY <3>1, <5>2 DEF CInv, Meeting, AtType, Finds, Awaits
          <5>3. CASE server.at = "response"
            BY <3>1, <5>3 DEF CInv, Meeting, AtResponse, Finds, Awaits
          <5>4. CASE server.at = "shared"
            BY <3>1, <5>4 DEF CInv, Meeting, AtShared, Finds, Awaits
          <5>5. QED
            BY <3>1, <5>1, <5>2, <5>3, <5>4
        <4>2. QED
          BY <4>1, One, Two, Units
      <3>2. ASSUME server.at = "messages", toServer # <<>>
            PROVE  Head(toServer).kind \in {"format", "encodings", "request"}
        <4>1. Told
          BY <3>2 DEF CInv, Meeting, AtMessages, Finds
        <4>2. QED
          BY <3>2, <4>1, One, Two, Three, Units DEF Told
      <3>3. QED
        BY <3>1, <3>2 DEF ServerInStep
    <2>3. Admitted
      <3>1. ASSUME run.at \in {"opening", "session"}, server.at = "messages", toServer = <<>>
            PROVE  /\ server.format = hand.format
                   /\ server.encodings = Encodings /\ server.asked
        <4>1. Told
          BY <3>1 DEF CInv, Meeting, AtMessages, Finds
        <4>2. QED
          BY <3>1, <4>1, One, Two, Three DEF Told
      <3>2. QED
        BY <3>1 DEF CInv, Granted, Admitted
    <2>4. QED
      BY <2>1, <2>2, <2>3 DEF ShakenHands, InStep
  <1>2. QED
    BY Invariance, <1>1, PTL

-----------------------------------------------------------------------------
(* The same loop seen from stdout: for any number of sessions and whatever *)
(* the terminal does, stdout has one owner at a time, no frame is torn by  *)
(* the teardown, and the process leaves the terminal as it found it.       *)
InSession == {"running", "querying", "closing", "noticing", "panicking", "unwinding"}

(* The lock is with the thread that is past locking it, if there is one.   *)
LockHeld == \A w \in Writers : lock = w <=> writer[w] \in {"waiting", "writing"}

(* The threads there have been are those of the sessions begun.            *)
Begun ==
    /\ \A w \in Writers : writer[w] = "unborn" <=> w > session
    /\ main \in InSession => session \in Writers

(* Every thread but the last session's has ended, that one too before      *)
(* another begins; one that a grace period gave up on is in a write, and   *)
(* not still waiting for the lock.                                         *)
Alone ==
    /\ main \in InSession => \A w \in Writers : w < session => writer[w] = "ended"
    /\ main \in {"entering", "starting"} => \A w \in Writers : w <= session => writer[w] = "ended"
    /\ main = "noticing" => writer[session] # "locking"

(* FULL_SCREEN is down only where the terminal is back, or about to be.    *)
GivenBack ==
    ~fullScreen /\ main \notin {"restoring", "unwinding"}
        => (alternate => terminal = "gone")

IInv == StdoutTypeOK /\ LockHeld /\ Begun /\ Alone /\ GivenBack /\ Restored

LEMMA InitIInv == StdoutInit => IInv
  <1> SUFFICES ASSUME StdoutInit PROVE IInv
    OBVIOUS
  <1>1. StdoutTypeOK
    <2>1. 0 \in 0 .. Sessions
      BY SessionsAssumption
    <2>2. /\ writer \in [Writers -> {"unborn"}]
          /\ sender \in [Writers -> BOOLEAN]
          /\ queued \in [Writers -> 0 .. 1]
      BY DEF StdoutInit
    <2>3. QED
      BY <2>1, <2>2 DEF StdoutInit, StdoutTypeOK, Stages
  <1>2. LockHeld /\ Begun
    BY SessionsAssumption, NoOneAssumption
    DEF StdoutInit, LockHeld, Begun, Writers, InSession
  <1>3. Alone /\ GivenBack /\ Restored
    BY SessionsAssumption DEF StdoutInit, Alone, GivenBack, Restored, InSession, Writers
  <1>4. QED
    BY <1>1, <1>2, <1>3 DEF IInv

(* When the lock is free no thread is past taking it.                      *)
LEMMA FreeMeansNobody ==
    ASSUME IInv, lock = NoOne
    PROVE  \A w \in Writers : writer[w] \in {"unborn", "locking", "ended"}
  BY NoOneAssumption DEF IInv, LockHeld, StdoutTypeOK

(* Before a session, and after the last one, no thread starts.             *)
LEMMA EnteringAndLeaving ==
    ASSUME IInv,
           BeginFullScreen \/ StartFails \/ LeaveFullScreen \/ WriteTeardown
              \/ LeaveAgain
    PROVE  IInv'
  <1> USE DEF IInv
  <1>1. /\ UNCHANGED <<session, writer, lock, queued, terminal, outcome>>
        /\ main' \in {"starting", "leaving", "restoring", "unwinding", "exited",
                      "closing"}
    BY DEF BeginFullScreen, StartFails, LeaveFullScreen, WriteTeardown,
           LeaveAgain, AfterLeave
  <1>2. StdoutTypeOK'
    <2>1. fullScreen' \in BOOLEAN /\ raw' \in BOOLEAN /\ alternate' \in BOOLEAN
      BY DEF StdoutTypeOK, BeginFullScreen, StartFails, LeaveFullScreen,
             WriteTeardown, LeaveAgain, AfterLeave, Reached
    <2>2. sender' \in [Writers -> BOOLEAN]
      BY DEF StdoutTypeOK, BeginFullScreen, StartFails, LeaveFullScreen,
             WriteTeardown, LeaveAgain, AfterLeave
    <2>3. QED
      BY <1>1, <2>1, <2>2 DEF StdoutTypeOK, Stages
  <1>3. LockHeld'
    BY <1>1 DEF LockHeld
  <1>4. main' = "closing" => main \in {"panicking", "unwinding"}
    BY DEF BeginFullScreen, StartFails, LeaveFullScreen, WriteTeardown,
           LeaveAgain, AfterLeave
  <1>5. main' = "unwinding" => main = "panicking"
    BY DEF BeginFullScreen, StartFails, LeaveFullScreen, WriteTeardown,
           LeaveAgain, AfterLeave
  <1>6. Begun'
    BY <1>1, <1>4, <1>5 DEF Begun, InSession
  <1>7. Alone'
    <2>1. CASE main' = "starting"
      <3>1. main = "entering"
        BY <2>1 DEF BeginFullScreen, StartFails, LeaveFullScreen,
                    WriteTeardown, LeaveAgain, AfterLeave
      <3>2. QED
        BY <1>1, <2>1, <3>1 DEF Alone, InSession
    <2>2. CASE main' # "starting"
      BY <1>1, <1>4, <1>5, <2>2 DEF Alone, InSession
    <2>3. QED
      BY <2>1, <2>2
  <1>8. GivenBack'
    BY <1>1 DEF GivenBack, BeginFullScreen, StartFails, LeaveFullScreen,
                WriteTeardown, LeaveAgain, AfterLeave, Reached, StdoutTypeOK
  <1>9. Restored'
    BY <1>1 DEF GivenBack, Restored, BeginFullScreen, StartFails,
                LeaveFullScreen, WriteTeardown, LeaveAgain, AfterLeave, Reached
  <1>10. QED
    BY <1>2, <1>3, <1>6, <1>7, <1>8, <1>9

(* While sessions come and go only StartSession moves a thread.            *)
LEMMA BetweenSessions ==
    ASSUME IInv,
           Submit \/ BeginQuery \/ EndQuery \/ EndSession \/ Join
              \/ GraceElapses \/ Notice \/ Panic
    PROVE  IInv'
  <1> USE DEF IInv
  <1>1. UNCHANGED <<session, writer, lock, raw, alternate, fullScreen, terminal>>
    BY DEF Submit, BeginQuery, EndQuery, EndSession, Join, GraceElapses,
           Notice, Panic
  <1>2. /\ main \in {"running", "querying", "closing", "noticing"}
        /\ main' \in InSession \cup {"leaving", "starting"}
    BY DEF Submit, BeginQuery, EndQuery, EndSession, Join, GraceElapses,
           Notice, Panic, AfterSession, InSession
  <1>3. session \in Writers
    BY <1>2 DEF Begun, InSession
  <1>4. StdoutTypeOK'
    <2>1. outcome' \in {"none", "quit", "lost", "panic"}
      BY DEF StdoutTypeOK, Submit, BeginQuery, EndQuery, EndSession, Join,
             GraceElapses, Notice, Panic
    <2>2. sender' \in [Writers -> BOOLEAN]
      BY DEF StdoutTypeOK, Submit, BeginQuery, EndQuery, EndSession, Join,
             GraceElapses, Notice, Panic
    <2>3. queued' \in [Writers -> 0 .. 1]
      BY DEF StdoutTypeOK, Submit, BeginQuery, EndQuery, EndSession, Join,
             GraceElapses, Notice, Panic
    <2>4. main' \in Stages
      BY <1>2 DEF Stages, InSession
    <2>5. QED
      BY <1>1, <2>1, <2>2, <2>3, <2>4 DEF StdoutTypeOK
  <1>5. LockHeld' /\ GivenBack' /\ Restored'
    BY <1>1, <1>2 DEF LockHeld, GivenBack, Restored, InSession
  <1>6. Begun'
    BY <1>1, <1>3 DEF Begun
  <1>7. \A w \in Writers : w < session => writer[w] = "ended"
    BY <1>2 DEF Alone, InSession
  <1>8. main' = "noticing" => writer[session] # "locking"
    <2>1. CASE Join
      BY <2>1 DEF Join
    <2>2. CASE GraceElapses
      <3>1. SUFFICES ASSUME writer[session] = "locking", lock # NoOne
                     PROVE  FALSE
        BY <2>2 DEF GraceElapses
      <3>2. lock \in Writers /\ writer[lock] \in {"waiting", "writing"}
        BY <3>1 DEF StdoutTypeOK, LockHeld
      <3>3. lock # session /\ ~(lock < session) /\ ~(lock > session)
        BY <1>7, <3>1, <3>2 DEF Begun
      <3>4. QED
        BY <3>2, <3>3, SessionsAssumption, <1>3 DEF Writers
    <2>3. CASE Notice
      BY <2>3 DEF Notice, Alone
    <2>4. QED
      BY <2>1, <2>2, <2>3
      DEF Submit, BeginQuery, EndQuery, EndSession, Panic
  <1>9. main' = "starting" => \A w \in Writers : w <= session => writer[w] = "ended"
    <2>1. SUFFICES ASSUME Notice, NEW w \in Writers, w <= session
                   PROVE  writer[w] = "ended"
      BY DEF Submit, BeginQuery, EndQuery, EndSession, Join, GraceElapses,
             Panic, AfterSession
    <2>2. writer[w] \in {"unborn", "locking", "ended"}
      BY <2>1, FreeMeansNobody DEF Notice, MainCanWrite
    <2>3. writer[w] # "unborn"
      BY <2>1, <1>3, SessionsAssumption DEF Begun, Writers
    <2>4. w = session \/ w < session
      BY <2>1, <1>3, SessionsAssumption DEF Writers
    <2>5. writer[session] # "locking"
      BY <2>1 DEF Notice, Alone
    <2>6. QED
      BY <1>7, <2>2, <2>3, <2>4, <2>5
  <1>10. Alone'
    BY <1>1, <1>2, <1>7, <1>8, <1>9 DEF Alone, InSession
  <1>11. QED
    BY <1>4, <1>5, <1>6, <1>10

LEMMA SessionBegins == ASSUME IInv, StartSession PROVE IInv'
  <1> USE DEF IInv
  <1>1. /\ session \in Nat /\ session + 1 \in Writers /\ Sessions \in Nat
        /\ session' = session + 1
    BY SessionsAssumption DEF StartSession, StdoutTypeOK, Writers
  <1>2. /\ writer[session + 1] = "unborn"
        /\ \A w \in Writers :
              writer'[w] = IF w = session + 1 THEN "locking" ELSE writer[w]
    BY <1>1 DEF StartSession, StdoutTypeOK, Begun, Writers
  <1>3. StdoutTypeOK'
    <2>1. writer' \in [Writers -> {"unborn", "locking", "waiting", "writing", "ended"}]
      BY <1>1 DEF StartSession, StdoutTypeOK
    <2>2. sender' \in [Writers -> BOOLEAN]
      BY <1>1 DEF StartSession, StdoutTypeOK
    <2>3. session' \in 0 .. Sessions
      BY <1>1 DEF Writers
    <2>4. QED
      BY <2>1, <2>2, <2>3 DEF StartSession, StdoutTypeOK, Stages
  <1>4. LockHeld'
    BY <1>1, <1>2 DEF StartSession, LockHeld
  <1>5. Begun'
    BY <1>1, <1>2 DEF StartSession, Begun, Writers
  <1>6. Alone'
    BY <1>1, <1>2 DEF StartSession, Alone, Writers
  <1>7. GivenBack' /\ Restored'
    BY DEF StartSession, GivenBack, Restored
  <1>8. QED
    BY <1>3, <1>4, <1>5, <1>6, <1>7

(* A thread goes on as a thread that is there does, and takes the lock     *)
(* only when no other has it.                                              *)
LEMMA ThreadSteps == ASSUME IInv, NEW w \in Writers, Thread(w) PROVE IInv'
  <1> USE DEF IInv
  <1>1. /\ UNCHANGED <<main, session, sender, outcome, raw, alternate, fullScreen, terminal>>
        /\ writer' = [writer EXCEPT ![w] = writer'[w]]
        /\ writer[w] \in {"locking", "waiting", "writing"}
        /\ writer'[w] \in {"waiting", "writing", "ended"}
    BY DEF StdoutTypeOK, Thread, Lock, Receive, WriteOk, End
  <1>2. \A v \in Writers : v # w => writer'[v] = writer[v]
    BY <1>1 DEF StdoutTypeOK
  <1>3. StdoutTypeOK'
    <2>1. lock' \in Writers \cup {NoOne}
      BY DEF StdoutTypeOK, Thread, Lock, Receive, WriteOk, End
    <2>2. queued' \in [Writers -> 0 .. 1]
      BY DEF StdoutTypeOK, Thread, Lock, Receive, WriteOk, End
    <2>3. QED
      BY <1>1, <2>1, <2>2 DEF StdoutTypeOK
  <1>4. LockHeld'
    <2>1. CASE Lock(w)
      BY <2>1, <1>2, FreeMeansNobody DEF Lock, StdoutTypeOK, LockHeld
    <2>2. CASE Receive(w) \/ WriteOk(w)
      BY <2>2, <1>2 DEF Receive, WriteOk, StdoutTypeOK, LockHeld
    <2>3. CASE End(w)
      BY <2>3, <1>2, NoOneAssumption DEF End, StdoutTypeOK, LockHeld
    <2>4. QED
      BY <2>1, <2>2, <2>3 DEF Thread
  <1>5. Begun'
    BY <1>1, <1>2 DEF Begun
  <1>6. Alone'
    <2>1. \A v \in Writers : writer[v] = "ended" => writer'[v] = "ended"
      BY <1>1, <1>2
    <2>2. \A v \in Writers : writer'[v] = "locking" => writer[v] = "locking"
      BY <1>1, <1>2
    <2>3. main \in InSession => session \in Writers
      BY DEF Begun
    <2>4. QED
      BY <1>1, <2>1, <2>2, <2>3 DEF Alone, InSession
  <1>7. GivenBack' /\ Restored'
    BY <1>1 DEF GivenBack, Restored
  <1>8. QED
    BY <1>3, <1>4, <1>5, <1>6, <1>7

LEMMA StepIInv == IInv /\ [StdoutNext]_stdoutVars => IInv'
  <1> SUFFICES ASSUME IInv, [StdoutNext]_stdoutVars PROVE IInv'
    OBVIOUS
  <1>1. CASE Main
    BY <1>1, EnteringAndLeaving, BetweenSessions, SessionBegins DEF Main
  <1>2. CASE Submit \/ Panic
    BY <1>2, BetweenSessions
  <1>3. CASE TerminalChanges
    <2>1. StdoutTypeOK'
      BY <1>3 DEF IInv, StdoutTypeOK, TerminalChanges
    <2>2. LockHeld' /\ Begun' /\ Alone'
      BY <1>3 DEF IInv, LockHeld, Begun, Alone, TerminalChanges
    <2>3. GivenBack' /\ Restored'
      BY <1>3 DEF IInv, GivenBack, Restored, TerminalChanges
    <2>4. QED
      BY <2>1, <2>2, <2>3 DEF IInv
  <1>4. CASE \E w \in Writers : Thread(w)
    BY <1>4, ThreadSteps
  <1>5. CASE UNCHANGED stdoutVars
    BY <1>5 DEF stdoutVars, IInv, StdoutTypeOK, LockHeld, Begun, Alone, GivenBack, Restored
  <1>6. QED
    BY <1>1, <1>2, <1>3, <1>4, <1>5 DEF StdoutNext, Exited

(* The invariant holds throughout.                                         *)
THEOREM StdoutInvariance == StdoutSpec => []IInv
  BY InitIInv, StepIInv, PTL DEF StdoutSpec

(* However many sessions there are, the terminal has one writer at a time, *)
(* and is given back when the process exits.                               *)
THEOREM TerminalOwned == StdoutSpec => []OneOwner
  <1>1. IInv => OneOwner
    BY SessionsAssumption
    DEF IInv, OneOwner, OneWriterAtATime, Alone, InSession, StdoutTypeOK, Writers
  <1>2. QED
    BY <1>1, StdoutInvariance, PTL

(* No teardown is written into a frame: whoever writes it holds the lock,  *)
(* and a thread in a frame has it too.                                     *)
THEOREM TeardownUntorn == StdoutSpec => TeardownWhole
  <1>1. ASSUME IInv, [StdoutNext]_stdoutVars
        PROVE  [alternate /\ ~alternate' => \A w \in Writers : writer[w] # "writing"]_stdoutVars
    <2>1. SUFFICES ASSUME StdoutNext, alternate, ~alternate'
                   PROVE  \A w \in Writers : writer[w] # "writing"
      BY <1>1
    <2>2. lock = NoOne
      BY <1>1, <2>1
      DEF StdoutNext, Main, Thread, BeginFullScreen, StartSession, StartFails, BeginQuery,
          EndQuery, EndSession, Join, GraceElapses, Notice, LeaveFullScreen,
          WriteTeardown, LeaveAgain, Lock, Receive, WriteOk, End, Submit, Panic,
          TerminalChanges, Exited, MainCanWrite, stdoutVars
    <2>3. QED
      BY <1>1, <2>2, FreeMeansNobody
  <1>2. QED
    BY <1>1, StdoutInvariance, PTL DEF StdoutSpec, TeardownWhole
=============================================================================
