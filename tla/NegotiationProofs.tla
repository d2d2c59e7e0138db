-------------------------- MODULE NegotiationProofs -------------------------
(***************************************************************************)
(* What holds of the negotiation for all sizes, windows and servers, and   *)
(* however many changes of each.                                           *)
(*                                                                         *)
(* The handlers of Session are built from a few others, and what an event  *)
(* does is a chain of those.  So the argument is about one link, Link(c,d),*)
(* that each of them is, and that chains are again.                        *)
(***************************************************************************)
EXTENDS Negotiation, SequenceTheorems, TLAPS

(* A session in the middle of a handler, with what it has sent so far.     *)
Working == [
    mode : Modes,
    resize : {"probing", "unsupported", "waiting", "native", "refused"},
    remote : Plausible,
    screens : BOOLEAN,
    requested : Sizes \union {None},
    metrics : Windows,
    laid : [mode : Modes, size : Plausible, window : Windows],
    out : {<<>>} \union {<<w>> : w \in Windows}]

(* What it shows is what it knows; see LaidOutAsKnown.                     *)
Shown(c) ==
    /\ c.laid.size = c.remote
    /\ c.laid.window = c.metrics
    /\ c.laid.mode # c.mode => c.mode = "native"

(* It has sent one request at most, for the window it knows.               *)
SentOne(c) == c.out # <<>> => c.out = <<c.metrics>> /\ c.requested = c.metrics

Good(c) == c \in Working /\ Shown(c) /\ SentOne(c)

(* From one such session to the next: a window it has asked for already is *)
(* not asked for again, and it begins to wait only for what it has sent.   *)
Link(c, d) ==
    /\ Good(d)
    /\ d.metrics = c.metrics
    /\ c.requested = c.metrics => d.requested = d.metrics /\ d.out = c.out
    /\ c.out # <<>> => d.out # <<>>
    /\ d.resize = "waiting" => c.resize = "waiting" \/ d.out # <<>>

LEMMA Chain ==
    ASSUME NEW c, NEW d, NEW e, Good(c), Link(c, d), Link(d, e)
    PROVE  Link(c, e)
BY DEF Link, Good, SentOne

-----------------------------------------------------------------------------
(* The links.                                                              *)
LEMMA Redrawn ==
    ASSUME NEW c, c \in Working, SentOne(c)
    PROVE  /\ Good(Relayout(c))
           /\ \A f \in {"mode", "resize", "remote", "screens", "requested",
                        "metrics", "out"} : Relayout(c)[f] = c[f]
BY DEF Relayout, Good, Working, Shown, SentOne

LEMMA ScreensKnown ==
    ASSUME NEW c, Good(c)
    PROVE  Link(c, [c EXCEPT !.screens = TRUE])
BY DEF Link, Good, Working, Shown, SentOne

LEMMA NotWaiting ==
    ASSUME NEW c, Good(c), NEW r \in {"probing", "unsupported", "native", "refused"}
    PROVE  /\ Link(c, [c EXCEPT !.resize = r])
           /\ [c EXCEPT !.resize = r].resize = r
BY DEF Link, Good, Working, Shown, SentOne

LEMMA NewSize ==
    ASSUME NEW c, NEW s, Good(c)
    PROVE  /\ Link(c, OnRemoteSize(c, s))
           /\ OnRemoteSize(c, s).resize = c.resize
<1> DEFINE d == [c EXCEPT !.remote = s]
<1>1. CASE s = c.remote \/ s \notin Plausible
    BY <1>1 DEF OnRemoteSize, Link, Good
<1>2. CASE s # c.remote /\ s \in Plausible
    <2>1. d \in Working /\ SentOne(d) /\ d.metrics = c.metrics
          /\ d.requested = c.requested /\ d.out = c.out /\ d.resize = c.resize
        BY <1>2 DEF Good, Working, SentOne
    <2> HIDE DEF d
    <2>2. OnRemoteSize(c, s) = Relayout(d)
        BY <1>2 DEF OnRemoteSize, d
    <2> QED
        BY <2>1, <2>2, Redrawn DEF Link
<1> QED
    BY <1>1, <1>2

LEMMA FellBack ==
    ASSUME NEW c, Good(c)
    PROVE  /\ Link(c, FallBackFromNative(c))
           /\ FallBackFromNative(c).resize = c.resize
<1> DEFINE m == IF Fits(c.remote, c.metrics) THEN "one" ELSE "fit"
           d == [c EXCEPT !.mode = m]
<1>1. CASE c.mode # "native"
    BY <1>1 DEF FallBackFromNative, Link, Good
<1>2. CASE c.mode = "native"
    <2>1. d \in Working /\ SentOne(d) /\ d.metrics = c.metrics
          /\ d.requested = c.requested /\ d.out = c.out /\ d.resize = c.resize
        BY DEF Good, Working, SentOne, Modes
    <2>2. FallBackFromNative(c) = Relayout(d)
        BY <1>2 DEF FallBackFromNative
    <2> HIDE DEF d
    <2> QED
        BY <2>1, <2>2, Redrawn DEF Link
<1> QED
    BY <1>1, <1>2

(* A request is sent where the session has asked for nothing yet, and then *)
(* covers the window; or it has asked, and does not ask again.             *)
LEMMA Requested ==
    ASSUME NEW c, NEW force \in BOOLEAN, Good(c),
           force => c.out = <<>> /\ c.requested = None,
           SizeTypes
    PROVE  Link(c, RequestNativeSize(c, force))
<1> DEFINE n == [c EXCEPT !.resize = "native"]
           w == [c EXCEPT !.resize = "waiting", !.requested = c.metrics,
                          !.out = Append(@, c.metrics)]
           sends == /\ c.metrics # c.remote /\ c.screens
                    /\ ~(~force /\ (c.resize = "waiting" \/ c.requested = c.metrics))
<1>1. c.metrics \in Windows /\ None \notin Windows /\ c.metrics \in Sizes
    BY SizeTypes DEF Good, Working
<1>2. CASE c.metrics = c.remote
    <2>1. Good(n) /\ Link(c, n)
        BY NotWaiting DEF Link
    <2>2. RequestNativeSize(c, force) = Relayout(n)
        BY <1>2 DEF RequestNativeSize
    <2> HIDE DEF n
    <2>3. Link(n, Relayout(n))
        BY <2>1, Redrawn DEF Link, Good
    <2> QED
        BY <2>1, <2>2, <2>3, Chain
<1>3. CASE sends
    <2>1. c.requested # c.metrics
        BY <1>1, <1>3
    <2>2. c.out = <<>> /\ Append(c.out, c.metrics) = <<c.metrics>>
        <3>1. c.out = <<>>
            BY <2>1 DEF Good, SentOne
        <3>2. Append(<<>>, c.metrics) = <<c.metrics>>
            OBVIOUS
        <3> QED
            BY <3>1, <3>2
    <2>3. w \in Working
        BY <1>1, <2>2 DEF Good, Working
    <2>4. /\ w.out = <<c.metrics>> /\ w.requested = c.metrics
          /\ w.metrics = c.metrics /\ w.mode = c.mode /\ w.remote = c.remote
          /\ w.laid = c.laid
        BY <2>2 DEF Good, Working
    <2>5. RequestNativeSize(c, force) = w
        BY <1>3 DEF RequestNativeSize
    <2> HIDE DEF w
    <2>6. w.out # <<>>
        BY <2>4
    <2> QED
        BY <2>1, <2>2, <2>3, <2>4, <2>5, <2>6 DEF Link, Good, Shown, SentOne
<1>4. CASE c.metrics # c.remote /\ ~sends
    <2>1. RequestNativeSize(c, force) = c
        BY <1>4 DEF RequestNativeSize
    <2> QED
        BY <2>1 DEF Link, Good
<1> QED
    BY <1>2, <1>3, <1>4

-----------------------------------------------------------------------------
(* The handlers.                                                           *)
LEMMA ProbingOver ==
    ASSUME NEW c, Good(c), SizeTypes
    PROVE  Link(c, AfterProbing(c))
<1> DEFINE p == [c EXCEPT !.resize = "probing"]
<1>1. Link(c, p)
    BY NotWaiting
<1>2. Link(p, RequestNativeSize(p, FALSE))
    BY <1>1, Requested DEF Link
<1>3. Link(c, RequestNativeSize(p, FALSE))
    BY <1>1, <1>2, Chain
<1>4. /\ Link(c, [c EXCEPT !.resize = "unsupported"])
      /\ c.resize = "native" => Link(c, [c EXCEPT !.resize = "native"])
    BY NotWaiting
<1> QED
    BY <1>3, <1>4 DEF AfterProbing

LEMMA FrameEnded ==
    ASSUME NEW c, Good(c)
    PROVE  Link(c, OnFrameEnd(c))
<1> DEFINE u == [c EXCEPT !.resize = "unsupported"]
<1>1. Link(c, u)
    BY NotWaiting
<1>2. Link(u, FallBackFromNative(u))
    BY <1>1, FellBack DEF Link
<1>3. Link(c, FallBackFromNative(u)) /\ Link(c, c)
    BY <1>1, <1>2, Chain DEF Link
<1> QED
    BY <1>3 DEF OnFrameEnd

(* A reply that is not put off ends the waiting, but for what was asked    *)
(* again.                                                                  *)
LEMMA Replied ==
    ASSUME NEW c, NEW m \in Update, Good(c), SizeTypes
    PROVE  /\ Link(c, OnReply(c, m))
           /\ m.status # "forwarded" =>
                 (OnReply(c, m).resize = "waiting" => OnReply(c, m).out # <<>>)
<1>1. m.status \in {"success", "forwarded", "refused"}
    BY DEF Update
<1>2. CASE m.status = "success"
    <2> DEFINE n == [c EXCEPT !.resize = "native"]
               s == OnRemoteSize(n, m.size)
               r == RequestNativeSize(s, FALSE)
    <2>1. Link(c, n) /\ n.resize = "native"
        BY NotWaiting
    <2>2. Link(n, s) /\ s.resize = "native"
        BY <2>1, NewSize DEF Link
    <2>3. Link(s, r)
        BY <2>2, Requested DEF Link
    <2>4. OnReply(c, m) = r
        BY <1>2 DEF OnReply
    <2> HIDE DEF n, s, r
    <2>5. Link(c, r)
        BY <2>1, <2>2, <2>3, Chain DEF Link
    <2> QED
        BY <1>2, <2>2, <2>3, <2>4, <2>5 DEF Link
<1>3. CASE m.status = "forwarded"
    BY <1>3 DEF OnReply, Link, Good
<1>4. CASE m.status = "refused"
    <2> DEFINE r == [c EXCEPT !.resize = "refused"]
    <2>1. Link(c, r) /\ r.resize = "refused"
        BY NotWaiting
    <2>2. Link(r, FallBackFromNative(r)) /\ FallBackFromNative(r).resize = "refused"
        BY <2>1, FellBack DEF Link
    <2>3. OnReply(c, m) = FallBackFromNative(r)
        BY <1>4 DEF OnReply
    <2> HIDE DEF r
    <2> QED
        BY <2>1, <2>2, <2>3, Chain DEF Link
<1> QED
    BY <1>1, <1>2, <1>3, <1>4

LEMMA LaidOutByServer ==
    ASSUME NEW c, NEW m \in Update, Good(c), SizeTypes
    PROVE  /\ Link(c, OnLayout(c, m))
           /\ m.reason = 1 /\ m.status # "forwarded" =>
                 (OnLayout(c, m).resize = "waiting" => OnLayout(c, m).out # <<>>)
<1> DEFINE known == [c EXCEPT !.screens = TRUE]
           heard == IF m.reason = 1 THEN OnReply(known, m)
                                    ELSE OnRemoteSize(known, m.size)
<1>1. Link(c, known)
    BY ScreensKnown
<1>2. /\ Link(known, heard)
      /\ m.reason = 1 /\ m.status # "forwarded" =>
            (heard.resize = "waiting" => heard.out # <<>>)
    <2>1. Good(known)
        BY <1>1 DEF Link
    <2> HIDE DEF known
    <2>2. CASE m.reason = 1
        BY <2>1, <2>2, Replied
    <2>3. CASE m.reason # 1
        BY <2>1, <2>3, NewSize
    <2> QED
        BY <2>2, <2>3
<1>3. Link(heard, AfterProbing(heard))
    BY <1>2, ProbingOver DEF Link
<1>4. OnLayout(c, m) = IF c.resize = "probing" THEN AfterProbing(heard) ELSE heard
    BY DEF OnLayout
<1> HIDE DEF known, heard
<1>5. Link(c, heard) /\ Link(c, AfterProbing(heard))
    BY <1>1, <1>2, <1>3, Chain DEF Link
<1>6. m.reason = 1 /\ m.status # "forwarded" =>
        (AfterProbing(heard).resize = "waiting" => AfterProbing(heard).out # <<>>)
    BY <1>2, <1>3 DEF Link
<1> QED
    BY <1>2, <1>4, <1>5, <1>6

LEMMA Updated ==
    ASSUME NEW c, NEW m \in Update, Good(c), SizeTypes
    PROVE  /\ Link(c, OnUpdate(c, m))
           /\ m.kind = "layout" /\ m.reason = 1 /\ m.status # "forwarded" =>
                 (OnUpdate(c, m).resize = "waiting" => OnUpdate(c, m).out # <<>>)
<1>1. m.kind \in {"end", "size", "layout"}
    BY DEF Update
<1> QED
    BY <1>1, FrameEnded, NewSize, LaidOutByServer DEF OnUpdate

-----------------------------------------------------------------------------
(* The invariant.  A reply is a layout; a request was for the window that  *)
(* is known, as long as nothing changed since.                             *)
RepliesAreLayouts ==
    \A i \in DOMAIN toClient : toClient[i].reason = 1 => toClient[i].kind = "layout"

AskedForThis == asks \in {0, 1} /\ (asks = 1 => session.requested = session.metrics)

IInv == TypeOK /\ LaidOutAsKnown /\ RepliesAreLayouts /\ AskedForThis

(* What it takes for the session to hear of a request that was forwarded:  *)
(* the guest has it still, or has been heard.                              *)
ForwardedIsFollowed ==
    \A i \in DOMAIN toClient : toClient[i].status = "forwarded" =>
        guest # <<>> \/ \E j \in DOMAIN toClient : j > i /\ toClient[j].reason = 1

WInv == WaitsForAReply /\ ForwardedIsFollowed

LEMMA AtRest ==
    ASSUME TypeOK, LaidOutAsKnown
    PROVE  Good(session) /\ session.out = <<>>
BY DEF TypeOK, LaidOutAsKnown, Good, Shown, SentOne, Session, Working

(* How a handler's last session becomes the next state.                    *)
LEMMA Became ==
    ASSUME TypeOK, NEW d, Good(d), NEW before \in {0, 1}, Become(d, before),
           d.out # <<>> => before = 0,
           before = 1 => d.requested = d.metrics
    PROVE  /\ session' \in Session /\ LaidOutAsKnown' /\ AskedForThis'
           /\ toServer' \in Seq(Windows) /\ asks' \in Nat
           /\ session'.resize = d.resize
           /\ toServer # <<>> \/ d.out # <<>> => toServer' # <<>>
<1> DEFINE e == [d EXCEPT !.out = <<>>]
<1>1. /\ session' = e
      /\ toServer' = toServer \o d.out
      /\ asks' = before + Len(d.out)
    BY DEF Become
<1>2. e \in Session
    BY DEF Good, Working, Session
<1>3. /\ e.laid = d.laid /\ e.remote = d.remote /\ e.metrics = d.metrics
      /\ e.mode = d.mode /\ e.requested = d.requested /\ e.resize = d.resize
    BY DEF Good, Working
<1> HIDE DEF e
<1>4. LaidOutAsKnown'
    BY <1>1, <1>3 DEF LaidOutAsKnown, Good, Shown
<1>5. CASE d.out = <<>>
    <2>1. toServer \in Seq(Windows) /\ toServer \o d.out = toServer /\ Len(d.out) = 0
        BY <1>5, ConcatEmptySeq DEF TypeOK
    <2> QED
        BY <1>1, <1>2, <1>3, <1>4, <1>5, <2>1 DEF AskedForThis
<1>6. CASE d.out # <<>>
    <2>1. /\ d.out = <<d.metrics>> /\ d.requested = d.metrics
          /\ d.metrics \in Windows
        BY <1>6 DEF Good, SentOne, Working
    <2>2. toServer \in Seq(Windows)
        BY DEF TypeOK
    <2>3. Len(<<d.metrics>>) = 1 /\ <<d.metrics>> \in Seq(Windows)
        BY <2>1
    <2>4. /\ toServer \o <<d.metrics>> \in Seq(Windows)
          /\ toServer \o <<d.metrics>> # <<>>
        BY <2>2, <2>3, LenProperties, ConcatProperties
    <2> QED
        BY <1>1, <1>2, <1>3, <1>4, <1>6, <2>1, <2>3, <2>4 DEF AskedForThis
<1> QED
    BY <1>5, <1>6

(* What is left of the updates when the first is taken.                    *)
LEMMA FirstTaken ==
    ASSUME NEW q \in Seq(Update), q # <<>>
    PROVE  /\ Head(q) \in Update /\ Tail(q) \in Seq(Update)
           /\ 1 \in DOMAIN q /\ Head(q) = q[1]
           /\ DOMAIN Tail(q) = 1 .. Len(q) - 1 /\ DOMAIN q = 1 .. Len(q)
           /\ \A i \in DOMAIN Tail(q) : Tail(q)[i] = q[i + 1]
           /\ \A i \in DOMAIN q : i = 1 \/ i - 1 \in DOMAIN Tail(q)
BY HeadTailProperties, LenProperties, EmptySeq

LEMMA OneMore ==
    ASSUME NEW q \in Seq(Update), NEW m \in Update
    PROVE  /\ Append(q, m) \in Seq(Update)
           /\ DOMAIN q = 1 .. Len(q)
           /\ DOMAIN Append(q, m) = 1 .. Len(q) + 1
           /\ Append(q, m)[Len(q) + 1] = m
           /\ \A i \in DOMAIN q : i \in DOMAIN Append(q, m) /\ Append(q, m)[i] = q[i]
           /\ \A i \in DOMAIN Append(q, m) : i = Len(q) + 1 \/ i \in DOMAIN q
BY AppendProperties, LenProperties

-----------------------------------------------------------------------------
(* The session's steps.  Each makes one chain of links from where it is.   *)
LEMMA ReceiveKeeps ==
    ASSUME IInv, Receive, SizeTypes
    PROVE  /\ IInv' /\ (toServer # <<>> => toServer' # <<>>)
           /\ session'.resize = "waiting" =>
                 \/ toServer' # <<>>
                 \/ /\ session.resize = "waiting"
                    /\ Head(toClient).reason = 1 =>
                          Head(toClient).status = "forwarded"
<1> DEFINE m == Head(toClient)
           d == OnUpdate(session, m)
<1>1. m \in Update /\ (m.reason = 1 => m.kind = "layout")
    BY FirstTaken DEF Receive, IInv, TypeOK, RepliesAreLayouts
<1>2. Good(session) /\ session.out = <<>>
    BY AtRest DEF IInv
<1>3. /\ Link(session, d)
      /\ m.reason = 1 /\ m.status # "forwarded" =>
            (d.resize = "waiting" => d.out # <<>>)
    BY <1>1, <1>2, Updated
<1>4. Become(d, asks) /\ toClient' = Tail(toClient)
      /\ UNCHANGED <<window, pending, server, guest, early>>
    BY DEF Receive
<1> HIDE DEF d
<1>5. asks \in {0, 1} /\ (asks = 1 => session.requested = session.metrics)
    BY DEF IInv, AskedForThis
<1>6. /\ session' \in Session /\ LaidOutAsKnown' /\ AskedForThis'
      /\ toServer' \in Seq(Windows) /\ asks' \in Nat
      /\ session'.resize = d.resize
      /\ toServer # <<>> \/ d.out # <<>> => toServer' # <<>>
    <2>1. (d.out # <<>> => asks = 0) /\ (asks = 1 => d.requested = d.metrics)
        BY <1>2, <1>3, <1>5 DEF Link
    <2> QED
        BY <1>3, <1>4, <1>5, <2>1, Became DEF Link, IInv
<1>7. toClient' \in Seq(Update) /\ RepliesAreLayouts'
    BY <1>4, FirstTaken DEF Receive, IInv, TypeOK, RepliesAreLayouts
<1>8. IInv'
    BY <1>4, <1>6, <1>7 DEF IInv, TypeOK
<1> QED
    BY <1>3, <1>6, <1>8 DEF Link

LEMMA ApplyKeeps ==
    ASSUME IInv, ApplyMetrics, SizeTypes
    PROVE  /\ IInv' /\ (toServer # <<>> => toServer' # <<>>)
           /\ session'.resize = "waiting" =>
                 session.resize = "waiting" \/ toServer' # <<>>
<1> DEFINE moved == [session EXCEPT !.metrics = window]
           seen == Relayout(moved)
           d == OnResize(session)
           before == IF window = session.metrics THEN asks ELSE 0
<1>1. Good(session) /\ session.out = <<>> /\ window \in Windows
    BY AtRest DEF IInv, TypeOK
<1>2. /\ moved \in Working /\ moved.out = <<>> /\ moved.metrics = window
      /\ moved.requested = session.requested /\ moved.resize = session.resize
    BY <1>1 DEF Good, Working
<1>3. /\ Good(seen) /\ seen.out = <<>> /\ seen.metrics = window
      /\ seen.requested = session.requested /\ seen.resize = session.resize
    <2>1. SentOne(moved)
        BY <1>2 DEF SentOne
    <2> HIDE DEF moved
    <2> QED
        BY <1>2, <2>1, Redrawn
<1>4. d = seen \/ d = RequestNativeSize(seen, FALSE)
    BY DEF OnResize
<1> HIDE DEF seen
<1>5. Link(seen, d)
    <2>1. Link(seen, seen)
        BY <1>3 DEF Link
    <2> HIDE DEF d
    <2> QED
        BY <1>3, <1>4, <2>1, Requested
<1>6. /\ Become(d, before) /\ toClient' = toClient
      /\ UNCHANGED <<window, server, guest, early>> /\ pending' = FALSE
    BY DEF ApplyMetrics
<1> HIDE DEF d
<1>7. /\ before \in {0, 1} /\ (before = 1 => seen.requested = seen.metrics)
    BY <1>3 DEF IInv, AskedForThis
<1> HIDE DEF before
<1>8. /\ session' \in Session /\ LaidOutAsKnown' /\ AskedForThis'
      /\ toServer' \in Seq(Windows) /\ asks' \in Nat
      /\ session'.resize = d.resize
      /\ toServer # <<>> \/ d.out # <<>> => toServer' # <<>>
    <2>1. (d.out # <<>> => before = 0) /\ (before = 1 => d.requested = d.metrics)
        BY <1>3, <1>5, <1>7 DEF Link
    <2> QED
        BY <1>5, <1>6, <1>7, <2>1, Became DEF Link, IInv
<1>9. IInv'
    BY <1>6, <1>8 DEF IInv, TypeOK, RepliesAreLayouts
<1> QED
    BY <1>3, <1>5, <1>8, <1>9 DEF Link

(* A command may ask for the window that was asked for before.             *)
LEMMA CommandKeeps ==
    ASSUME IInv, Command, SizeTypes
    PROVE  /\ IInv' /\ (toServer # <<>> => toServer' # <<>>)
           /\ session'.resize = "waiting" =>
                 session.resize = "waiting" \/ toServer' # <<>>
<1>1. Good(session) /\ session.out = <<>>
    BY AtRest DEF IInv
<1>2. UNCHANGED <<window, pending, toClient, server, guest, early>>
    BY DEF Command
<1>3. SUFFICES
        ASSUME NEW d, Become(d, 0), Good(d),
               d.resize = "waiting" => session.resize = "waiting" \/ d.out # <<>>
        PROVE  /\ IInv' /\ (toServer # <<>> => toServer' # <<>>)
               /\ session'.resize = "waiting" =>
                     session.resize = "waiting" \/ toServer' # <<>>
    <2>1. CASE \E m \in Modes : Become(SetMode(session, m), 0)
        <3>1. PICK m \in Modes : Become(SetMode(session, m), 0)
            BY <2>1
        <3> DEFINE c == [session EXCEPT !.mode = m, !.requested = None]
                   e == [session EXCEPT !.mode = m]
        <3>2. CASE m = "native"
            <4>1. Good(c) /\ c.out = <<>> /\ c.requested = None
                  /\ c.resize = session.resize
                BY <1>1, <3>2 DEF Good, Working, Shown, SentOne
            <4>2. Link(c, RequestNativeSize(c, TRUE))
                BY <4>1, Requested
            <4>3. SetMode(session, m) = RequestNativeSize(c, TRUE)
                BY <3>2 DEF SetMode
            <4> HIDE DEF c
            <4> QED
                BY <1>3, <3>1, <4>1, <4>2, <4>3 DEF Link
        <3>3. CASE m # "native"
            <4>1. e \in Working /\ e.out = <<>> /\ e.resize = session.resize
                BY <1>1 DEF Good, Working
            <4>2. SetMode(session, m) = Relayout(e)
                BY <3>3 DEF SetMode
            <4> HIDE DEF e
            <4>3. Good(Relayout(e)) /\ Relayout(e).resize = session.resize
                BY <4>1, Redrawn DEF SentOne
            <4> QED
                BY <1>3, <3>1, <4>2, <4>3
        <3> QED
            BY <3>2, <3>3
    <2>2. CASE Become(OnRenegotiate(session), 0)
        <3> DEFINE c == [session EXCEPT !.mode = "native", !.resize = "probing",
                                        !.requested = None]
        <3>1. Good(c) /\ c.out = <<>> /\ c.requested = None /\ c.resize = "probing"
            BY <1>1 DEF Good, Working, Shown, SentOne, Modes
        <3>2. Link(c, RequestNativeSize(c, TRUE))
            BY <3>1, Requested
        <3>3. OnRenegotiate(session) = RequestNativeSize(c, TRUE)
            BY DEF OnRenegotiate
        <3> HIDE DEF c
        <3> QED
            BY <1>3, <2>2, <3>1, <3>2, <3>3 DEF Link
    <2> QED
        BY <2>1, <2>2 DEF Command
<1>4. /\ session' \in Session /\ LaidOutAsKnown' /\ AskedForThis'
      /\ toServer' \in Seq(Windows) /\ asks' \in Nat
      /\ session'.resize = d.resize
      /\ toServer # <<>> \/ d.out # <<>> => toServer' # <<>>
    BY <1>3, Became DEF IInv
<1>5. IInv'
    BY <1>2, <1>4 DEF IInv, TypeOK, RepliesAreLayouts
<1> QED
    BY <1>3, <1>4, <1>5

-----------------------------------------------------------------------------
(* The server's steps say one thing each, and leave the session alone.     *)
LEMMA Said ==
    ASSUME IInv, NEW m \in Update, m.reason = 1 => m.kind = "layout", Tell(m)
    PROVE  toClient' \in Seq(Update) /\ RepliesAreLayouts'
<1>1. toClient \in Seq(Update) /\ toClient' = Append(toClient, m)
    BY DEF IInv, TypeOK, Tell
<1> QED
    BY <1>1, OneMore DEF IInv, RepliesAreLayouts

LEMMA Sayable ==
    /\ End \in Update /\ End.kind = "end" /\ End.reason = 0
    /\ End.status = "success"
    /\ \A s \in Sizes : Resolution(s) \in Update /\ Resolution(s).kind = "size"
                        /\ Resolution(s).reason = 0
                        /\ Resolution(s).status = "success"
    /\ \A r \in 0 .. 2, st \in {"success", "forwarded", "refused"},
          s \in Sizes \union {None} :
            /\ Layout(r, st, s) \in Update
            /\ Layout(r, st, s).kind = "layout"
            /\ Layout(r, st, s).reason = r
            /\ Layout(r, st, s).status = st
BY DEF Update, End, Resolution, Layout

LEMMA AnswerKeeps ==
    ASSUME IInv, Answer, SizeTypes
    PROVE  IInv'
<1>1. /\ toServer \in Seq(Windows) /\ toServer # <<>> /\ guest \in Seq(Windows)
      /\ server \in [size : Sizes, can : BOOLEAN]
    BY DEF IInv, TypeOK, Answer
<1>2. Head(toServer) \in Windows /\ toServer' \in Seq(Windows)
    BY <1>1, HeadTailProperties DEF Answer
<1>3. toClient' \in Seq(Update) /\ RepliesAreLayouts'
    <2>1. CASE Grant(Head(toServer))
        BY <1>2, <2>1, Sayable, Said, SizeTypes DEF Grant
    <2>2. CASE Refuse
        BY <2>2, Sayable, Said DEF Refuse
    <2>3. CASE Forward(Head(toServer))
        BY <2>3, Sayable, Said DEF Forward
    <2> QED
        BY <2>1, <2>2, <2>3 DEF Answer
<1>4. guest' \in Seq(Windows)
    <2>1. Append(guest, Head(toServer)) \in Seq(Windows)
        BY <1>1, <1>2, AppendProperties
    <2> QED
        BY <1>1, <2>1 DEF Answer, Grant, Refuse, Forward
<1>5. server' \in [size : Sizes, can : BOOLEAN]
    BY <1>1, <1>2, SizeTypes DEF Answer, Grant, Refuse, Forward
<1>6. UNCHANGED <<session, window, pending, asks, early>>
    BY DEF Answer
<1> QED
    BY <1>2, <1>3, <1>4, <1>5, <1>6
    DEF IInv, TypeOK, LaidOutAsKnown, AskedForThis

LEMMA GuestKeeps ==
    ASSUME IInv, GuestResizes, SizeTypes, ServerTypes
    PROVE  IInv'
<1>1. /\ guest \in Seq(Windows) /\ guest # <<>>
      /\ server \in [size : Sizes, can : BOOLEAN]
    BY DEF IInv, TypeOK, GuestResizes
<1>2. Head(guest) \in Sizes /\ guest' \in Seq(Windows)
    BY <1>1, HeadTailProperties, SizeTypes DEF GuestResizes
<1>3. toClient' \in Seq(Update) /\ RepliesAreLayouts'
    <2>1. PICK r \in LateReasons : Tell(Layout(r, "success", Head(guest)))
        BY DEF GuestResizes
    <2>2. r \in 0 .. 2
        BY ServerTypes
    <2> QED
        BY <1>2, <2>1, <2>2, Sayable, Said
<1>4. server' \in [size : Sizes, can : BOOLEAN]
    BY <1>1, <1>2 DEF GuestResizes
<1>5. UNCHANGED <<session, window, pending, toServer, asks, early>>
    BY DEF GuestResizes
<1> QED
    BY <1>2, <1>3, <1>4, <1>5 DEF IInv, TypeOK, LaidOutAsKnown, AskedForThis

LEMMA OthersKeep ==
    ASSUME IInv, SomebodyResizes \/ FrameEnds
    PROVE  IInv'
<1>1. server \in [size : Sizes, can : BOOLEAN]
    BY DEF IInv, TypeOK
<1>2. CASE SomebodyResizes
    <2>1. PICK s \in Sizes \ {server.size} :
            /\ server' = [server EXCEPT !.size = s]
            /\ Tell(IF server.can THEN Layout(2, "success", s) ELSE Resolution(s))
        BY <1>2 DEF SomebodyResizes
    <2>2. toClient' \in Seq(Update) /\ RepliesAreLayouts'
        BY <2>1, Sayable, Said
    <2>3. server' \in [size : Sizes, can : BOOLEAN]
        BY <1>1, <2>1
    <2>4. UNCHANGED <<session, window, pending, toServer, guest, asks, early>>
        BY <1>2 DEF SomebodyResizes
    <2> QED
        BY <2>2, <2>3, <2>4 DEF IInv, TypeOK, LaidOutAsKnown, AskedForThis
<1>3. CASE FrameEnds
    <2>1. toClient' \in Seq(Update) /\ RepliesAreLayouts'
        BY <1>3, Sayable, Said DEF FrameEnds
    <2>2. UNCHANGED <<session, window, pending, toServer, server, guest, asks, early>>
        BY <1>3 DEF FrameEnds
    <2> QED
        BY <2>1, <2>2 DEF IInv, TypeOK, LaidOutAsKnown, AskedForThis
<1> QED
    BY <1>2, <1>3

LEMMA Begins ==
    ASSUME Init, SizeTypes, ServerTypes
    PROVE  IInv
<1>1. toClient \in Seq(Update) /\ RepliesAreLayouts
    <2>1. CASE server.can
        <3>1. toClient = <<Layout(0, "success", FirstRemote), End>>
            BY <2>1 DEF Init
        <3>2. FirstRemote \in Sizes
            BY SizeTypes
        <3> QED
            BY <3>1, <3>2, Sayable DEF RepliesAreLayouts
    <2>2. CASE ~server.can
        <3>1. toClient = <<End>>
            BY <2>2 DEF Init
        <3> QED
            BY <3>1, Sayable DEF RepliesAreLayouts
    <2> QED
        BY <2>1, <2>2
<1>2. session \in Session /\ LaidOutAsKnown
    BY SizeTypes DEF Init, Session, LaidOutAsKnown, Modes
<1>3. server \in [size : Sizes, can : BOOLEAN]
    BY SizeTypes, ServerTypes DEF Init
<1>4. /\ window \in Windows /\ pending \in BOOLEAN /\ toServer \in Seq(Windows)
      /\ guest \in Seq(Windows) /\ asks = 0 /\ early \in BOOLEAN
    BY SizeTypes, EmptySeq DEF Init
<1> QED
    BY <1>1, <1>2, <1>3, <1>4 DEF IInv, TypeOK, AskedForThis

LEMMA StepKeeps ==
    ASSUME IInv, [Next]_vars, SizeTypes, ServerTypes
    PROVE  IInv'
<1>1. CASE Client
    BY <1>1, ReceiveKeeps, ApplyKeeps, CommandKeeps DEF Client
<1>2. CASE Server
    BY <1>2, AnswerKeeps, GuestKeeps, OthersKeep DEF Server
<1>3. CASE WindowChanges
    BY <1>3 DEF WindowChanges, IInv, TypeOK, LaidOutAsKnown, RepliesAreLayouts,
                AskedForThis
<1>4. CASE Quiet \/ UNCHANGED vars
    BY <1>4 DEF Quiet, vars, IInv, TypeOK, LaidOutAsKnown, RepliesAreLayouts,
                AskedForThis
<1> QED
    BY <1>1, <1>2, <1>3, <1>4 DEF Next

(* The invariant, of every server and every window.                        *)
THEOREM Invariance == Spec => []IInv
<1>1. Init => IInv
    BY Begins, SizeTypes, ServerTypes
<1>2. IInv /\ [Next]_vars => IInv'
    BY StepKeeps, SizeTypes, ServerTypes
<1> QED
    BY <1>1, <1>2, PTL DEF Spec

(* A window size or a command earns one request at most, however many      *)
(* answers, changes by others and windows come in between: asking again    *)
(* never loops.                                                            *)
THEOREM AsksOnce == Spec => []AskedOnce
<1>1. IInv => AskedOnce
    BY DEF IInv, AskedForThis, AskedOnce
<1> QED
    BY <1>1, Invariance, PTL

-----------------------------------------------------------------------------
(* The session waits for what is still to come.  A server that forwards    *)
(* has to say in the end that this was a reply: one that reports it as a   *)
(* change of its own leaves the session waiting, as the code has it.       *)
LEMMA OneMoreReply ==
    ASSUME IInv, NEW m \in Update, Tell(m)
    PROVE  /\ \A i \in DOMAIN toClient' :
                 \/ i \in DOMAIN toClient /\ toClient'[i] = toClient[i]
                 \/ toClient'[i] = m
           /\ \A i \in DOMAIN toClient :
                 i \in DOMAIN toClient' /\ toClient'[i] = toClient[i]
           /\ \E j \in DOMAIN toClient' :
                 /\ toClient'[j] = m
                 /\ \A i \in DOMAIN toClient : j > i
<1>1. toClient \in Seq(Update) /\ toClient' = Append(toClient, m)
    BY DEF IInv, TypeOK, Tell
<1>2. Len(toClient) \in Nat /\ DOMAIN toClient = 1 .. Len(toClient)
    BY <1>1, LenProperties
<1> QED
    BY <1>1, <1>2, OneMore

(* What is said in passing leaves the replies before it where they are.    *)
LEMMA SaidInPassing ==
    ASSUME IInv, WInv, NEW m \in Update, m.status # "forwarded", Tell(m),
           UNCHANGED <<session, toServer, guest>>
    PROVE  WInv'
<1>1. WaitsForAReply'
    BY OneMoreReply DEF WInv, WaitsForAReply, Replies
<1>2. ForwardedIsFollowed'
    <2> SUFFICES ASSUME NEW i \in DOMAIN toClient', toClient'[i].status = "forwarded",
                        guest = <<>>
                 PROVE  \E j \in DOMAIN toClient' : j > i /\ toClient'[j].reason = 1
        BY DEF ForwardedIsFollowed
    <2>1. i \in DOMAIN toClient /\ toClient'[i] = toClient[i]
        BY OneMoreReply
    <2>2. PICK j \in DOMAIN toClient : j > i /\ toClient[j].reason = 1
        BY <2>1 DEF WInv, ForwardedIsFollowed
    <2> QED
        BY <2>2, OneMoreReply
<1> QED
    BY <1>1, <1>2 DEF WInv

(* A reply is the last thing said, so nothing forwarded comes after it.    *)
LEMMA SaidInReply ==
    ASSUME IInv, NEW m \in Update, m.status # "forwarded", m.reason = 1, Tell(m)
    PROVE  WInv'
<1>1. PICK j \in DOMAIN toClient' :
        toClient'[j] = m /\ \A i \in DOMAIN toClient : j > i
    BY OneMoreReply
<1>2. \A i \in DOMAIN toClient' : toClient'[i].status = "forwarded" => j > i
    BY <1>1, OneMoreReply
<1> QED
    BY <1>1, <1>2 DEF WInv, WaitsForAReply, Replies, ForwardedIsFollowed

LEMMA ReceiveWaits ==
    ASSUME IInv, WInv, Receive, SizeTypes
    PROVE  WInv'
<1> DEFINE q == toClient
<1>1. /\ q \in Seq(Update) /\ q # <<>> /\ toClient' = Tail(q) /\ guest' = guest
    BY DEF Receive, IInv, TypeOK
<1>2. /\ 1 \in DOMAIN q /\ Head(q) = q[1] /\ Len(q) \in Nat
      /\ DOMAIN Tail(q) = 1 .. Len(q) - 1 /\ DOMAIN q = 1 .. Len(q)
      /\ \A i \in DOMAIN Tail(q) : i + 1 \in DOMAIN q /\ Tail(q)[i] = q[i + 1]
      /\ \A i \in DOMAIN q : i = 1 \/ (i - 1 \in DOMAIN Tail(q) /\ Tail(q)[i - 1] = q[i])
    BY <1>1, FirstTaken, LenProperties
<1> HIDE DEF q
<1>3. ForwardedIsFollowed'
    <2> SUFFICES ASSUME NEW i \in DOMAIN toClient', toClient'[i].status = "forwarded",
                        guest = <<>>
                 PROVE  \E j \in DOMAIN toClient' : j > i /\ toClient'[j].reason = 1
        BY <1>1 DEF ForwardedIsFollowed
    <2>1. PICK j \in DOMAIN q : j > i + 1 /\ q[j].reason = 1
        BY <1>1, <1>2 DEF WInv, ForwardedIsFollowed, q
    <2>2. j - 1 \in DOMAIN Tail(q) /\ Tail(q)[j - 1] = q[j] /\ j - 1 > i
        BY <1>1, <1>2, <2>1
    <2> QED
        BY <1>1, <2>1, <2>2
<1>4. WaitsForAReply'
    <2> SUFFICES ASSUME session'.resize = "waiting", toServer' = <<>>, guest = <<>>
                 PROVE  \E i \in DOMAIN toClient' : toClient'[i].reason = 1
        BY <1>1 DEF WaitsForAReply, Replies
    <2>1. /\ session.resize = "waiting" /\ toServer = <<>>
          /\ q[1].reason = 1 => q[1].status = "forwarded"
        BY <1>1, <1>2, ReceiveKeeps DEF q
    <2>2. PICK i \in DOMAIN q : q[i].reason = 1
        BY <2>1 DEF WInv, WaitsForAReply, Replies, q
    <2>3. CASE i # 1
        <3>1. i - 1 \in DOMAIN Tail(q) /\ Tail(q)[i - 1].reason = 1
            BY <1>2, <2>2, <2>3
        <3> QED
            BY <1>1, <3>1
    <2>4. CASE i = 1
        <3>1. PICK j \in DOMAIN q : j > 1 /\ q[j].reason = 1
            BY <1>2, <2>1, <2>2, <2>4 DEF WInv, ForwardedIsFollowed, q
        <3>2. j - 1 \in DOMAIN Tail(q) /\ Tail(q)[j - 1].reason = 1
            BY <1>2, <3>1
        <3> QED
            BY <1>1, <3>2
    <2> QED
        BY <2>3, <2>4
<1> QED
    BY <1>3, <1>4 DEF WInv

LEMMA ServerWaits ==
    ASSUME IInv, WInv, Server, SizeTypes, LateReasons \subseteq {1}
    PROVE  WInv'
<1>1. CASE Answer
    <2>1. Head(toServer) \in Windows
        BY <1>1, HeadTailProperties DEF Answer, IInv, TypeOK
    <2>2. CASE Grant(Head(toServer))
        BY <2>1, <2>2, Sayable, SaidInReply, SizeTypes DEF Grant
    <2>3. CASE Refuse
        BY <2>3, Sayable, SaidInReply DEF Refuse
    <2>4. CASE Forward(Head(toServer))
        <3>1. guest' # <<>>
            BY <2>1, <2>4, AppendProperties DEF Forward, IInv, TypeOK
        <3> QED
            BY <3>1 DEF WInv, WaitsForAReply, ForwardedIsFollowed
    <2> QED
        BY <1>1, <2>2, <2>3, <2>4 DEF Answer
<1>2. CASE GuestResizes
    <2>1. Head(guest) \in Sizes
        BY <1>2, HeadTailProperties, SizeTypes DEF GuestResizes, IInv, TypeOK
    <2>2. Tell(Layout(1, "success", Head(guest)))
        BY <1>2 DEF GuestResizes
    <2> QED
        BY <2>1, <2>2, Sayable, SaidInReply
<1>3. CASE SomebodyResizes
    <2>1. PICK s \in Sizes :
            Tell(IF server.can THEN Layout(2, "success", s) ELSE Resolution(s))
        BY <1>3 DEF SomebodyResizes
    <2>2. UNCHANGED <<session, toServer, guest>>
        BY <1>3 DEF SomebodyResizes
    <2> QED
        BY <2>1, <2>2, Sayable, SaidInPassing
<1>4. CASE FrameEnds
    BY <1>4, Sayable, SaidInPassing DEF FrameEnds
<1> QED
    BY <1>1, <1>2, <1>3, <1>4 DEF Server

LEMMA StepWaits ==
    ASSUME IInv, WInv, [Next]_vars, SizeTypes, LateReasons \subseteq {1}
    PROVE  WInv'
<1>1. CASE Receive
    BY <1>1, ReceiveWaits
<1>2. CASE ApplyMetrics
    BY <1>2, ApplyKeeps DEF ApplyMetrics, WInv, WaitsForAReply, ForwardedIsFollowed,
                            Replies
<1>3. CASE Command
    BY <1>3, CommandKeeps DEF Command, WInv, WaitsForAReply, ForwardedIsFollowed,
                              Replies
<1>4. CASE Server
    BY <1>4, ServerWaits
<1>5. CASE WindowChanges \/ Quiet \/ UNCHANGED vars
    BY <1>5 DEF WindowChanges, Quiet, vars, WInv, WaitsForAReply,
                ForwardedIsFollowed, Replies
<1> QED
    BY <1>1, <1>2, <1>3, <1>4, <1>5 DEF Next, Client

(* The session and its server keep in step: the picture is laid out for    *)
(* what the session knows, and while it holds back further requests a      *)
(* reply is on its way, if a server that forwards says so when it is done. *)
THEOREM InStep ==
    ASSUME LateReasons \subseteq {1}
    PROVE  Spec => []KeepsStep
<1>1. Init => WInv
    <2> SUFFICES ASSUME Init PROVE WInv
        OBVIOUS
    <2>1. session.resize = "probing"
        BY DEF Init
    <2>2. \A i \in DOMAIN toClient : toClient[i].status # "forwarded"
        BY Sayable, SizeTypes DEF Init
    <2> QED
        BY <2>1, <2>2 DEF WInv, WaitsForAReply, ForwardedIsFollowed
<1>2. IInv /\ WInv /\ [Next]_vars => WInv'
    BY StepWaits, SizeTypes
<1>3. IInv /\ WInv => KeepsStep
    BY DEF IInv, WInv, KeepsStep
<1> QED
    BY <1>1, <1>2, <1>3, Invariance, PTL DEF Spec
=============================================================================
