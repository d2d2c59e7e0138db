-------------------------- MODULE FrameWriterProofs -------------------------
(***************************************************************************)
(* For any number of frames, any set of bells and any room for buffers:    *)
(* the path to the terminal keeps the order, loses nothing short of the    *)
(* terminal, bounds its buffers, and is the bounded queue of FrameQueue.   *)
(*                                                                         *)
(* And with the shared memory its frames name, for any number of tiles,    *)
(* any budget and any list that holds at least one name: it is the same    *)
(* writer, no object of this process outlives its name, its bytes are      *)
(* counted, and none is taken from a terminal that needs it but for room.  *)
(***************************************************************************)
EXTENDS Shm, SequenceTheorems, FiniteSetTheorems, WellFoundedInduction, TLAPS

Frames == 1 .. MaxFrames

Filling == {"composing", "blocked", "refused"}

(* Where a frame can be: a thread that has ended holds none and leaves     *)
(* none queued, and only a thread that has ended is joined.                *)
Resting ==
    /\ thread = "ended" => queue = <<>>
    /\ session = "joined" => thread = "ended"

(* A frame in the making has a number, and a younger one than every frame  *)
(* accepted.                                                               *)
Younger ==
    /\ session \in Filling => composed \in Frames
    /\ \A i \in 1 .. Len(accepted) :
        /\ accepted[i] <= composed
        /\ session \in {"composing", "blocked"} => accepted[i] < composed

IInv == TypeOK /\ InOrder /\ Resting /\ Younger /\ BuffersBounded

LEMMA InitIInv == Init => IInv
  <1> SUFFICES ASSUME Init PROVE IInv
    OBVIOUS
  <1>1. <<>> \in Seq(Frames) /\ Len(<<>>) = 0
    BY EmptySeq
  <1>2. TypeOK
    BY <1>1, PoolAssumption, FramesAssumption DEF Init, TypeOK, Callers, Frames
  <1>3. InOrder
    BY <1>1, ConcatEmptySeq DEF Init, InOrder
  <1>4. Resting /\ Younger
    BY <1>1 DEF Init, Resting, Younger, Filling
  <1>5. BuffersBounded
    BY <1>1 DEF Init, BuffersBounded, Live
  <1>6. QED
    BY <1>2, <1>3, <1>4, <1>5 DEF IInv

(* A step that only moves the caller along, or the terminal, or counts.    *)
LEMMA QuietSteps ==
    ASSUME IInv,
           \/ TakeBuffer \/ SubmitFull \/ Recycle \/ SubmitClosed
           \/ SubmitBlocking \/ SendFails \/ Shutdown \/ Join \/ GraceElapses
           \/ TerminalChanges \/ UNCHANGED vars
    PROVE  IInv'
  <1> USE DEF IInv
  <1>1. UNCHANGED <<queue, inHand, accepted, shown, thread>>
    BY DEF TakeBuffer, SubmitFull, Recycle, SubmitClosed, SubmitBlocking,
           SendFails, Shutdown, Join, GraceElapses, TerminalChanges, vars
  <1>2. /\ Len(queue) \in Nat /\ Len(inHand) \in Nat
        /\ Len(queue) <= 1 /\ Len(inHand) <= 1
        /\ returned \in Nat
    BY LenProperties, PoolAssumption DEF TypeOK
  <1>3. /\ accepted \in [1 .. Len(accepted) -> Frames]
        /\ Len(accepted) \in Nat
    BY LenProperties DEF TypeOK, Frames
  <1>4. TypeOK'
    <2>1. session' \in Callers /\ sender' \in BOOLEAN
      BY DEF TypeOK, Callers, TakeBuffer, SubmitFull,
         Recycle, SubmitClosed, SubmitBlocking, SendFails, Shutdown, Join,
         GraceElapses, TerminalChanges, vars
    <2>2. composed' \in 0 .. MaxFrames
      BY FramesAssumption DEF TypeOK, TakeBuffer, SubmitFull,
         Recycle, SubmitClosed, SubmitBlocking, SendFails, Shutdown, Join,
         GraceElapses, TerminalChanges, vars
    <2>3. returned' \in 0 .. Pool
      BY <1>2, PoolAssumption DEF TypeOK, GiveBack, TakeBuffer, SubmitFull,
         Recycle, SubmitClosed, SubmitBlocking, SendFails, Shutdown, Join,
         GraceElapses, TerminalChanges, vars
    <2>4. terminal' \in {"draining", "stalled", "gone"} /\ dropped' \in Nat
      BY DEF TypeOK, TakeBuffer, SubmitFull, Recycle, SubmitClosed,
         SubmitBlocking, SendFails, Shutdown, Join, GraceElapses,
         TerminalChanges, vars
    <2>5. QED
      BY <1>1, <2>1, <2>2, <2>3, <2>4 DEF TypeOK
  <1>5. InOrder'
    BY <1>1 DEF InOrder, TakeBuffer, SubmitFull, Recycle,
           SubmitClosed, SubmitBlocking, SendFails, Shutdown, Join,
           GraceElapses, TerminalChanges, vars
  <1>6. Resting'
    BY <1>1 DEF Resting, TakeBuffer, SubmitFull, Recycle,
           SubmitClosed, SubmitBlocking, SendFails, Shutdown, Join,
           GraceElapses, TerminalChanges, vars
  <1>7. Younger'
    <2>1. /\ session' \in Filling => composed' \in Frames
          /\ composed \in Nat /\ composed' \in Nat
          /\ \/ composed' = composed + 1
             \/ /\ composed' = composed
                /\ session' \in {"composing", "blocked"} =>
                       session \in {"composing", "blocked"}
      BY FramesAssumption DEF Younger, Filling, Frames, TypeOK, TakeBuffer,
         SubmitFull, Recycle, SubmitClosed, SubmitBlocking, SendFails,
         Shutdown, Join, GraceElapses, TerminalChanges, vars
    <2>2. ASSUME NEW i \in 1 .. Len(accepted)
          PROVE  /\ accepted[i] <= composed'
                 /\ session' \in {"composing", "blocked"} =>
                        accepted[i] < composed'
      <3>1. accepted[i] \in Nat /\ accepted[i] <= composed
        BY <1>3 DEF Younger, Frames
      <3>2. session \in {"composing", "blocked"} => accepted[i] < composed
        BY DEF Younger
      <3>3. QED
        BY <2>1, <3>1, <3>2
    <2>3. QED
      BY <1>1, <2>1, <2>2 DEF Younger
  <1>8. BuffersBounded'
    BY <1>1, <1>2 DEF BuffersBounded, Live, TakeBuffer, SubmitFull, Recycle,
           SubmitClosed, SubmitBlocking, SendFails, Shutdown, Join,
           GraceElapses, TerminalChanges, vars, GiveBack
  <1>9. QED
    BY <1>4, <1>5, <1>6, <1>7, <1>8

(* Accepting a frame puts it behind everything on its way.                 *)
LEMMA EnqueueKeeps ==
    ASSUME IInv, SubmitOk \/ SendCompletes
    PROVE  IInv'
  <1>0. /\ Enqueue /\ session \in {"composing", "blocked"} /\ thread # "ended"
        /\ Len(queue) < 1 /\ session' = "idle"
        /\ UNCHANGED <<composed, sender, thread, inHand, returned, terminal,
                       shown, dropped>>
    BY DEF SubmitOk, SendCompletes
  <1>1. /\ accepted \in Seq(Frames) /\ shown \in Seq(Frames)
        /\ inHand \in Seq(Frames) /\ queue \in Seq(Frames)
        /\ accepted = (shown \o inHand) \o queue
    BY <1>0 DEF IInv, TypeOK, InOrder, Frames
  <1>2. queue = <<>> /\ Len(queue) = 0
    BY <1>0, <1>1, EmptySeq
  <1>3. composed \in Frames
    BY <1>0 DEF IInv, Younger, Filling
  <1>4. /\ queue' = Append(queue, composed) /\ queue' \in Seq(Frames)
        /\ Len(queue') = 1
    BY <1>0, <1>1, <1>2, <1>3, AppendProperties DEF Enqueue
  <1>5. /\ accepted' \in Seq(Frames) /\ Len(accepted) \in Nat
        /\ Len(accepted') = Len(accepted) + 1
        /\ \A i \in 1 .. Len(accepted) : accepted'[i] = accepted[i]
        /\ accepted'[Len(accepted) + 1] = composed
    BY <1>0, <1>1, <1>3, AppendProperties, LenProperties DEF Enqueue
  <1>6. TypeOK'
    BY <1>0, <1>4, <1>5 DEF IInv, TypeOK, Frames, Callers
  <1>7. InOrder'
    <2>1. shown \o inHand \in Seq(Frames)
      BY <1>1, ConcatProperties
    <2>2. <<composed>> \in Seq(Frames)
      BY <1>3
    <2>3. accepted' = ((shown \o inHand) \o queue) \o <<composed>>
      BY <1>0, <1>1, <1>3, AppendIsConcat DEF Enqueue
    <2>4. @ = (shown \o inHand) \o (queue \o <<composed>>)
      BY SMTT(20), <1>1, <2>1, <2>2, ConcatAssociative
    <2>5. @ = (shown \o inHand) \o queue'
      BY <1>1, <1>3, <1>4, AppendIsConcat
    <2>6. QED
      BY <1>0, <2>3, <2>4, <2>5 DEF InOrder
  <1>8. Resting'
    BY <1>0 DEF IInv, Resting
  <1>9. Younger'
    <2>1. ASSUME NEW i \in 1 .. Len(accepted')
          PROVE  accepted'[i] <= composed'
      <3>1. CASE i = Len(accepted) + 1
        BY <1>0, <1>3, <1>5, <3>1 DEF Frames
      <3>2. CASE i \in 1 .. Len(accepted)
        BY <1>0, <1>5, <3>2 DEF IInv, Younger
      <3>3. QED
        BY <1>5, <3>1, <3>2
    <2>2. QED
      BY <1>0, <2>1 DEF Younger, Filling
  <1>10. BuffersBounded'
    <2>1. Len(inHand) \in Nat /\ returned \in Nat
      BY <1>1, LenProperties DEF IInv, TypeOK
    <2>2. QED
      BY <1>0, <1>2, <1>4, <2>1 DEF IInv, BuffersBounded, Live
  <1>11. QED
    BY <1>6, <1>7, <1>8, <1>9, <1>10 DEF IInv

(* The thread takes the frame in the slot: what was queued is in hand.     *)
LEMMA ReceiveKeeps ==
    ASSUME IInv, Receive
    PROVE  IInv'
  <1>1. /\ shown \in Seq(Frames) /\ inHand \in Seq(Frames)
        /\ queue \in Seq(Frames) /\ Len(queue) <= 1 /\ Len(inHand) = 0
    BY DEF IInv, TypeOK, Receive, Frames
  <1>2. queue # <<>> /\ Len(queue) = 1
    BY <1>1, EmptySeq DEF Receive
  <1>3. inHand = <<>>
    BY <1>1, EmptySeq
  <1>4. /\ Head(queue) \in Frames /\ queue' \in Seq(Frames)
        /\ Len(queue') = 0
    BY <1>1, <1>2, HeadTailProperties DEF Receive
  <1>5. queue' = <<>>
    BY <1>4, EmptySeq
  <1>6. inHand' \in Seq(Frames) /\ Len(inHand') = 1 /\ inHand' = queue
    <2>1. inHand' = <<Head(queue)>>
      BY DEF Receive
    <2>2. inHand' \in Seq(Frames) /\ Len(inHand') = 1
      BY <1>4, <2>1
    <2>3. Head(queue) = queue[1]
      BY <1>1, <1>2
    <2>4. inHand' = queue
      BY <1>1, <1>2, <2>1, <2>2, <2>3, SeqEqual
    <2>5. QED
      BY <2>2, <2>4
  <1>7. TypeOK'
    BY <1>4, <1>6 DEF IInv, TypeOK, Receive, Frames
  <1>8. InOrder'
    <2>1. accepted = (shown \o inHand) \o queue
      BY DEF IInv, InOrder, Receive
    <2>2. accepted = shown \o queue
      BY <1>1, <1>3, <2>1, ConcatEmptySeq
    <2>3. (shown \o queue) \o <<>> = shown \o queue
      BY <1>1, ConcatProperties, ConcatEmptySeq
    <2>4. accepted' = (shown' \o inHand') \o queue'
      BY <1>5, <1>6, <2>2, <2>3 DEF Receive
    <2>5. QED
      BY <2>4 DEF InOrder
  <1>9. Resting' /\ Younger'
    BY DEF IInv, Resting, Younger, Filling, Receive
  <1>10. BuffersBounded'
    BY <1>1, <1>2, <1>4, <1>6 DEF IInv, TypeOK, BuffersBounded, Live, Receive
  <1>11. QED
    BY <1>7, <1>8, <1>9, <1>10 DEF IInv

(* The frame in hand is written out: it is the oldest one not yet shown.   *)
LEMMA WriteKeeps ==
    ASSUME IInv, WriteOk
    PROVE  IInv'
  <1>1. /\ shown \in Seq(Frames) /\ inHand \in Seq(Frames)
        /\ queue \in Seq(Frames) /\ Len(inHand) = 1
        /\ Len(queue) \in Nat
    BY LenProperties DEF IInv, TypeOK, WriteOk, Frames
  <1>2. shown' \in Seq(Frames)
    BY <1>1, ConcatProperties DEF WriteOk
  <1>3. inHand' \in Seq(Frames) /\ Len(inHand') = 0
    BY EmptySeq DEF WriteOk
  <1>4. TypeOK'
    BY <1>2, <1>3, PoolAssumption DEF IInv, TypeOK, WriteOk, GiveBack, Frames
  <1>5. InOrder'
    BY <1>1, <1>2, ConcatEmptySeq DEF IInv, InOrder, WriteOk
  <1>6. Resting' /\ Younger'
    BY DEF IInv, Resting, Younger, Filling, WriteOk
  <1>7. BuffersBounded'
    <2> DEFINE making ==
          IF session \in {"composing", "blocked", "refused"} THEN 1 ELSE 0
    <2>1. making \in Nat /\ making' = making /\ queue' = queue
      BY DEF WriteOk
    <2>2. /\ returned \in Nat /\ returned' \in Nat
          /\ returned' <= returned + 1
      BY PoolAssumption DEF IInv, TypeOK, WriteOk, GiveBack
    <2>3. Live = returned + Len(queue) + 1 + making
      BY <1>1 DEF Live
    <2>4. Live' = returned' + Len(queue) + 0 + making
      BY <1>3, <2>1 DEF Live
    <2> HIDE DEF making
    <2>5. QED
      BY <1>1, <2>1, <2>2, <2>3, <2>4 DEF IInv, BuffersBounded
  <1>8. QED
    BY <1>4, <1>5, <1>6, <1>7 DEF IInv

(* The thread ends, on a broken pipe or on a channel closed and drained.   *)
LEMMA EndKeeps ==
    ASSUME IInv, WriteFails \/ Disconnected
    PROVE  IInv'
  <1>1. /\ inHand \in Seq(Frames) /\ queue \in Seq(Frames)
        /\ Len(inHand) \in Nat /\ Len(queue) \in Nat /\ returned \in Nat
    BY LenProperties DEF IInv, TypeOK, Frames
  <1>2. queue' = <<>> /\ queue' \in Seq(Frames) /\ Len(queue') = 0
    BY EmptySeq DEF WriteFails, Disconnected
  <1>3. inHand' \in Seq(Frames) /\ Len(inHand') = 0
    BY <1>1, EmptySeq DEF IInv, TypeOK, WriteFails, Disconnected
  <1>4. TypeOK'
    BY <1>2, <1>3 DEF IInv, TypeOK, WriteFails, Disconnected, Frames
  <1>5. InOrder'
    BY DEF IInv, InOrder, WriteFails, Disconnected
  <1>6. Resting' /\ Younger'
    BY <1>2 DEF IInv, Resting, Younger, Filling, WriteFails, Disconnected
  <1>7. BuffersBounded'
    <2>1. session' = session /\ returned' = returned
      BY DEF WriteFails, Disconnected
    <2> DEFINE making ==
          IF session \in {"composing", "blocked", "refused"} THEN 1 ELSE 0
    <2>2. making \in Nat /\ making' = making
      BY <2>1
    <2>3. Live = returned + Len(queue) + Len(inHand) + making
      BY DEF Live
    <2>4. Live' = returned + 0 + 0 + making
      BY <1>2, <1>3, <2>1 DEF Live
    <2> HIDE DEF making
    <2>5. QED
      BY <1>1, <2>2, <2>3, <2>4 DEF IInv, BuffersBounded
  <1>8. QED
    BY <1>4, <1>5, <1>6, <1>7 DEF IInv

LEMMA NextIInv == IInv /\ [Next]_vars => IInv'
  <1> SUFFICES ASSUME IInv, [Next]_vars PROVE IInv'
    OBVIOUS
  <1>1. CASE SubmitOk \/ SendCompletes
    BY <1>1, EnqueueKeeps
  <1>2. CASE Receive
    BY <1>2, ReceiveKeeps
  <1>3. CASE WriteOk
    BY <1>3, WriteKeeps
  <1>4. CASE WriteFails \/ Disconnected
    BY <1>4, EndKeeps
  <1>5. CASE \/ TakeBuffer \/ SubmitFull \/ Recycle \/ SubmitClosed
             \/ SubmitBlocking \/ SendFails \/ Shutdown \/ Join \/ GraceElapses
             \/ TerminalChanges \/ UNCHANGED vars
    BY <1>5, QuietSteps
  <1>6. QED
    BY <1>1, <1>2, <1>3, <1>4, <1>5 DEF Next, Session, Submit, Teardown,
       Thread, Finished

LEMMA Inductive == Spec => []IInv
  BY InitIInv, NextIInv, PTL DEF Spec

(* Every frame number, the two sequences in flight and the histories stay  *)
(* what writer.rs makes them: one slot, one frame in hand.                 *)
THEOREM TypeCorrect == Spec => []TypeOK
  <1>1. IInv => TypeOK
    BY DEF IInv
  <1>2. QED
    BY Inductive, <1>1, PTL

(* Accepted frames reach the terminal in the order they were accepted,     *)
(* none twice and none passed over.                                        *)
THEOREM OrderKept == Spec => []InOrder
  <1>1. IInv => InOrder
    BY DEF IInv
  <1>2. QED
    BY Inductive, <1>1, PTL

(* A shutdown that joins the thread has flushed everything (shutdown's own *)
(* doc), unless the terminal went away.                                    *)
THEOREM JoinFlushes == Spec => []JoinedMeansFlushed
  <1>1. IInv => JoinedMeansFlushed
    <2> SUFFICES ASSUME IInv, session = "joined", terminal # "gone"
                 PROVE  shown = accepted
      BY DEF JoinedMeansFlushed
    <2>1. /\ shown \in Seq(Frames) /\ inHand \in Seq(Frames)
          /\ thread = "ended" /\ Len(inHand) = 0
      BY DEF IInv, TypeOK, Resting, Frames
    <2>2. inHand = <<>> /\ queue = <<>>
      BY <2>1, EmptySeq DEF IInv, Resting
    <2>3. accepted = (shown \o inHand) \o queue
      BY DEF IInv, InOrder
    <2>4. QED
      BY <2>1, <2>2, <2>3, ConcatEmptySeq
  <1>2. QED
    BY Inductive, <1>1, PTL

(* Never more than three buffers, whatever room the back channel has.      *)
THEOREM ThreeBuffers == Spec => []BuffersBounded
  <1>1. IInv => BuffersBounded
    BY DEF IInv
  <1>2. QED
    BY Inductive, <1>1, PTL

-----------------------------------------------------------------------------
(* The refinement: what each step is to the queue of FrameQueue.           *)
Broken == thread = "ended" /\ terminal = "gone"

(* Where the elements next to the joint of a concatenation are.            *)
LEMMA LastOfFirst ==
    ASSUME NEW S, NEW s \in Seq(S), NEW t \in Seq(S), Len(s) >= 1
    PROVE  (s \o t)[Len(s)] = s[Len(s)]
  <1>1. Len(s) \in Nat /\ Len(t) \in Nat
    BY LenProperties
  <1>2. Len(s) \in 1 .. Len(s) + Len(t)
    BY <1>1
  <1>3. \A i \in 1 .. Len(s) + Len(t) :
            (s \o t)[i] = IF i <= Len(s) THEN s[i] ELSE t[i - Len(s)]
    BY ConcatProperties
  <1>4. QED
    BY <1>1, <1>2, <1>3

LEMMA OneMore ==
    ASSUME NEW S, NEW s \in Seq(S), NEW t \in Seq(S), Len(t) = 1
    PROVE  /\ s \o t \in Seq(S)
           /\ Len(s \o t) = Len(s) + 1
           /\ (s \o t)[Len(s) + 1] = t[1]
  <1>1. Len(s) \in Nat
    BY LenProperties
  <1>2. /\ s \o t \in Seq(S)
        /\ Len(s \o t) = Len(s) + Len(t)
        /\ \A i \in 1 .. Len(s) + Len(t) :
            (s \o t)[i] = IF i <= Len(s) THEN s[i] ELSE t[i - Len(s)]
    BY ConcatProperties
  <1>3. /\ Len(s) + 1 \in 1 .. Len(s) + Len(t)
        /\ ~(Len(s) + 1 <= Len(s)) /\ Len(s) + 1 - Len(s) = 1
    BY <1>1
  <1>4. QED
    BY <1>2, <1>3

LEMMA AcceptStep ==
    ASSUME IInv, SubmitOk \/ SendCompletes
    PROVE  Abstract!Accept
  <1>0. /\ Enqueue /\ session \in {"composing", "blocked"} /\ thread # "ended"
        /\ Len(queue) < 1
        /\ UNCHANGED <<thread, terminal, shown, dropped>>
    BY DEF SubmitOk, SendCompletes
  <1>1. /\ accepted \in Seq(Frames) /\ shown \in Seq(Frames)
        /\ inHand \in Seq(Frames) /\ queue \in Seq(Frames)
        /\ accepted = (shown \o inHand) \o queue
        /\ Len(inHand) <= 1
    BY <1>0 DEF IInv, TypeOK, InOrder, Frames
  <1>2. Abstract!Lag <= 1
    <2>1. Len(queue) = 0 /\ Len(shown) \in Nat /\ Len(inHand) \in Nat
      BY <1>0, <1>1, LenProperties
    <2>2. /\ shown \o inHand \in Seq(Frames)
          /\ Len(shown \o inHand) = Len(shown) + Len(inHand)
      BY <1>1, ConcatProperties
    <2>3. Len(accepted) = Len(shown \o inHand) + Len(queue)
      BY <1>1, <2>2, ConcatProperties
    <2>4. QED
      BY <1>1, <2>1, <2>2, <2>3 DEF Abstract!Lag
  <1>3. /\ composed \in Frames
        /\ \A i \in DOMAIN accepted : accepted[i] < composed
    <2>1. DOMAIN accepted = 1 .. Len(accepted)
      BY <1>1, LenProperties
    <2>2. QED
      BY <1>0, <2>1 DEF IInv, Younger, Filling
  <1>4. accepted' = Append(accepted, composed)
    BY <1>0 DEF Enqueue
  <1>5. ~Broken /\ ~Broken'
    BY <1>0 DEF Broken
  <1>6. QED
    BY <1>0, <1>2, <1>3, <1>4, <1>5 DEF Abstract!Accept, Broken, Frames

LEMMA RefuseStep ==
    ASSUME IInv, SubmitFull
    PROVE  Abstract!Refuse
  <1>1. /\ accepted \in Seq(Frames) /\ shown \in Seq(Frames)
        /\ inHand \in Seq(Frames) /\ queue \in Seq(Frames)
        /\ accepted = (shown \o inHand) \o queue
        /\ Len(queue) = 1
    BY DEF IInv, TypeOK, InOrder, Frames, SubmitFull
  <1>2. /\ shown \o inHand \in Seq(Frames)
        /\ Len(shown \o inHand) = Len(shown) + Len(inHand)
        /\ Len(shown) \in Nat /\ Len(inHand) \in Nat
    BY <1>1, ConcatProperties, LenProperties
  <1>3. Len(accepted) = Len(shown \o inHand) + Len(queue)
    BY <1>1, <1>2, ConcatProperties
  <1>4. Abstract!Lag >= 1
    BY <1>1, <1>2, <1>3 DEF Abstract!Lag
  <1>5. QED
    BY <1>4 DEF Abstract!Refuse, SubmitFull

LEMMA ShowStep ==
    ASSUME IInv, WriteOk
    PROVE  Abstract!Show
  <1>1. /\ accepted \in Seq(Frames) /\ shown \in Seq(Frames)
        /\ inHand \in Seq(Frames) /\ queue \in Seq(Frames)
        /\ accepted = (shown \o inHand) \o queue
        /\ Len(inHand) = 1
    BY DEF IInv, TypeOK, InOrder, Frames, WriteOk
  <1>2. /\ shown \o inHand \in Seq(Frames)
        /\ Len(shown \o inHand) = Len(shown) + 1
        /\ (shown \o inHand)[Len(shown) + 1] = inHand[1]
        /\ Len(shown) \in Nat /\ Len(queue) \in Nat
    BY <1>1, OneMore, LenProperties
  <1>3. /\ Len(accepted) = Len(shown) + 1 + Len(queue)
        /\ accepted[Len(shown) + 1] = inHand[1]
    <2> DEFINE front == shown \o inHand
    <2>1. front \in Seq(Frames) /\ Len(front) = Len(shown) + 1
      BY <1>2
    <2>2. accepted = front \o queue
      BY <1>1
    <2> HIDE DEF front
    <2>3. Len(accepted) = Len(front) + Len(queue)
      BY <1>1, <2>1, <2>2, ConcatProperties
    <2>4. accepted[Len(front)] = front[Len(front)]
      BY <1>1, <1>2, <2>1, <2>2, LastOfFirst
    <2>5. QED
      BY <1>2, <2>1, <2>3, <2>4 DEF front
  <1>4. Abstract!Lag >= 1
    BY <1>2, <1>3 DEF Abstract!Lag
  <1>5. shown' = Append(shown, inHand[1])
    <2>1. inHand[1] \in Frames
      <3>1. 1 \in 1 .. Len(inHand)
        BY <1>1
      <3>2. QED
        BY <1>1, <3>1, ElementOfSeq
    <2>2. inHand = <<inHand[1]>>
      BY <1>1, <2>1, SeqEqual
    <2>3. QED
      BY <1>1, <2>1, <2>2, AppendIsConcat DEF WriteOk
  <1>6. ~Broken /\ ~Broken'
    BY DEF WriteOk, Broken
  <1>7. QED
    BY <1>3, <1>4, <1>5, <1>6 DEF Abstract!Show, WriteOk, Broken

LEMMA StepRefines ==
    ASSUME IInv, [Next]_vars
    PROVE  [Abstract!Next]_(Abstract!qvars)
  <1>1. CASE SubmitOk \/ SendCompletes
    BY <1>1, AcceptStep DEF Abstract!Next
  <1>2. CASE SubmitFull
    BY <1>2, RefuseStep DEF Abstract!Next
  <1>3. CASE WriteOk
    BY <1>3, ShowStep DEF Abstract!Next
  <1>4. CASE \/ TakeBuffer \/ Recycle \/ SubmitClosed \/ SubmitBlocking
             \/ SendFails \/ Shutdown \/ Join \/ GraceElapses \/ Receive
             \/ WriteFails \/ Disconnected \/ TerminalChanges
             \/ UNCHANGED vars
    <2>1. UNCHANGED <<accepted, shown, dropped>>
      BY <1>4 DEF TakeBuffer, Recycle, SubmitClosed, SubmitBlocking,
         SendFails, Shutdown, Join, GraceElapses, Receive, WriteFails,
         Disconnected, TerminalChanges, vars
    <2>2. Broken => Broken'
      BY <1>4 DEF TakeBuffer, Recycle, SubmitClosed, SubmitBlocking,
         SendFails, Shutdown, Join, GraceElapses, Receive, WriteFails,
         Disconnected, TerminalChanges, vars, Broken
    <2>3. CASE ~Broken /\ Broken'
      BY <2>1, <2>3 DEF Abstract!Next, Abstract!Break, Broken
    <2>4. CASE Broken <=> Broken'
      BY <2>1, <2>4 DEF Abstract!qvars, Broken
    <2>5. QED
      BY <2>2, <2>3, <2>4
  <1>5. QED
    BY <1>1, <1>2, <1>3, <1>4 DEF Next, Session, Submit, Teardown, Thread,
       Finished

(* The channel of one slot, the thread and the pty together are the bounded*)
(* queue that FrameQueue promises the loop: at most one frame waits behind *)
(* the one being written, and nothing accepted is lost short of the        *)
(* terminal.                                                               *)
THEOREM WriterIsAQueue == Spec => ImplementsQueue
  <1>1. Init => Abstract!Init
    <2> SUFFICES ASSUME Init PROVE Abstract!Init
      OBVIOUS
    <2>1. ~Broken
      BY DEF Init, Broken
    <2>2. QED
      BY <2>1 DEF Init, Abstract!Init, Broken
  <1>2. IInv /\ [Next]_vars => [Abstract!Next]_(Abstract!qvars)
    BY StepRefines
  <1>3. QED
    BY <1>1, <1>2, Inductive, PTL DEF Spec, ImplementsQueue, Abstract!Spec

-----------------------------------------------------------------------------
(* The objects the frames name.                                            *)
Entries == [name : Nat, len : Lens, aged : BOOLEAN]

(* The fields of a pool; what its bytes add up to is left open.            *)
IsPool(p) ==
    p \in [counter : Nat, pending : Seq(Entries),
           outstanding : {p.outstanding}, failed : {p.failed}]

Lists(p, n) == \E i \in DOMAIN p.pending : p.pending[i].name = n

ShmInv == IsPool(pool) /\ Listed

-----------------------------------------------------------------------------
(* The objects are carried along by the writer and change nothing of what  *)
(* it does: every behaviour of both is one of the writer.                  *)
THEOREM WriterInside == ShmSpec => Spec
  <1>1. ShmInit => Init
    BY DEF ShmInit
  <1>2. [ShmNext]_allVars => [Next]_vars
    BY DEF ShmNext, allVars, PlaceShm, PlaceFails, Written, Refused, Dropped,
           WriterOnly, Parse, Ages, Next, Session, Submit, Teardown, Thread
  <1>3. QED
    BY <1>1, <1>2, PTL DEF ShmSpec, Spec

(* So what is known of the writer is known of the two of them: a join has  *)
(* flushed everything, three buffers are enough, and it is a queue.        *)
THEOREM PathKept ==
    ShmSpec => []JoinedMeansFlushed /\ []BuffersBounded /\ ImplementsQueue
  BY WriterInside, JoinFlushes, ThreeBuffers, WriterIsAQueue, PTL

-----------------------------------------------------------------------------
(* The first of the numbers up to n that is in a set with n in it.         *)
LEMMA FirstOf ==
    ASSUME NEW n \in Nat, NEW T, n \in T
    PROVE  \E k \in 0 .. n : k \in T /\ \A j \in 0 .. k - 1 : j \notin T
  <1> DEFINE U == T \cap (0 .. n)
  <1>1. U \subseteq Nat /\ U # {}
    OBVIOUS
  <1>2. PICK k \in U : \A j \in U : ~(<<j, k>> \in OpToRel(<, Nat))
    BY <1>1, WFMin, NatLessThanWellFounded
  <1>3. \A j \in U : ~(j < k)
    BY <1>1, <1>2 DEF OpToRel
  <1>4. \A j \in 0 .. k - 1 : j \notin T
    BY <1>1, <1>3
  <1>5. QED
    BY <1>4

-----------------------------------------------------------------------------
(* What a set of entries, or of objects, adds up to.                       *)
Some(s) == CHOOSE x \in s : TRUE

Sized(s) == IsFiniteSet(s) /\ \A x \in s : x.len \in Nat

(* The sums of the sets in D, each from that of the set less one.          *)
Sums(g, D) == \A s \in D :
    g[s] = IF s = {} THEN 0 ELSE Some(s).len + g[s \ {Some(s)}]

UpTo(S, n) == {s \in SUBSET S : Cardinality(s) <= n}

LEMMA LessOne ==
    ASSUME NEW s, IsFiniteSet(s), NEW x \in s
    PROVE  /\ IsFiniteSet(s \ {x})
           /\ Cardinality(s \ {x}) = Cardinality(s) - 1
           /\ Cardinality(s) \in Nat /\ Cardinality(s \ {x}) \in Nat
  BY FS_RemoveElement, FS_CardinalityType

LEMMA AnyIsIn == ASSUME NEW s, s # {} PROVE Some(s) \in s
  BY DEF Some

LEMMA SubsetSized == ASSUME NEW S, Sized(S), NEW s \in SUBSET S PROVE Sized(s)
  BY FS_Subset DEF Sized

LEMMA SumsUpTo ==
    ASSUME NEW S, Sized(S), NEW n \in Nat
    PROVE  \E g \in [UpTo(S, n) -> Nat] : Sums(g, UpTo(S, n))
  <1> DEFINE Bad == {m \in Nat : ~ \E g \in [UpTo(S, m) -> Nat] : Sums(g, UpTo(S, m))}
  <1> SUFFICES ASSUME n \in Bad PROVE FALSE
    OBVIOUS
  <1>1. PICK m \in 0 .. n : m \in Bad /\ \A j \in 0 .. m - 1 : j \notin Bad
    <2> HIDE DEF Bad
    <2>1. QED
      BY FirstOf
  <1>2. CASE m = 0
    <2> DEFINE g == [s \in UpTo(S, 0) |-> 0]
    <2>1. \A s \in UpTo(S, 0) : s = {}
      <3>1. \A s \in UpTo(S, 0) : IsFiniteSet(s) /\ Cardinality(s) \in Nat /\ Cardinality(s) <= 0
        BY FS_Subset, FS_CardinalityType DEF UpTo, Sized
      <3>2. QED
        BY <3>1, FS_EmptySet
    <2>2. g \in [UpTo(S, 0) -> Nat] /\ Sums(g, UpTo(S, 0))
      BY <2>1 DEF Sums
    <2>3. QED
      BY <1>1, <1>2, <2>2
  <1>3. CASE m # 0
    <2>1. m - 1 \in Nat /\ m - 1 \notin Bad
      BY <1>1, <1>3
    <2>2. PICK g \in [UpTo(S, m - 1) -> Nat] : Sums(g, UpTo(S, m - 1))
      BY <2>1
    <2> DEFINE h == [s \in UpTo(S, m) |->
                        IF s = {} THEN 0 ELSE Some(s).len + g[s \ {Some(s)}]]
    <2>3. ASSUME NEW s \in UpTo(S, m), s # {}
          PROVE  /\ s \ {Some(s)} \in UpTo(S, m - 1) /\ s \ {Some(s)} \in UpTo(S, m)
                 /\ Some(s).len \in Nat
      <3>1. Some(s) \in s /\ s \in SUBSET S /\ Sized(s) /\ Cardinality(s) <= m
        BY <2>3, AnyIsIn, SubsetSized DEF UpTo
      <3>2. /\ Cardinality(s \ {Some(s)}) = Cardinality(s) - 1
            /\ Cardinality(s) \in Nat
        BY <3>1, LessOne DEF Sized
      <3>3. /\ Cardinality(s \ {Some(s)}) <= m - 1 /\ Cardinality(s \ {Some(s)}) <= m
        BY <3>1, <3>2
      <3>4. QED
        BY <3>1, <3>3 DEF UpTo, Sized
    <2>4. \A s \in UpTo(S, m - 1) : s \in UpTo(S, m)
      <3>1. \A s \in UpTo(S, m - 1) :
               s \in SUBSET S /\ Cardinality(s) <= m - 1 /\ Cardinality(s) \in Nat
        BY FS_Subset, FS_CardinalityType DEF UpTo, Sized
      <3>2. QED
        BY <3>1 DEF UpTo
    <2>5. h \in [UpTo(S, m) -> Nat]
      BY <2>2, <2>3
    <2>6. \A s \in UpTo(S, m - 1) : h[s] = g[s]
      BY <2>2, <2>4 DEF Sums
    <2>7. Sums(h, UpTo(S, m))
      BY <2>3, <2>6 DEF Sums
    <2>8. QED
      BY <1>1, <2>5, <2>7
  <1>4. QED
    BY <1>2, <1>3

LEMMA SumsExist ==
    ASSUME NEW S, Sized(S)
    PROVE  \E g \in [SUBSET S -> Nat] : Sums(g, SUBSET S)
  <1>1. Cardinality(S) \in Nat
    BY FS_CardinalityType DEF Sized
  <1>2. UpTo(S, Cardinality(S)) = SUBSET S
    BY FS_Subset DEF Sized, UpTo
  <1>3. \E g \in [UpTo(S, Cardinality(S)) -> Nat] : Sums(g, UpTo(S, Cardinality(S)))
    BY <1>1, SumsUpTo
  <1>4. QED
    BY <1>2, <1>3

(* They are the only ones, and those of a set are those of its supersets.  *)
LEMMA SumsAgree ==
    ASSUME NEW S, Sized(S), NEW g, Sums(g, SUBSET S),
           NEW T \in SUBSET S, NEW f, Sums(f, SUBSET T)
    PROVE  f[T] = g[T]
  <1> DEFINE Bad == {m \in Nat : \E s \in SUBSET T : Cardinality(s) = m /\ f[s] # g[s]}
  <1> SUFFICES ASSUME f[T] # g[T] PROVE FALSE
    OBVIOUS
  <1>1. \A s \in SUBSET T : IsFiniteSet(s) /\ Cardinality(s) \in Nat
    BY FS_Subset, FS_CardinalityType DEF Sized
  <1>2. Cardinality(T) \in Bad
    BY <1>1
  <1>3. PICK m \in Nat : m \in Bad /\ \A j \in 0 .. m - 1 : j \notin Bad
    <2> HIDE DEF Bad
    <2>1. QED
      BY <1>1, <1>2, FirstOf
  <1>4. PICK s \in SUBSET T : Cardinality(s) = m /\ f[s] # g[s]
    BY <1>3
  <1>5. s # {}
    BY <1>4 DEF Sums
  <1>6. Some(s) \in s /\ s \ {Some(s)} \in SUBSET T /\ Cardinality(s \ {Some(s)}) = m - 1
        /\ m - 1 \in Nat
    BY <1>1, <1>4, <1>5, AnyIsIn, LessOne
  <1>7. f[s \ {Some(s)}] = g[s \ {Some(s)}]
    BY <1>3, <1>6
  <1>8. QED
    BY <1>4, <1>5, <1>7 DEF Sums

LEMMA BytesAre ==
    ASSUME NEW S, Sized(S), NEW g, Sums(g, SUBSET S), NEW T \in SUBSET S
    PROVE  Bytes(T) = g[T]
  <1> DEFINE body(f, s) == IF s = {} THEN 0
                 ELSE (CHOOSE x \in s : TRUE).len + f[s \ {CHOOSE x \in s : TRUE}]
             f == CHOOSE h : h = [s \in SUBSET T |-> body(h, s)]
  <1>1. Bytes(T) = f[T]
    BY DEF Bytes, MapThenSumSet, MapThenFoldSet
  <1>2. \E h : h = [s \in SUBSET T |-> body(h, s)]
    <2>1. PICK h \in [SUBSET T -> Nat] : Sums(h, SUBSET T)
      BY SubsetSized, SumsExist
    <2>2. h = [s \in SUBSET T |-> body(h, s)]
      BY <2>1 DEF Sums, Some
    <2>3. QED
      BY <2>2
  <1>3. f = [s \in SUBSET T |-> body(f, s)]
    <2> HIDE DEF body
    <2>1. QED
      BY <1>2
  <1>4. Sums(f, SUBSET T)
    <2> HIDE DEF f
    <2>1. QED
      BY <1>3 DEF Sums, Some
  <1>5. QED
    <2> HIDE DEF f
    <2>1. QED
      BY <1>1, <1>4, SumsAgree

(* The sum of a set is that of the set less one of them, and that one's.   *)
LEMMA BytesOfLess ==
    ASSUME NEW S, Sized(S)
    PROVE  /\ Bytes(S) \in Nat
           /\ S = {} => Bytes(S) = 0
           /\ S # {} => /\ Some(S) \in S
                        /\ Bytes(S) = Some(S).len + Bytes(S \ {Some(S)})
  <1>1. PICK g \in [SUBSET S -> Nat] : Sums(g, SUBSET S)
    BY SumsExist
  <1>2. Bytes(S) = g[S]
    BY <1>1, BytesAre
  <1>3. CASE S # {}
    <2>1. Some(S) \in S
      BY <1>3, AnyIsIn
    <2>2. Bytes(S \ {Some(S)}) = g[S \ {Some(S)}]
      BY <1>1, BytesAre
    <2>3. QED
      BY <1>1, <1>2, <1>3, <2>1, <2>2 DEF Sums
  <1>4. CASE S = {}
    BY <1>1, <1>2, <1>4 DEF Sums
  <1>5. QED
    BY <1>1, <1>2, <1>3, <1>4

LEMMA BytesLess ==
    ASSUME NEW S, Sized(S), NEW x \in S
    PROVE  Bytes(S) = x.len + Bytes(S \ {x})
  <1> DEFINE Wrong(s) == \E y \in s : Bytes(s) # y.len + Bytes(s \ {y})
             Bad == {m \in Nat : \E s \in SUBSET S : Cardinality(s) = m /\ Wrong(s)}
  <1> SUFFICES ASSUME Wrong(S) PROVE FALSE
    OBVIOUS
  <1>1. \A s \in SUBSET S : Sized(s) /\ IsFiniteSet(s) /\ Cardinality(s) \in Nat
    BY SubsetSized, FS_CardinalityType DEF Sized
  <1>2. Cardinality(S) \in Bad
    BY <1>1
  <1>3. PICK m \in Nat : m \in Bad /\ \A j \in 0 .. m - 1 : j \notin Bad
    <2> HIDE DEF Bad
    <2>1. QED
      BY <1>1, <1>2, FirstOf
  <1>4. PICK s \in SUBSET S : Cardinality(s) = m /\ Wrong(s)
    BY <1>3
  <1>5. PICK y \in s : Bytes(s) # y.len + Bytes(s \ {y})
    BY <1>4
  <1> DEFINE a == Some(s)
  <1>6. a \in s /\ Bytes(s) = a.len + Bytes(s \ {a}) /\ a # y
    BY <1>1, <1>5, BytesOfLess
  <1> HIDE DEF a
  <1>7. ASSUME NEW b \in s PROVE ~Wrong(s \ {b})
    <2>1. /\ Cardinality(s \ {b}) = m - 1 /\ m - 1 \in Nat
          /\ s \ {b} \in SUBSET S
      BY <1>1, <1>4, LessOne
    <2>2. m - 1 \notin Bad
      BY <1>3, <2>1
    <2> HIDE DEF Wrong
    <2>3. QED
      BY <2>1, <2>2
  <1>8. Bytes(s \ {a}) = y.len + Bytes((s \ {a}) \ {y})
    BY <1>5, <1>6, <1>7
  <1>9. Bytes(s \ {y}) = a.len + Bytes((s \ {y}) \ {a})
    BY <1>5, <1>6, <1>7
  <1>10. (s \ {a}) \ {y} = (s \ {y}) \ {a}
    OBVIOUS
  <1>11. /\ a.len \in Nat /\ y.len \in Nat /\ Bytes((s \ {y}) \ {a}) \in Nat
    <2>1. Sized((s \ {y}) \ {a})
      BY <1>1
    <2>2. QED
      BY <1>5, <1>6, <2>1, BytesOfLess DEF Sized
  <1> DEFINE c == Bytes((s \ {y}) \ {a})
  <1>12. c \in Nat /\ Bytes(s \ {a}) = y.len + c /\ Bytes(s \ {y}) = a.len + c
    BY <1>8, <1>9, <1>10, <1>11
  <1> HIDE DEF c
  <1>13. QED
    BY <1>5, <1>6, <1>11, <1>12

LEMMA BytesMore ==
    ASSUME NEW S, Sized(S), NEW x, x \notin S, x.len \in Nat
    PROVE  /\ Sized(S \cup {x})
           /\ Bytes(S \cup {x}) = x.len + Bytes(S)
  <1>1. Sized(S \cup {x})
    BY FS_AddElement DEF Sized
  <1>2. (S \cup {x}) \ {x} = S
    OBVIOUS
  <1>3. QED
    BY <1>1, <1>2, BytesLess

(* Two sets with nothing in common add up to what the two do.              *)
LEMMA BytesOfBoth ==
    ASSUME NEW S, Sized(S), NEW T, Sized(T), S \cap T = {}
    PROVE  /\ Sized(S \cup T)
           /\ Bytes(S \cup T) = Bytes(S) + Bytes(T)
  <1> DEFINE Wrong(s) == Bytes(s \cup T) # Bytes(s) + Bytes(T)
             Bad == {m \in Nat : \E s \in SUBSET S : Cardinality(s) = m /\ Wrong(s)}
  <1>0. Sized(S \cup T)
    BY FS_Union DEF Sized
  <1> SUFFICES ASSUME Wrong(S) PROVE FALSE
    BY <1>0
  <1>1. \A s \in SUBSET S : /\ Sized(s) /\ IsFiniteSet(s) /\ Cardinality(s) \in Nat
                            /\ Sized(s \cup T)
    BY <1>0, SubsetSized, FS_CardinalityType DEF Sized
  <1>2. Cardinality(S) \in Bad
    BY <1>1
  <1>3. PICK m \in Nat : m \in Bad /\ \A j \in 0 .. m - 1 : j \notin Bad
    <2> HIDE DEF Bad
    <2>1. QED
      BY <1>1, <1>2, FirstOf
  <1>4. PICK s \in SUBSET S : Cardinality(s) = m /\ Wrong(s)
    BY <1>3
  <1>5. Bytes(T) \in Nat /\ Bytes({}) = 0
    BY FS_EmptySet, BytesOfLess DEF Sized
  <1>6. s # {}
    BY <1>4, <1>5
  <1> DEFINE a == Some(s)
  <1>7. a \in s /\ a \notin T /\ a.len \in Nat
    BY <1>1, <1>6, AnyIsIn DEF Sized
  <1> HIDE DEF a
  <1>8. Bytes(s) = a.len + Bytes(s \ {a})
    BY <1>1, <1>7, BytesLess
  <1>9. Bytes(s \cup T) = a.len + Bytes((s \ {a}) \cup T)
    <2>1. (s \cup T) \ {a} = (s \ {a}) \cup T
      BY <1>7
    <2>2. QED
      BY <1>1, <1>7, <2>1, BytesLess
  <1>10. Bytes((s \ {a}) \cup T) = Bytes(s \ {a}) + Bytes(T)
    <2>1. /\ Cardinality(s \ {a}) = m - 1 /\ m - 1 \in Nat
          /\ s \ {a} \in SUBSET S
      BY <1>1, <1>4, <1>7, LessOne
    <2>2. m - 1 \notin Bad
      <3> HIDE DEF Bad
      <3>1. m - 1 \in 0 .. m - 1
        BY <2>1
      <3>2. QED
        BY <1>3, <3>1
    <2>3. QED
      BY <2>1, <2>2
  <1>11. Bytes(s \ {a}) \in Nat
    BY <1>1, BytesOfLess
  <1>12. QED
    BY <1>4, <1>5, <1>7, <1>8, <1>9, <1>10, <1>11

LEMMA BytesGrow ==
    ASSUME NEW T, Sized(T), NEW S \in SUBSET T
    PROVE  Bytes(S) <= Bytes(T)
  <1>1. /\ Sized(S) /\ Sized(T \ S) /\ S \cap (T \ S) = {} /\ S \cup (T \ S) = T
    BY SubsetSized
  <1>2. Bytes(T) = Bytes(S) + Bytes(T \ S)
    BY <1>1, BytesOfBoth
  <1>3. Bytes(S) \in Nat /\ Bytes(T \ S) \in Nat
    BY <1>1, BytesOfLess
  <1>4. QED
    BY <1>2, <1>3

-----------------------------------------------------------------------------
(* What is forgotten is the k oldest; the others move down.                *)
LEMMA Forgetting ==
    ASSUME NEW p, IsPool(p), NEW k \in 0 .. Len(p.pending)
    PROVE  /\ IsPool(Forgotten(p, k))
           /\ \A i \in k + 1 .. Len(p.pending) :
                 Lists(Forgotten(p, k), p.pending[i].name)
           /\ Forgotten(p, k).counter = p.counter
  <1> DEFINE s == p.pending
             t == SubSeq(s, k + 1, Len(s))
  <1>1. s \in Seq(Entries) /\ Len(s) \in Nat /\ \A i \in 1 .. Len(s) : s[i] \in Entries
    BY LenProperties, ElementOfSeq DEF IsPool
  <1>2. /\ t \in Seq(Entries)
        /\ Len(t) = Len(s) - k
        /\ \A i \in 1 .. Len(s) - k : t[i] = s[k + i]
    BY <1>1, SubSeqProperties
  <1>3. /\ Forgotten(p, k).pending = t
        /\ Forgotten(p, k).counter = p.counter
        /\ IsPool(Forgotten(p, k))
    <2> DEFINE b == p.outstanding - Bytes({s[i] : i \in 1 .. k})
    <2>1. Forgotten(p, k) = [p EXCEPT !.pending = t, !.outstanding = b]
      BY DEF Forgotten
    <2> HIDE DEF b, t
    <2>2. /\ Forgotten(p, k).pending = t
          /\ Forgotten(p, k).counter = p.counter
          /\ Forgotten(p, k) \in [counter : Nat, pending : Seq(Entries),
                                  outstanding : {b}, failed : {p.failed}]
      BY <1>2, <2>1 DEF IsPool
    <2>3. QED
      BY <2>2 DEF IsPool
  <1>4. ASSUME NEW i \in k + 1 .. Len(s)
        PROVE  Lists(Forgotten(p, k), s[i].name)
    <2>1. i - k \in 1 .. Len(s) - k /\ t[i - k] = s[i]
      BY <1>1, <1>2
    <2>2. i - k \in DOMAIN t
      BY <1>2, <2>1
    <2>3. QED
      BY <1>3, <2>1, <2>2 DEF Lists
  <1>5. QED
    BY <1>3, <1>4

LEMMA StillListed ==
    ASSUME NEW p, IsPool(p), NEW k \in 0 .. Len(p.pending),
           NEW n, Lists(p, n), n \notin Taken(p, k)
    PROVE  Lists(Forgotten(p, k), n)
  <1>1. PICK i \in 1 .. Len(p.pending) : p.pending[i].name = n
    BY DEF Lists, IsPool
  <1>2. i \in k + 1 .. Len(p.pending)
    BY <1>1, LenProperties DEF Taken, IsPool
  <1>3. QED
    BY <1>1, <1>2, Forgetting

(* A list of names goes up to the counter, each once.                      *)
Rising(p) ==
    \A i \in 1 .. Len(p.pending) :
        /\ p.pending[i].name <= p.counter
        /\ \A j \in 1 .. i - 1 : p.pending[j].name < p.pending[i].name

(* The k oldest on it, and the others.                                     *)
Oldest(p, k) == {p.pending[i] : i \in 1 .. k}
Newest(p, k) == {p.pending[i] : i \in k + 1 .. Len(p.pending)}

Counts(p) == p.outstanding = Bytes(ToSet(p.pending))

LEMMA PendingIs ==
    ASSUME NEW p, IsPool(p)
    PROVE  /\ p.pending \in Seq(Entries) /\ Len(p.pending) \in Nat
           /\ DOMAIN p.pending = 1 .. Len(p.pending)
           /\ \A i \in 1 .. Len(p.pending) :
                 /\ p.pending[i] \in Entries
                 /\ p.pending[i].name \in Nat /\ p.pending[i].len \in Nat
           /\ p.counter \in Nat
  <1>1. p.pending \in Seq(Entries) /\ p.counter \in Nat
    BY DEF IsPool
  <1>2. Len(p.pending) \in Nat /\ DOMAIN p.pending = 1 .. Len(p.pending)
    BY <1>1, LenProperties
  <1>3. \A i \in 1 .. Len(p.pending) : p.pending[i] \in Entries
    BY <1>1, ElementOfSeq
  <1>4. QED
    BY <1>1, <1>2, <1>3, ShmConstants DEF Entries

LEMMA PendingSized ==
    ASSUME NEW p, IsPool(p), NEW S \in SUBSET ToSet(p.pending)
    PROVE  Sized(S)
  <1> DEFINE s == p.pending
  <1>1. s \in Surjection(1 .. Len(s), ToSet(s))
    BY PendingIs DEF Surjection, ToSet
  <1>2. IsFiniteSet(1 .. Len(s))
    <2>1. 1 \in Int /\ Len(s) \in Int
      BY PendingIs
    <2> HIDE DEF s
    <2>2. QED
      BY <2>1, FS_Interval
  <1>3. IsFiniteSet(ToSet(s))
    BY <1>1, <1>2, FS_Surjection
  <1>4. \A x \in ToSet(s) : x.len \in Nat
    BY PendingIs DEF ToSet
  <1>5. QED
    BY <1>3, <1>4, FS_Subset DEF Sized

(* What is left when the k oldest are forgotten.                           *)
LEMMA Rest ==
    ASSUME NEW p, IsPool(p), NEW k \in 0 .. Len(p.pending)
    PROVE  /\ IsPool(Forgotten(p, k))
           /\ Forgotten(p, k).counter = p.counter
           /\ Forgotten(p, k).failed = p.failed
           /\ Forgotten(p, k).outstanding = p.outstanding - Bytes(Oldest(p, k))
           /\ Len(Forgotten(p, k).pending) = Len(p.pending) - k
           /\ \A i \in 1 .. Len(p.pending) - k : Forgotten(p, k).pending[i] = p.pending[k + i]
           /\ ToSet(Forgotten(p, k).pending) = Newest(p, k)
  <1> DEFINE s == p.pending
             t == SubSeq(s, k + 1, Len(s))
             b == p.outstanding - Bytes(Oldest(p, k))
  <1>1. /\ t \in Seq(Entries)
        /\ Len(t) = Len(s) - k
        /\ \A i \in 1 .. Len(s) - k : t[i] = s[k + i]
    BY PendingIs, SubSeqProperties
  <1>2. /\ Forgotten(p, k).pending = t
        /\ Forgotten(p, k).outstanding = b
        /\ Forgotten(p, k).failed = p.failed
    <2>1. Forgotten(p, k) = [p EXCEPT !.pending = t, !.outstanding = b]
      BY DEF Forgotten, Oldest
    <2> HIDE DEF b, t
    <2>2. QED
      BY <2>1 DEF IsPool
  <1>3. ToSet(t) = Newest(p, k)
    <2>1. DOMAIN t = 1 .. Len(s) - k
      BY <1>1, LenProperties
    <2>2. ASSUME NEW i \in k + 1 .. Len(s) PROVE s[i] \in ToSet(t)
      <3>1. i - k \in 1 .. Len(s) - k /\ t[i - k] = s[i]
        BY <1>1, PendingIs
      <3>2. QED
        BY <2>1, <3>1 DEF ToSet
    <2>3. ASSUME NEW x \in ToSet(t) PROVE x \in {s[i] : i \in k + 1 .. Len(s)}
      <3>1. PICK i \in 1 .. Len(s) - k : x = t[i]
        BY <2>1, <2>3 DEF ToSet
      <3>2. k + i \in k + 1 .. Len(s) /\ x = s[k + i]
        BY <1>1, <3>1, PendingIs
      <3>3. QED
        BY <3>2
    <2>4. QED
      BY <2>2, <2>3 DEF Newest
  <1>4. QED
    BY <1>1, <1>2, <1>3, Forgetting

LEMMA ForgettingCounts ==
    ASSUME NEW p, IsPool(p), Rising(p), NEW k \in 0 .. Len(p.pending)
    PROVE  /\ Rising(Forgotten(p, k))
           /\ Counts(p) => Counts(Forgotten(p, k))
           /\ Counts(p) => Forgotten(p, k).outstanding
                              = Bytes(Newest(p, k))
  <1> DEFINE s == p.pending
             gone == Oldest(p, k)
             left == Newest(p, k)
  <1>1. Rising(Forgotten(p, k))
    <2> SUFFICES ASSUME NEW i \in 1 .. Len(s) - k
                 PROVE  /\ Forgotten(p, k).pending[i].name <= p.counter
                        /\ \A j \in 1 .. i - 1 :
                              Forgotten(p, k).pending[j].name < Forgotten(p, k).pending[i].name
      BY Rest DEF Rising
    <2> DEFINE t == Forgotten(p, k).pending
    <2>1. /\ k + i \in 1 .. Len(s)
          /\ \A j \in 1 .. i - 1 : k + j \in 1 .. k + i - 1 /\ j \in 1 .. Len(s) - k
      BY PendingIs
    <2>2. \A j \in 1 .. Len(s) - k : t[j] = s[k + j]
      BY Rest
    <2> HIDE DEF t
    <2>3. t[i] = s[k + i] /\ s[k + i].name <= p.counter
      BY <2>1, <2>2 DEF Rising
    <2>4. ASSUME NEW j \in 1 .. i - 1 PROVE t[j].name < t[i].name
      <3>1. t[j] = s[k + j] /\ s[k + j].name < s[k + i].name
        BY <2>1, <2>2 DEF Rising
      <3>2. QED
        BY <2>3, <3>1
    <2>5. QED
      BY <2>3, <2>4 DEF t
  <1>2. gone \cup left = ToSet(s)
    BY PendingIs DEF ToSet, Oldest, Newest
  <1>3. gone \cap left = {}
    <2> SUFFICES ASSUME NEW i \in 1 .. k, NEW j \in k + 1 .. Len(s), s[i] = s[j] PROVE FALSE
      BY DEF Oldest, Newest
    <2>1. j \in 1 .. Len(s) /\ i \in 1 .. j - 1 /\ i \in 1 .. Len(s)
      BY PendingIs
    <2>2. s[i].name < s[j].name
      BY <2>1 DEF Rising
    <2>3. s[i].name \in Nat
      BY <2>1, PendingIs
    <2>4. QED
      BY <2>2, <2>3
  <1>4. Sized(gone) /\ Sized(left)
    BY <1>2, PendingSized
  <1>5. Bytes(ToSet(s)) = Bytes(gone) + Bytes(left)
    BY <1>2, <1>3, <1>4, BytesOfBoth
  <1>6. Bytes(gone) \in Nat /\ Bytes(left) \in Nat
    BY <1>4, BytesOfLess
  <1> DEFINE g == Bytes(gone)
             l == Bytes(left)
  <1>7. /\ Forgotten(p, k).outstanding = p.outstanding - g
        /\ ToSet(Forgotten(p, k).pending) = left
        /\ Bytes(ToSet(s)) = g + l
        /\ g \in Nat /\ l \in Nat
    <2>1. Bytes(ToSet(s)) = g + l /\ g \in Nat /\ l \in Nat
      BY Zenon, <1>5, <1>6
    <2>2. Forgotten(p, k).outstanding = p.outstanding - g
      BY Rest
    <2>3. ToSet(Forgotten(p, k).pending) = left
      BY Rest
    <2>4. QED
      BY Zenon, <2>1, <2>2, <2>3
  <1> HIDE DEF g
  <1>8. ASSUME Counts(p) PROVE Forgotten(p, k).outstanding = l
    <2> HIDE DEF l
    <2>1. QED
      BY <1>7, <1>8 DEF Counts
  <1>9. QED
    BY <1>1, <1>7, <1>8 DEF Counts

-----------------------------------------------------------------------------
(* How many names are swept is at least none and at most all.              *)
LEMMA GoneIsIn ==
    ASSUME NEW p, IsPool(p)
    PROVE  /\ GoneFirst(p) \in 0 .. Len(p.pending)
           /\ \A j \in 0 .. GoneFirst(p) - 1 : ~Exists(p.pending[j + 1].name)
  <1> DEFINE T == {k \in 0 .. Len(p.pending) :
                      k = Len(p.pending) \/ Exists(p.pending[k + 1].name)}
  <1>1. Len(p.pending) \in Nat
    BY LenProperties DEF IsPool
  <1>2. PICK k \in 0 .. Len(p.pending) : k \in T /\ \A j \in 0 .. k - 1 : j \notin T
    <2>1. Len(p.pending) \in T
      BY <1>1
    <2> HIDE DEF T
    <2>2. QED
      BY <1>1, <2>1, FirstOf
  <1>3. \E m \in 0 .. Len(p.pending) :
            /\ m = Len(p.pending) \/ Exists(p.pending[m + 1].name)
            /\ \A j \in 0 .. m - 1 :
                  ~(j = Len(p.pending) \/ Exists(p.pending[j + 1].name))
    <2>1. \A j \in 0 .. k - 1 : j \in 0 .. Len(p.pending)
      BY <1>1
    <2>2. \A j \in 0 .. k - 1 :
              ~(j = Len(p.pending) \/ Exists(p.pending[j + 1].name))
      BY <1>2, <2>1
    <2>3. QED
      BY <1>2, <2>2
  <1>4. QED
    BY <1>3 DEF GoneFirst, Fewest

(* The sweep forgets no name that is still there.                          *)
LEMMA Sweeping ==
    ASSUME NEW p, IsPool(p)
    PROVE  /\ IsPool(Swept(p))
           /\ \A n : Lists(p, n) /\ Exists(n) => Lists(Swept(p), n)
  <1>1. /\ Len(p.pending) \in Nat
        /\ GoneFirst(p) \in 0 .. Len(p.pending)
        /\ \A j \in 0 .. GoneFirst(p) - 1 : ~Exists(p.pending[j + 1].name)
    BY GoneIsIn, LenProperties DEF IsPool
  <1>2. ASSUME NEW n, Exists(n) PROVE n \notin Taken(p, GoneFirst(p))
    <2>1. \A i \in 1 .. GoneFirst(p) :
              i - 1 \in 0 .. GoneFirst(p) - 1 /\ ~Exists(p.pending[i].name)
      BY <1>1
    <2>2. QED
      BY <1>2, <2>1 DEF Taken
  <1>3. QED
    BY <1>1, <1>2, Forgetting, StillListed DEF Swept

(* The memory and the backstop take a name only past the budget, counting  *)
(* from it on, or past its age.                                            *)
LEMMA DueIs ==
    ASSUME NEW p, IsPool(p)
    PROVE  /\ DueFirst(p) \in 0 .. Len(p.pending)
           /\ \A i \in 1 .. DueFirst(p) :
                 ~(Forgotten(p, i - 1).outstanding <= Budget) \/ p.pending[i].aged
  <1> DEFINE Enough(k) == \/ k = Len(p.pending)
                          \/ /\ Forgotten(p, k).outstanding <= Budget
                             /\ ~p.pending[k + 1].aged
             T == {k \in 0 .. Len(p.pending) : Enough(k)}
  <1>1. Len(p.pending) \in Nat
    BY LenProperties DEF IsPool
  <1>2. PICK k \in 0 .. Len(p.pending) : k \in T /\ \A j \in 0 .. k - 1 : j \notin T
    <2>1. Len(p.pending) \in T
      BY <1>1
    <2> HIDE DEF T
    <2>2. QED
      BY <1>1, <2>1, FirstOf
  <1>3. \E m \in 0 .. Len(p.pending) : Enough(m) /\ \A j \in 0 .. m - 1 : ~Enough(j)
    <2>1. \A j \in 0 .. k - 1 : j \in 0 .. Len(p.pending)
      BY <1>1
    <2> HIDE DEF Enough
    <2>2. Enough(k) /\ \A j \in 0 .. k - 1 : ~Enough(j)
      BY <1>2, <2>1
    <2>3. QED
      BY <2>2
  <1>4. /\ DueFirst(p) \in 0 .. Len(p.pending)
        /\ \A j \in 0 .. DueFirst(p) - 1 : ~Enough(j)
    BY <1>3 DEF DueFirst, Fewest
  <1>5. ASSUME NEW i \in 1 .. DueFirst(p)
        PROVE  ~(Forgotten(p, i - 1).outstanding <= Budget) \/ p.pending[i].aged
    <2>1. i - 1 \in 0 .. DueFirst(p) - 1 /\ i \in 1 .. Len(p.pending) /\ (i - 1) + 1 = i
      BY <1>1, <1>4
    <2>2. ~Enough(i - 1)
      BY <1>4, <2>1
    <2>3. QED
      BY <2>1, <2>2
  <1>6. QED
    BY <1>4, <1>5

LEMMA OverIsIn ==
    ASSUME NEW p, IsPool(p)
    PROVE  /\ OverFirst(p) \in 0 .. Len(p.pending)
           /\ Len(p.pending) # 0 => OverFirst(p) < Len(p.pending)
           /\ OverFirst(p) # 0 => Len(p.pending) > MaxPending
  <1>1. Len(p.pending) \in Nat
    BY PendingIs
  <1>2. QED
    BY SMTT(20), <1>1, ShmConstants DEF OverFirst

-----------------------------------------------------------------------------
(* A new name at the end of the list.                                      *)
Adds(p, name, len) ==
    [p EXCEPT !.counter = name, !.pending = Append(@, Entry(name, len)),
              !.outstanding = @ + len]

(* What that makes of the list.                                            *)
OneLonger(q, p, name, len) ==
    /\ IsPool(q)
    /\ q.counter = name
    /\ Len(q.pending) = Len(p.pending) + 1
    /\ \A i \in 1 .. Len(p.pending) : q.pending[i] = p.pending[i]
    /\ q.pending[Len(p.pending) + 1] = Entry(name, len)
    /\ ToSet(q.pending) = ToSet(p.pending) \cup {Entry(name, len)}
    /\ q.outstanding = p.outstanding + len

LEMMA Adding ==
    ASSUME NEW p, IsPool(p), NEW name \in Nat, NEW len \in Lens
    PROVE  OneLonger(Adds(p, name, len), p, name, len)
  <1> DEFINE s == p.pending
             e == Entry(name, len)
             t == Append(s, e)
             b == p.outstanding + len
             q == Adds(p, name, len)
  <1>1. e \in Entries
    BY DEF Entry, Entries
  <1>2. /\ t \in Seq(Entries)
        /\ Len(t) = Len(s) + 1
        /\ \A i \in 1 .. Len(s) : t[i] = s[i]
        /\ t[Len(s) + 1] = e
        /\ Len(s) \in Nat /\ DOMAIN s = 1 .. Len(s)
    <2>1. s \in Seq(Entries) /\ Len(s) \in Nat /\ DOMAIN s = 1 .. Len(s)
      BY PendingIs
    <2> HIDE DEF s, e
    <2>2. QED
      BY <1>1, <2>1, AppendProperties
  <1>3. q = [p EXCEPT !.counter = name, !.pending = t, !.outstanding = b]
    BY DEF Adds
  <1>4. /\ IsPool(q) /\ q.pending = t /\ q.counter = name /\ q.outstanding = b
    <2> HIDE DEF t, b, q
    <2>1. /\ q.pending = t /\ q.counter = name /\ q.outstanding = b
          /\ q \in [counter : Nat, pending : Seq(Entries), outstanding : {b}, failed : {p.failed}]
      BY <1>2, <1>3 DEF IsPool
    <2>2. QED
      BY <2>1 DEF IsPool
  <1>5. ToSet(t) = ToSet(s) \cup {e}
    <2>1. DOMAIN t = 1 .. Len(s) + 1
      BY <1>2, LenProperties
    <2>2. QED
      BY <1>2, <2>1 DEF ToSet
  <1>6. QED
    BY <1>2, <1>4, <1>5 DEF OneLonger

LEMMA AddingCounts ==
    ASSUME NEW p, IsPool(p), Rising(p), NEW name \in Nat, p.counter < name,
           NEW len \in Lens
    PROVE  /\ Rising(Adds(p, name, len))
           /\ Counts(p) => Counts(Adds(p, name, len))
  <1> DEFINE q == Adds(p, name, len)
             e == Entry(name, len)
  <1>1. /\ IsPool(q) /\ q.counter = name /\ Len(q.pending) = Len(p.pending) + 1
        /\ \A i \in 1 .. Len(p.pending) : q.pending[i] = p.pending[i]
        /\ q.pending[Len(p.pending) + 1] = e
        /\ ToSet(q.pending) = ToSet(p.pending) \cup {e}
        /\ q.outstanding = p.outstanding + len
    <2>1. OneLonger(q, p, name, len)
      BY Adding
    <2> HIDE DEF q
    <2>2. QED
      BY <2>1 DEF OneLonger
  <1>2. Len(p.pending) \in Nat /\ p.counter \in Nat
        /\ \A i \in 1 .. Len(p.pending) :
              p.pending[i].name \in Nat /\ p.pending[i].name < name
    BY PendingIs DEF Rising
  <1>3. e.name = name /\ e.len = len /\ len \in Nat
    BY ShmConstants DEF Entry
  <1>4. Rising(q)
    <2> SUFFICES ASSUME NEW i \in 1 .. Len(p.pending) + 1
                 PROVE  /\ q.pending[i].name <= name
                        /\ \A j \in 1 .. i - 1 : q.pending[j].name < q.pending[i].name
      BY <1>1 DEF Rising
    <2> HIDE DEF q, e
    <2>1. CASE i = Len(p.pending) + 1
      <3>1. q.pending[i].name = name
        BY <1>1, <1>3, <2>1
      <3>2. ASSUME NEW j \in 1 .. i - 1 PROVE q.pending[j].name < name
        <4>1. j \in 1 .. Len(p.pending)
          BY <1>2, <2>1
        <4>2. QED
          BY <1>1, <1>2, <4>1
      <3>3. QED
        BY <3>1, <3>2
    <2>2. CASE i \in 1 .. Len(p.pending)
      <3>1. q.pending[i] = p.pending[i] /\ q.pending[i].name <= name
        BY <1>1, <1>2, <2>2
      <3>2. ASSUME NEW j \in 1 .. i - 1 PROVE q.pending[j].name < q.pending[i].name
        <4>1. j \in 1 .. Len(p.pending) /\ q.pending[j] = p.pending[j]
          BY <1>1, <1>2, <2>2
        <4>2. p.pending[j].name < p.pending[i].name
          BY <2>2 DEF Rising
        <4>3. QED
          BY <3>1, <4>1, <4>2
      <3>3. QED
        BY <3>1, <3>2
    <2>3. QED
      BY <1>2, <2>1, <2>2
  <1>5. e \notin ToSet(p.pending)
    BY <1>2, <1>3, PendingIs DEF ToSet
  <1>6. Sized(ToSet(p.pending))
    BY PendingSized
  <1>7. Bytes(ToSet(q.pending)) = len + Bytes(ToSet(p.pending))
    <2> HIDE DEF e, q
    <2>1. QED
      BY <1>1, <1>3, <1>5, <1>6, BytesMore
  <1>8. Bytes(ToSet(p.pending)) \in Nat
    BY <1>6, BytesOfLess
  <1>9. ASSUME Counts(p) PROVE Counts(q)
    <2> DEFINE c == Bytes(ToSet(p.pending))
    <2>1. c \in Nat /\ p.outstanding = c /\ q.outstanding = c + len
          /\ Bytes(ToSet(q.pending)) = len + c
      BY <1>1, <1>7, <1>8, <1>9 DEF Counts
    <2> HIDE DEF c, q
    <2>2. QED
      BY <1>3, <2>1 DEF Counts
  <1>10. QED
    BY <1>4, <1>9

-----------------------------------------------------------------------------
(* The list that there is room in, the list with the tile on it, and what  *)
(* is taken for the one and for the other.                                 *)
Due == DueFirst(Swept(pool))
Roomy == Forgotten(Swept(pool), Due)
Fresh == pool.counter + 1
Full(len) == Adds(Roomy, Fresh, len)
Over(len) == OverFirst(Full(len))

LEMMA PlaceIs ==
    ASSUME PlaceShm
    PROVE  \E len \in Lens :
              /\ pool' = Forgotten(Full(len), Over(len))
              /\ store' = Without(store, Taken(Swept(pool), Due)
                                            \cup Taken(Full(len), Over(len)) \cup {Fresh})
                            \cup {Object(Fresh, len)}
              /\ frames' = [frames EXCEPT ![composed] = Append(@, Fresh)]
  <1>1. PICK len \in Lens, p \in {Swept(pool)} :
        \E due \in {DueFirst(p)}, name \in {pool.counter + 1} :
        \E q \in {[Forgotten(p, due) EXCEPT !.counter = name,
                      !.pending = Append(@, Entry(name, len)),
                      !.outstanding = @ + len]} :
        \E over \in {OverFirst(q)} :
           /\ pool' = Forgotten(q, over)
           /\ store' = Without(store, Taken(p, due) \cup Taken(q, over) \cup {name})
                         \cup {Object(name, len)}
           /\ frames' = [frames EXCEPT ![composed] = Append(@, name)]
    BY Zenon DEF PlaceShm
  <1>2. QED
    BY <1>1 DEF Due, Roomy, Fresh, Full, Over, Adds

LEMMA FailIs ==
    ASSUME PlaceFails
    PROVE  \E len \in Lens :
              /\ pool' = [Roomy EXCEPT !.counter = Fresh, !.failed = TRUE]
              /\ store' = AfterError(Without(store, Taken(Swept(pool), Due)), Fresh, len)
  <1>1. PICK len \in Lens, p \in {Swept(pool)} :
        \E due \in {DueFirst(p)}, name \in {pool.counter + 1} :
           /\ pool' = [Forgotten(p, due) EXCEPT !.counter = name, !.failed = TRUE]
           /\ store' = AfterError(Without(store, Taken(p, due)), name, len)
    BY Zenon DEF PlaceFails
  <1>2. QED
    BY <1>1 DEF Due, Roomy, Fresh

(* The list with room in it is the end of the list there was.              *)
LEMMA RoomyIs ==
    ASSUME IsPool(pool), Rising(pool)
    PROVE  /\ IsPool(Swept(pool)) /\ Rising(Swept(pool))
           /\ Due \in 0 .. Len(Swept(pool).pending)
           /\ IsPool(Roomy) /\ Rising(Roomy) /\ Roomy.counter = pool.counter
           /\ ToSet(Swept(pool).pending) \subseteq ToSet(pool.pending)
           /\ ToSet(Roomy.pending) \subseteq ToSet(Swept(pool).pending)
           /\ Len(Roomy.pending) <= Len(pool.pending)
           /\ Counts(pool) => Counts(Swept(pool)) /\ Counts(Roomy)
  <1> DEFINE p == Swept(pool)
             k == GoneFirst(pool)
  <1>1. k \in 0 .. Len(pool.pending) /\ Len(pool.pending) \in Nat
    BY GoneIsIn, PendingIs
  <1>2. /\ IsPool(p) /\ p.counter = pool.counter
        /\ Len(p.pending) = Len(pool.pending) - k
        /\ ToSet(p.pending) = Newest(pool, k)
    BY <1>1, Rest DEF Swept
  <1>3. Rising(p) /\ (Counts(pool) => Counts(p))
    BY <1>1, ForgettingCounts DEF Swept
  <1>4. Newest(pool, k) \subseteq ToSet(pool.pending)
    BY <1>1, PendingIs DEF Newest, ToSet
  <1> HIDE DEF p, k
  <1>5. Due \in 0 .. Len(p.pending) /\ Len(p.pending) \in Nat
    BY <1>2, DueIs, PendingIs DEF Due, p
  <1>6. /\ IsPool(Roomy) /\ Roomy.counter = p.counter
        /\ Len(Roomy.pending) = Len(p.pending) - Due
        /\ ToSet(Roomy.pending) = Newest(p, Due)
    BY <1>2, <1>5, Rest DEF Roomy, p
  <1>7. Rising(Roomy) /\ (Counts(p) => Counts(Roomy))
    BY <1>2, <1>3, <1>5, ForgettingCounts DEF Roomy, p
  <1>8. Newest(p, Due) \subseteq ToSet(p.pending)
    BY <1>2, <1>5, PendingIs DEF Newest, ToSet
  <1>9. Len(Roomy.pending) <= Len(pool.pending)
    BY <1>1, <1>2, <1>5, <1>6
  <1>10. QED
    BY <1>2, <1>3, <1>4, <1>5, <1>6, <1>7, <1>8, <1>9 DEF p

LEMMA FullIs ==
    ASSUME IsPool(pool), Rising(pool), NEW len \in Lens
    PROVE  /\ IsPool(Full(len)) /\ Rising(Full(len))
           /\ Counts(pool) => Counts(Full(len))
           /\ Over(len) \in 0 .. Len(Full(len).pending)
           /\ Over(len) < Len(Full(len).pending)
           /\ Over(len) # 0 => Len(pool.pending) >= MaxPending
           /\ Full(len).counter = Fresh /\ Fresh \in Nat
           /\ ToSet(Full(len).pending) = ToSet(Roomy.pending) \cup {Entry(Fresh, len)}
           /\ Full(len).pending[Len(Full(len).pending)] = Entry(Fresh, len)
  <1>1. Fresh \in Nat /\ Roomy.counter < Fresh
    BY RoomyIs, PendingIs DEF Fresh
  <1>2. /\ IsPool(Full(len)) /\ Full(len).counter = Fresh
        /\ Len(Full(len).pending) = Len(Roomy.pending) + 1
        /\ Full(len).pending[Len(Roomy.pending) + 1] = Entry(Fresh, len)
        /\ ToSet(Full(len).pending) = ToSet(Roomy.pending) \cup {Entry(Fresh, len)}
    <2>1. OneLonger(Full(len), Roomy, Fresh, len)
      BY <1>1, RoomyIs, Adding DEF Full
    <2>2. QED
      BY <2>1 DEF OneLonger
  <1>3. Rising(Full(len)) /\ (Counts(Roomy) => Counts(Full(len)))
    BY <1>1, RoomyIs, AddingCounts DEF Full
  <1>4. Len(Roomy.pending) \in Nat /\ Len(pool.pending) \in Nat
        /\ Len(Roomy.pending) <= Len(pool.pending)
    BY RoomyIs, PendingIs
  <1>5. /\ Over(len) \in 0 .. Len(Full(len).pending)
        /\ Over(len) < Len(Full(len).pending)
        /\ Over(len) # 0 => Len(Full(len).pending) > MaxPending
    <2>1. Len(Full(len).pending) # 0
      BY <1>2, <1>4
    <2>2. QED
      BY <1>2, <2>1, OverIsIn DEF Over
  <1>6. Over(len) # 0 => Len(pool.pending) >= MaxPending
    BY <1>2, <1>4, <1>5, ShmConstants
  <1>7. QED
    BY <1>1, <1>2, <1>3, <1>5, <1>6, RoomyIs

-----------------------------------------------------------------------------
(* A new name is the last listed, so it stays: the list has room for one.  *)
LEMMA Placing ==
    ASSUME ShmInv, PlaceShm
    PROVE  ShmInv'
  <1>1. PICK len \in Lens :
              /\ pool' = Forgotten(Full(len), Over(len))
              /\ store' = Without(store, Taken(Swept(pool), Due)
                                            \cup Taken(Full(len), Over(len)) \cup {Fresh})
                            \cup {Object(Fresh, len)}
    BY PlaceIs
  <1> DEFINE p == Swept(pool)
             f == Roomy
             q == Full(len)
             over == Over(len)
  <1>2. /\ IsPool(pool) /\ IsPool(p)
        /\ \A n : Lists(pool, n) /\ Exists(n) => Lists(p, n)
    BY Sweeping DEF ShmInv
  <1>3. Due \in 0 .. Len(p.pending)
    BY <1>2, DueIs DEF Due
  <1>4. IsPool(f) /\ \A n : Lists(p, n) /\ n \notin Taken(p, Due) => Lists(f, n)
    BY <1>2, <1>3, Forgetting, StillListed DEF Roomy
  <1>5. Fresh \in Nat
    BY <1>2, PendingIs DEF Fresh
  <1>6. OneLonger(q, f, Fresh, len)
    BY <1>4, <1>5, Adding DEF Full
  <1> HIDE DEF p, f, q, over
  <1>7. /\ IsPool(q) /\ Len(q.pending) = Len(f.pending) + 1 /\ Len(f.pending) \in Nat
        /\ \A i \in 1 .. Len(f.pending) : q.pending[i] = f.pending[i]
        /\ q.pending[Len(q.pending)].name = Fresh
        /\ DOMAIN f.pending = 1 .. Len(f.pending)
        /\ DOMAIN q.pending = 1 .. Len(q.pending)
    <2>1. IsPool(q) /\ Len(f.pending) \in Nat
      BY <1>4, <1>6, PendingIs DEF OneLonger
    <2>2. QED
      BY <1>4, <1>6, <2>1, PendingIs DEF OneLonger, Entry
  <1>8. \A n : Lists(f, n) => Lists(q, n)
    BY <1>7 DEF Lists
  <1>9. over \in 0 .. Len(q.pending) /\ over < Len(q.pending)
    BY <1>7, OverIsIn DEF Over, over, q
  <1>10. IsPool(pool') /\ \A n : Lists(q, n) /\ n \notin Taken(q, over) => Lists(pool', n)
    BY <1>1, <1>7, <1>9, Forgetting, StillListed DEF over, q
  <1>11. Lists(pool', Fresh)
    <2>1. Len(q.pending) \in over + 1 .. Len(q.pending)
      BY <1>7, <1>9
    <2>2. QED
      BY <1>1, <1>7, <1>9, <2>1, Forgetting DEF over, q
  <1>12. ASSUME NEW o \in store', o.len # 0, o.name # Fresh
         PROVE  Lists(pool', o.name)
    <2>1. o \in store /\ o.name \notin Taken(p, Due) /\ o.name \notin Taken(q, over)
      BY <1>1, <1>12 DEF Without, Object, p, q, over
    <2>2. Lists(pool, o.name) /\ Exists(o.name)
      BY <1>12, <2>1 DEF ShmInv, Listed, Lists, Mine, Exists, Names
    <2>3. QED
      BY <1>2, <1>4, <1>8, <1>10, <2>1, <2>2
  <1>13. Listed'
    BY <1>11, <1>12 DEF Listed, Lists, Mine
  <1>14. QED
    BY <1>10, <1>13 DEF ShmInv

(* What fails was made and is gone again; only what it made room for went. *)
LEMMA Failing == ASSUME ShmInv, PlaceFails PROVE ShmInv'
  <1>1. PICK len \in Lens :
              /\ pool' = [Roomy EXCEPT !.counter = Fresh, !.failed = TRUE]
              /\ store' = AfterError(Without(store, Taken(Swept(pool), Due)), Fresh, len)
    BY FailIs
  <1> DEFINE p == Swept(pool)
             f == Roomy
  <1>2. /\ IsPool(pool) /\ IsPool(p)
        /\ \A n : Lists(pool, n) /\ Exists(n) => Lists(p, n)
    BY Sweeping DEF ShmInv
  <1>3. Due \in 0 .. Len(p.pending)
    BY <1>2, DueIs DEF Due
  <1>4. IsPool(f) /\ \A n : Lists(p, n) /\ n \notin Taken(p, Due) => Lists(f, n)
    BY <1>2, <1>3, Forgetting, StillListed DEF Roomy
  <1>5. Fresh \in Nat
    BY <1>2, PendingIs DEF Fresh
  <1> HIDE DEF p, f
  <1>6. IsPool(pool') /\ pool'.pending = f.pending
    <2>1. /\ pool'.pending = f.pending
          /\ pool' \in [counter : Nat, pending : Seq(Entries),
                        outstanding : {f.outstanding}, failed : {TRUE}]
      BY <1>1, <1>4, <1>5 DEF IsPool, f
    <2>2. QED
      BY <2>1 DEF IsPool
  <1>7. ASSUME NEW o \in store', o.len # 0
        PROVE  Lists(pool', o.name)
    <2>1. o \in store /\ o.name \notin Taken(p, Due)
      BY <1>1, <1>7 DEF Without, AfterError, p
    <2>2. Lists(pool, o.name) /\ Exists(o.name)
      BY <1>7, <2>1 DEF ShmInv, Listed, Lists, Mine, Exists, Names
    <2>3. Lists(f, o.name)
      BY <1>2, <1>4, <2>1, <2>2
    <2>4. QED
      BY <1>6, <2>3 DEF Lists
  <1>8. QED
    BY <1>6, <1>7 DEF ShmInv, Listed, Lists, Mine

(* A pool that is dropped takes all it has listed with it.                 *)
LEMMA Dropping == ASSUME ShmInv, Dropped PROVE ShmInv'
  <1>1. /\ pool' = [pool EXCEPT !.pending = <<>>]
        /\ store' = Without(store, Taken(pool, Len(pool.pending)))
    BY DEF Dropped
  <1>2. <<>> \in Seq(Entries)
    BY EmptySeq
  <1>3. IsPool(pool')
    BY <1>1, <1>2 DEF ShmInv, IsPool
  <1>4. ASSUME NEW o \in store', o.len # 0 PROVE FALSE
    <2>1. o \in store /\ o.name \notin Taken(pool, Len(pool.pending))
      BY <1>1, <1>4 DEF Without
    <2>2. PICK i \in DOMAIN pool.pending : pool.pending[i].name = o.name
      BY <1>4, <2>1 DEF ShmInv, Listed, Mine
    <2>3. i \in 1 .. Len(pool.pending)
      BY <2>2, LenProperties DEF ShmInv, IsPool
    <2>4. QED
      BY <2>1, <2>2, <2>3 DEF Taken
  <1>5. QED
    BY <1>3, <1>4 DEF ShmInv, Listed, Mine

(* What ages keeps its name and its bytes.                                 *)
LEMMA AgeIs ==
    ASSUME IsPool(pool), Ages
    PROVE  \E i \in 1 .. Len(pool.pending), e \in Entries :
              /\ e.name = pool.pending[i].name /\ e.len = pool.pending[i].len
              /\ pool' = [pool EXCEPT !.pending = [pool.pending EXCEPT ![i] = e]]
              /\ pool'.pending = [pool.pending EXCEPT ![i] = e]
              /\ pool'.counter = pool.counter /\ pool'.outstanding = pool.outstanding
              /\ IsPool(pool')
  <1>1. PICK i \in DOMAIN pool.pending :
            pool' = [pool EXCEPT !.pending[i].aged = TRUE]
    BY DEF Ages
  <1> DEFINE s == pool.pending
             e == [s[i] EXCEPT !.aged = TRUE]
             t == [s EXCEPT ![i] = e]
  <1>2. s \in Seq(Entries) /\ i \in 1 .. Len(s) /\ s[i] \in Entries
    BY <1>1, PendingIs
  <1>3. e \in Entries /\ e.name = s[i].name /\ e.len = s[i].len
    BY <1>2 DEF Entries
  <1>4. pool' = [pool EXCEPT !.pending = t]
    BY <1>1
  <1>5. t \in Seq(Entries)
    <2> HIDE DEF s, e
    <2>1. QED
      BY <1>2, <1>3, ExceptSeq
  <1>6. /\ pool'.pending = t /\ pool'.counter = pool.counter
        /\ pool'.outstanding = pool.outstanding /\ IsPool(pool')
    <2> HIDE DEF t
    <2>1. QED
      BY <1>4, <1>5 DEF IsPool
  <1>7. QED
    BY <1>2, <1>3, <1>4, <1>6

LEMMA Ageing == ASSUME ShmInv, Ages PROVE ShmInv'
  <1> DEFINE s == pool.pending
  <1>1. PICK i \in 1 .. Len(s), e \in Entries :
              /\ e.name = s[i].name
              /\ pool'.pending = [s EXCEPT ![i] = e]
              /\ IsPool(pool')
    BY AgeIs DEF ShmInv
  <1>2. DOMAIN s = 1 .. Len(s)
    BY PendingIs DEF ShmInv
  <1>3. /\ DOMAIN pool'.pending = DOMAIN s
        /\ \A j \in DOMAIN s : pool'.pending[j].name = s[j].name
    BY <1>1, <1>2
  <1>4. store' = store
    BY DEF Ages
  <1>5. QED
    BY <1>1, <1>3, <1>4 DEF ShmInv, Listed, Mine

LEMMA ShmStep == ShmInv /\ [ShmNext]_allVars => ShmInv'
  <1> SUFFICES ASSUME ShmInv, [ShmNext]_allVars PROVE ShmInv'
    OBVIOUS
  <1>1. CASE PlaceShm
    BY <1>1, Placing
  <1>2. CASE PlaceFails
    BY <1>2, Failing
  <1>3. CASE Dropped
    BY <1>3, Dropping
  <1>4. CASE Ages
    BY <1>4, Ageing
  <1>5. CASE \/ Written \/ Refused \/ WriterOnly \/ Parse \/ UNCHANGED allVars
    <2>1. pool' = pool /\ store' \subseteq store
      BY <1>5 DEF Written, Refused, WriterOnly, Parse, Without, allVars, shmVars
    <2>2. QED
      BY <2>1 DEF ShmInv, Listed, Mine
  <1>6. QED
    BY <1>1, <1>2, <1>3, <1>4, <1>5 DEF ShmNext

-----------------------------------------------------------------------------
(* While the session lasts, the count is that of the list.                 *)
CountInv == ShmInv /\ Rising(pool) /\ Counted

Lasting == {"idle", "composing", "refused", "blocked", "failed"}

LEMMA CountedIs == Counted <=> (session \in Lasting => Counts(pool))
  BY DEF Counted, Counts, Lasting

LEMMA PlacingCounts ==
    ASSUME CountInv, PlaceShm
    PROVE  Rising(pool)' /\ Counted'
  <1>1. PICK len \in Lens : pool' = Forgotten(Full(len), Over(len))
    BY PlaceIs
  <1>2. session \in Lasting /\ Counts(pool)
    BY CountedIs DEF CountInv, PlaceShm, MayPlace, Composing, Lasting
  <1>3. /\ IsPool(Full(len)) /\ Rising(Full(len)) /\ Counts(Full(len))
        /\ Over(len) \in 0 .. Len(Full(len).pending)
    BY <1>2, FullIs DEF CountInv, ShmInv
  <1>4. Rising(pool') /\ Counts(pool')
    BY <1>1, <1>3, ForgettingCounts
  <1>5. QED
    BY <1>4 DEF Counted, Counts, Rising

LEMMA FailingCounts ==
    ASSUME CountInv, PlaceFails
    PROVE  Rising(pool)' /\ Counted'
  <1>1. pool' = [Roomy EXCEPT !.counter = Fresh, !.failed = TRUE]
    BY FailIs
  <1>2. session \in Lasting /\ Counts(pool)
    BY CountedIs DEF CountInv, PlaceFails, MayPlace, Composing, Lasting
  <1>3. IsPool(Roomy) /\ Rising(Roomy) /\ Counts(Roomy) /\ Roomy.counter = pool.counter
    BY <1>2, RoomyIs DEF CountInv, ShmInv
  <1>4. /\ pool'.pending = Roomy.pending /\ pool'.counter = Fresh
        /\ pool'.outstanding = Roomy.outstanding
    BY <1>1, <1>3 DEF IsPool
  <1>5. \A i \in 1 .. Len(Roomy.pending) : Roomy.pending[i].name <= Fresh
    BY <1>3, PendingIs DEF Rising, Fresh
  <1>6. Rising(pool') /\ Counts(pool')
    BY <1>3, <1>4, <1>5 DEF Rising, Counts
  <1>7. QED
    BY <1>6 DEF Counted, Counts, Rising

LEMMA AgeingCounts ==
    ASSUME CountInv, Ages
    PROVE  Rising(pool)' /\ Counted'
  <1> DEFINE s == pool.pending
  <1>0. IsPool(pool)
    BY DEF CountInv, ShmInv
  <1>1. PICK i \in 1 .. Len(s), e \in Entries :
              /\ e.name = s[i].name /\ e.len = s[i].len
              /\ pool'.pending = [s EXCEPT ![i] = e]
              /\ pool'.counter = pool.counter /\ pool'.outstanding = pool.outstanding
              /\ IsPool(pool')
    BY <1>0, AgeIs
  <1>2. /\ DOMAIN s = 1 .. Len(s) /\ Len(s) \in Nat
        /\ \A j \in 1 .. Len(s) : s[j].name \in Nat /\ s[j].len \in Nat
    BY <1>0, PendingIs
  <1> DEFINE t == [s EXCEPT ![i] = e]
  <1>3. /\ DOMAIN t = 1 .. Len(s) /\ Len(t) = Len(s)
        /\ \A j \in 1 .. Len(s) : t[j].name = s[j].name
    <2>1. DOMAIN t = 1 .. Len(s) /\ \A j \in 1 .. Len(s) : t[j].name = s[j].name
      BY <1>1, <1>2
    <2>2. t \in Seq(Entries)
      BY <1>1, PendingIs
    <2> HIDE DEF t
    <2>3. DOMAIN t = 1 .. Len(t) /\ Len(t) \in Nat
      BY <2>2, LenProperties
    <2>4. QED
      BY <1>2, <2>1, <2>3
  <1>4. Rising(pool')
    <2> SUFFICES ASSUME NEW j \in 1 .. Len(s)
                 PROVE  /\ t[j].name <= pool.counter
                        /\ \A k \in 1 .. j - 1 : t[k].name < t[j].name
      <3> HIDE DEF t
      <3>1. QED
        BY <1>1, <1>3 DEF Rising, t
    <2> HIDE DEF t
    <2>1. t[j].name = s[j].name /\ s[j].name <= pool.counter
      BY <1>3 DEF CountInv, Rising
    <2>2. ASSUME NEW k \in 1 .. j - 1 PROVE t[k].name < t[j].name
      <3>1. k \in 1 .. Len(s) /\ s[k].name < s[j].name
        BY <1>2 DEF CountInv, Rising
      <3>2. QED
        BY <1>3, <2>1, <3>1
    <2>3. QED
      BY <2>1, <2>2
  <1> DEFINE r == ToSet(s) \ {s[i]}
  <1>5. s[i] \in ToSet(s) /\ Sized(ToSet(s)) /\ Sized(r)
    BY <1>0, <1>1, <1>2, PendingSized DEF ToSet
  <1>6. \A j \in 1 .. Len(s) : j # i => s[j].name # e.name
    <2> SUFFICES ASSUME NEW j \in 1 .. Len(s), j # i PROVE s[j].name # s[i].name
      BY <1>1
    <2>1. CASE j < i
      <3>1. j \in 1 .. i - 1
        BY <1>2, <2>1
      <3>2. QED
        BY <1>2, <3>1 DEF CountInv, Rising
    <2>2. CASE i < j
      <3>1. i \in 1 .. j - 1
        BY <1>2, <2>2
      <3>2. QED
        BY <1>2, <3>1 DEF CountInv, Rising
    <2>3. QED
      BY <1>2, <2>1, <2>2
  <1>7. e \notin r
    BY <1>2, <1>6 DEF ToSet
  <1>8. ToSet(t) = r \cup {e}
    <2>1. \A j \in 1 .. Len(s) : j # i => s[j] \in r /\ t[j] = s[j]
      BY <1>1, <1>2, <1>6 DEF ToSet
    <2>2. t[i] = e
      BY <1>1, <1>2
    <2>3. \A x \in r : \E j \in 1 .. Len(s) : j # i /\ x = s[j]
      BY <1>2 DEF ToSet
    <2> HIDE DEF r, t
    <2>4. QED
      BY <1>3, <2>1, <2>2, <2>3 DEF ToSet
  <1>9. Bytes(ToSet(t)) = Bytes(ToSet(s))
    <2>1. Bytes(ToSet(s)) = s[i].len + Bytes(r)
      BY <1>5, BytesLess
    <2>2. e.len \in Nat
      BY <1>1, <1>2
    <2> HIDE DEF r, t
    <2>3. Bytes(r \cup {e}) = e.len + Bytes(r)
      BY <1>5, <1>7, <2>2, BytesMore
    <2>4. QED
      BY <1>1, <1>8, <2>1, <2>3
  <1>10. session \in Lasting => Counts(pool')
    BY <1>1, <1>9, CountedIs DEF CountInv, Counts
  <1>11. session' = session
    BY DEF Ages, vars
  <1>12. QED
    BY <1>4, <1>10, <1>11 DEF Counted, Counts, Rising, Lasting

(* The others leave the list alone, and do not come back to a session that *)
(* is over.                                                                *)
LEMMA OthersCount ==
    ASSUME CountInv, \/ Written \/ Refused \/ WriterOnly \/ Parse
                     \/ UNCHANGED allVars
    PROVE  Rising(pool)' /\ Counted'
  <1>1. pool' = pool
    BY DEF Written, Refused, WriterOnly, Parse, allVars, shmVars
  <1>2. session' \in Lasting => session \in Lasting
    BY DEF Written, Refused, WriterOnly, Parse, allVars, vars, Lasting, TakeBuffer,
           SubmitOk, SubmitFull, SubmitClosed, Recycle, SubmitBlocking,
           SendCompletes, SendFails, Join, GraceElapses, Receive, WriteOk,
           WriteFails, Disconnected, TerminalChanges, Finished
  <1>3. QED
    BY <1>1, <1>2, CountedIs DEF CountInv, Counted, Counts, Rising, Lasting

LEMMA DroppingCounts ==
    ASSUME CountInv, Dropped
    PROVE  Rising(pool)' /\ Counted'
  <1>1. pool'.pending = <<>> /\ session' = "closing"
    BY DEF Dropped, Shutdown, CountInv, ShmInv, IsPool
  <1>2. QED
    BY <1>1, EmptySeq DEF Counted, Rising

LEMMA CountStep == CountInv /\ [ShmNext]_allVars => CountInv'
  <1> SUFFICES ASSUME CountInv, [ShmNext]_allVars PROVE CountInv'
    OBVIOUS
  <1>1. ShmInv'
    BY ShmStep DEF CountInv
  <1>2. Rising(pool)' /\ Counted'
    BY PlacingCounts, FailingCounts, AgeingCounts, DroppingCounts, OthersCount
       DEF ShmNext
  <1>3. QED
    BY <1>1, <1>2 DEF CountInv

LEMMA CountHolds == ShmSpec => []CountInv
  <1>1. ShmInit => CountInv
    <2> SUFFICES ASSUME ShmInit PROVE CountInv
      OBVIOUS
    <2>1. /\ pool = [counter |-> 0, pending |-> <<>>, outstanding |-> 0, failed |-> FALSE]
          /\ pool.pending = <<>> /\ pool.outstanding = 0
      BY DEF ShmInit
    <2>2. IsPool(pool)
      BY <2>1, EmptySeq DEF IsPool
    <2>3. Listed
      BY DEF ShmInit, Listed, Mine, Object
    <2>4. Rising(pool)
      BY <2>1, EmptySeq DEF Rising
    <2>5. Counted
      <3>1. ToSet(<<>>) = {}
        BY DEF ToSet
      <3>2. Sized({})
        BY FS_EmptySet DEF Sized
      <3>3. Bytes({}) = 0
        BY <3>2, BytesOfLess
      <3>4. QED
        BY <2>1, <3>1, <3>3 DEF Counted
    <2>6. QED
      BY <2>2, <2>3, <2>4, <2>5 DEF CountInv, ShmInv
  <1>2. QED
    BY <1>1, CountStep, PTL DEF ShmSpec

(* Whatever fails, is refused or is swept, and however the session ends:   *)
(* an object this process made is on the list, and goes with it; and the   *)
(* bytes counted against the budget are those of the names listed, however *)
(* the list was swept, cut short and added to (create, remember, sweep).   *)
THEOREM NothingLeft == ShmSpec => []Accounted
  <1>1. CountInv => Accounted
    BY DEF CountInv, ShmInv, Accounted
  <1>2. QED
    BY <1>1, CountHolds, PTL

-----------------------------------------------------------------------------
(* The road to the terminal: the frames that are on it, in line, and the   *)
(* names they carry, each lower than those behind it.                      *)
Line ==
    ToSet(queue \o inHand) \cup IF session = "composing" THEN {composed} ELSE {}

InLine ==
    /\ \A f \in ToSet(queue \o inHand) :
          /\ f <= composed
          /\ session \in {"composing", "blocked"} => f < composed
    /\ \A f \in ToSet(queue), g \in ToSet(inHand) : g < f
    /\ session = "blocked" => composed \in Bells

LEMMA ToSetOfBoth ==
    ASSUME NEW S, NEW s \in Seq(S), NEW t \in Seq(S)
    PROVE  ToSet(s \o t) = ToSet(s) \cup ToSet(t)
  <1>1. /\ DOMAIN s = 1 .. Len(s) /\ DOMAIN t = 1 .. Len(t)
        /\ Len(s) \in Nat /\ Len(t) \in Nat
    BY LenProperties
  <1>2. /\ s \o t \in Seq(S) /\ Len(s \o t) = Len(s) + Len(t)
        /\ \A i \in 1 .. Len(s) + Len(t) :
              (s \o t)[i] = IF i <= Len(s) THEN s[i] ELSE t[i - Len(s)]
    BY ConcatProperties
  <1> DEFINE u == s \o t
  <1>3. DOMAIN u = 1 .. Len(s) + Len(t)
    BY <1>2, LenProperties
  <1>4. /\ \A i \in 1 .. Len(s) : u[i] = s[i]
        /\ \A i \in 1 .. Len(t) : u[Len(s) + i] = t[i]
    <2>1. ASSUME NEW i \in 1 .. Len(s) PROVE u[i] = s[i]
      BY <1>1, <1>2
    <2>2. ASSUME NEW i \in 1 .. Len(t) PROVE u[Len(s) + i] = t[i]
      <3>1. /\ Len(s) + i \in 1 .. Len(s) + Len(t) /\ ~(Len(s) + i <= Len(s))
            /\ Len(s) + i - Len(s) = i
        BY <1>1
      <3>2. QED
        BY <1>2, <3>1
    <2>3. QED
      BY <2>1, <2>2
  <1> HIDE DEF u
  <1>5. ASSUME NEW x \in ToSet(u) PROVE x \in ToSet(s) \cup ToSet(t)
    <2>1. PICK i \in 1 .. Len(s) + Len(t) : x = u[i]
      BY <1>3, <1>5 DEF ToSet
    <2>2. CASE i \in 1 .. Len(s)
      BY <1>1, <1>4, <2>1, <2>2 DEF ToSet
    <2>3. CASE i - Len(s) \in 1 .. Len(t)
      <3>1. Len(s) + (i - Len(s)) = i
        BY <1>1
      <3>2. x = t[i - Len(s)]
        BY <1>4, <2>1, <2>3, <3>1
      <3>3. QED
        BY <1>1, <2>3, <3>2 DEF ToSet
    <2>4. QED
      BY <1>1, <2>2, <2>3
  <1>6. ASSUME NEW x \in ToSet(s) PROVE x \in ToSet(u)
    <2>1. PICK i \in 1 .. Len(s) : x = s[i]
      BY <1>1, <1>6 DEF ToSet
    <2>2. i \in 1 .. Len(s) + Len(t) /\ u[i] = x
      BY <1>1, <1>4, <2>1
    <2>3. QED
      BY <1>3, <2>2 DEF ToSet
  <1>7. ASSUME NEW x \in ToSet(t) PROVE x \in ToSet(u)
    <2>1. PICK i \in 1 .. Len(t) : x = t[i]
      BY <1>1, <1>7 DEF ToSet
    <2>2. Len(s) + i \in 1 .. Len(s) + Len(t) /\ u[Len(s) + i] = x
      BY <1>1, <1>4, <2>1
    <2>3. QED
      BY <1>3, <2>2 DEF ToSet
  <1>8. QED
    BY <1>5, <1>6, <1>7 DEF u

LEMMA ToSetOfMore ==
    ASSUME NEW S, NEW s \in Seq(S), NEW x \in S
    PROVE  ToSet(Append(s, x)) = ToSet(s) \cup {x}
  <1>1. Append(s, x) = s \o <<x>> /\ <<x>> \in Seq(S)
    BY AppendIsConcat
  <1>2. ToSet(<<x>>) = {x}
    BY DEF ToSet
  <1>3. ToSet(s \o <<x>>) = ToSet(s) \cup ToSet(<<x>>)
    BY <1>1, ToSetOfBoth
  <1>4. QED
    BY <1>1, <1>2, <1>3

LEMMA ToSetOfNone == ToSet(<<>>) = {}
  BY DEF ToSet

LEMMA OnTheWay ==
    ASSUME IInv
    PROVE  /\ queue \in Seq(Frames) /\ inHand \in Seq(Frames)
           /\ ToSet(queue \o inHand) = ToSet(queue) \cup ToSet(inHand)
           /\ ToSet(queue) \subseteq Frames /\ ToSet(inHand) \subseteq Frames
           /\ composed \in Nat /\ Frames \subseteq Nat
           /\ session = "composing" => composed \in Frames
  <1>1. queue \in Seq(Frames) /\ inHand \in Seq(Frames)
    BY DEF IInv, TypeOK, Frames
  <1>2. ToSet(queue) \subseteq Frames /\ ToSet(inHand) \subseteq Frames
    BY <1>1, LenProperties, ElementOfSeq DEF ToSet
  <1>3. composed \in Nat /\ Frames \subseteq Nat
    BY FramesAssumption DEF IInv, TypeOK, Frames
  <1>4. session = "composing" => composed \in Frames
    BY DEF IInv, Younger, Filling
  <1>5. QED
    BY <1>1, <1>2, <1>3, <1>4, ToSetOfBoth

(* A frame accepted was the one being made, and the slot was free.         *)
LEMMA EnqueueLine ==
    ASSUME IInv, SubmitOk \/ SendCompletes
    PROVE  ToSet(queue) = {} /\ ToSet(queue') = {composed} /\ inHand' = inHand
  <1>1. /\ queue \in Seq(Frames) /\ Len(queue) < 1 /\ Len(queue) \in Nat
    BY OnTheWay, LenProperties DEF SubmitOk, SendCompletes
  <1>2. queue = <<>>
    BY <1>1, EmptySeq
  <1>3. queue' = Append(queue, composed) /\ inHand' = inHand
    BY DEF SubmitOk, SendCompletes, Enqueue
  <1>4. composed \in Frames
    BY DEF IInv, Younger, Filling, SubmitOk, SendCompletes
  <1>5. ToSet(queue') = ToSet(queue) \cup {composed}
    BY <1>1, <1>3, <1>4, ToSetOfMore
  <1>6. QED
    BY <1>2, <1>3, <1>5, ToSetOfNone

LEMMA ReceiveLine ==
    ASSUME IInv, Receive
    PROVE  ToSet(inHand) = {} /\ ToSet(inHand') = ToSet(queue) /\ ToSet(queue') = {}
  <1>1. /\ inHand \in Seq(Frames) /\ queue \in Seq(Frames)
        /\ Len(queue) <= 1 /\ Len(inHand) = 0 /\ Len(queue) \in Nat
    BY LenProperties DEF IInv, TypeOK, Receive, Frames
  <1>2. queue # <<>> /\ Len(queue) = 1
    BY <1>1, EmptySeq DEF Receive
  <1>3. inHand = <<>>
    BY <1>1, EmptySeq
  <1>4. queue' \in Seq(Frames) /\ Len(queue') = 0
    BY <1>1, <1>2, HeadTailProperties DEF Receive
  <1>5. queue' = <<>>
    BY <1>4, EmptySeq
  <1>6. ToSet(queue) = {Head(queue)}
    <2>1. DOMAIN queue = 1 .. 1 /\ Head(queue) = queue[1]
      BY <1>1, <1>2, LenProperties
    <2>2. QED
      BY <2>1 DEF ToSet
  <1>7. ToSet(<<Head(queue)>>) = {Head(queue)}
    BY DEF ToSet
  <1>8. QED
    BY <1>3, <1>5, <1>6, <1>7, ToSetOfNone DEF Receive

LEMMA WriteLine ==
    ASSUME IInv, WriteOk
    PROVE  /\ ToSet(inHand) = {Head(inHand)} /\ Head(inHand) \in Frames
           /\ ToSet(inHand') = {} /\ queue' = queue
  <1>1. inHand \in Seq(Frames) /\ Len(inHand) = 1
    BY DEF IInv, TypeOK, WriteOk, Frames
  <1>2. DOMAIN inHand = 1 .. 1 /\ Head(inHand) = inHand[1]
    BY <1>1, LenProperties
  <1>3. ToSet(inHand) = {Head(inHand)} /\ Head(inHand) \in Frames
    BY <1>1, <1>2, ElementOfSeq DEF ToSet
  <1>4. QED
    BY <1>3, ToSetOfNone DEF WriteOk

LEMMA EndLine ==
    ASSUME IInv, WriteFails \/ Disconnected
    PROVE  ToSet(inHand') = {} /\ ToSet(queue') = {}
  <1>1. CASE WriteFails
    BY <1>1, ToSetOfNone DEF WriteFails
  <1>2. CASE Disconnected
    <2>1. inHand \in Seq(Frames) /\ Len(inHand) = 0
      BY <1>2 DEF IInv, TypeOK, Disconnected, Frames
    <2>2. inHand = <<>>
      BY <2>1, EmptySeq
    <2>3. QED
      BY <1>2, <2>2, ToSetOfNone DEF Disconnected
  <1>3. QED
    BY <1>1, <1>2

(* Where a step of the writer leaves the line: what is new on it is the    *)
(* frame just begun, or one that was waited with.                          *)
Moved ==
    /\ composed' \in {composed, composed + 1}
    /\ \A f \in Line' : f \in Line \/ f > composed \/ f \in Bells

LEMMA WriterMoves ==
    ASSUME IInv, IInv', InLine, [Next]_vars
    PROVE  InLine' /\ Moved
  <1> DEFINE way == ToSet(queue) \cup ToSet(inHand)
  <1>1. /\ ToSet(queue \o inHand) = way
        /\ (ToSet(queue \o inHand))' = ToSet(queue') \cup ToSet(inHand')
        /\ composed \in Nat /\ composed' \in Nat
        /\ way \subseteq Nat
    <2>1. (ToSet(queue \o inHand))' = ToSet(queue') \cup ToSet(inHand')
      <3>1. queue' \in Seq(Frames) /\ inHand' \in Seq(Frames)
        BY DEF IInv, TypeOK, Frames
      <3>2. QED
        BY <3>1, ToSetOfBoth
    <2>2. composed' \in Nat
      BY FramesAssumption DEF IInv, TypeOK
    <2>3. QED
      BY <2>1, <2>2, OnTheWay
  <1>2. CASE SubmitOk \/ SendCompletes
    <2>1. /\ ToSet(queue) = {} /\ ToSet(queue') = {composed} /\ inHand' = inHand
          /\ composed' = composed /\ session' = "idle"
          /\ session = "composing" \/ composed \in Bells
          /\ session \in {"composing", "blocked"}
      BY <1>2, EnqueueLine DEF InLine, SubmitOk, SendCompletes
    <2>2. InLine'
      BY <1>1, <2>1 DEF InLine
    <2>3. QED
      BY <1>1, <2>1, <2>2 DEF Moved, Line
  <1>3. CASE Receive
    BY <1>1, <1>3, ReceiveLine DEF InLine, Moved, Line, Receive
  <1>4. CASE WriteOk
    BY <1>1, <1>4, WriteLine DEF InLine, Moved, Line, WriteOk
  <1>5. CASE WriteFails \/ Disconnected
    BY <1>1, <1>5, EndLine DEF InLine, Moved, Line, WriteFails, Disconnected
  <1>6. CASE \/ TakeBuffer \/ SubmitFull \/ Recycle \/ SubmitClosed
             \/ SubmitBlocking \/ SendFails \/ Shutdown \/ Join \/ GraceElapses
             \/ TerminalChanges \/ UNCHANGED vars
    <2>1. /\ queue' = queue /\ inHand' = inHand
          /\ \/ composed' = composed + 1 /\ session' = "composing"
             \/ /\ composed' = composed
                /\ session' = "composing" => session = "composing"
                /\ session' \in {"composing", "blocked"} =>
                       session \in {"composing", "blocked"}
                /\ session' = "blocked" => session = "blocked" \/ composed \in Bells
      BY <1>6 DEF TakeBuffer, SubmitFull, Recycle, SubmitClosed, SubmitBlocking,
         SendFails, Shutdown, Join, GraceElapses, TerminalChanges, vars
    <2>2. InLine'
      BY <1>1, <2>1 DEF InLine
    <2>3. QED
      BY <1>1, <2>1, <2>2 DEF Moved, Line
  <1>7. QED
    BY <1>2, <1>3, <1>4, <1>5, <1>6 DEF Next, Session, Submit, Teardown, Thread,
       Finished

(* Names up to the one counted last, each lower than the next.             *)
Upwards(s, last) ==
    \A i \in 1 .. Len(s) : s[i] \in 1 .. last /\ \A j \in 1 .. i - 1 : s[j] < s[i]

Before(s, t) == \A m \in ToSet(s), n \in ToSet(t) : m < n

Road ==
    /\ unread \in Seq(Nat) /\ Upwards(unread, pool.counter)
    /\ frames \in [Frames -> Seq(Nat)]
    /\ \A f \in Frames :
          /\ Upwards(frames[f], pool.counter)
          /\ f > composed \/ f \in Bells => frames[f] = <<>>
          /\ f \in Line => Before(unread, frames[f])
          /\ \A g \in Frames : f < g => Before(frames[f], frames[g])

LEMMA UpwardsMore ==
    ASSUME NEW s \in Seq(Nat), NEW last \in Nat, NEW x \in Nat, Upwards(s, last),
           last < x
    PROVE  /\ Upwards(s, x)
           /\ Append(s, x) \in Seq(Nat) /\ Upwards(Append(s, x), x)
           /\ ToSet(Append(s, x)) = ToSet(s) \cup {x}
           /\ \A m \in ToSet(s) : m < x /\ m \in Nat
  <1>1. Len(s) \in Nat /\ DOMAIN s = 1 .. Len(s)
    BY LenProperties
  <1>2. \A i \in 1 .. Len(s) : s[i] \in Nat /\ s[i] < x /\ s[i] >= 1
    BY DEF Upwards
  <1>3. \A m \in ToSet(s) : m < x /\ m \in Nat
    BY <1>1, <1>2 DEF ToSet
  <1>4. Upwards(s, x)
    BY <1>2 DEF Upwards
  <1> DEFINE t == Append(s, x)
  <1>5. /\ t \in Seq(Nat) /\ Len(t) = Len(s) + 1
        /\ \A i \in 1 .. Len(s) : t[i] = s[i]
        /\ t[Len(s) + 1] = x
    BY AppendProperties
  <1> HIDE DEF t
  <1>6. ASSUME NEW i \in 1 .. Len(s) + 1
        PROVE  t[i] \in 1 .. x /\ \A j \in 1 .. i - 1 : t[j] < t[i]
    <2>1. CASE i = Len(s) + 1
      BY <1>1, <1>2, <1>5, <2>1
    <2>2. CASE i \in 1 .. Len(s)
      <3>1. t[i] = s[i] /\ t[i] \in 1 .. x
        BY <1>2, <1>5, <2>2
      <3>2. ASSUME NEW j \in 1 .. i - 1 PROVE t[j] < t[i]
        <4>1. j \in 1 .. Len(s) /\ s[j] < s[i]
          BY <1>1, <2>2 DEF Upwards
        <4>2. QED
          BY <1>5, <3>1, <4>1
      <3>3. QED
        BY <3>1, <3>2
    <2>3. QED
      BY <1>1, <2>1, <2>2
  <1>7. Upwards(t, x)
    BY <1>5, <1>6 DEF Upwards
  <1>8. QED
    BY <1>3, <1>4, <1>5, <1>7, ToSetOfMore DEF t

LEMMA UpwardsBoth ==
    ASSUME NEW s \in Seq(Nat), NEW t \in Seq(Nat), NEW last \in Nat,
           Upwards(s, last), Upwards(t, last), Before(s, t)
    PROVE  s \o t \in Seq(Nat) /\ Upwards(s \o t, last)
  <1> DEFINE u == s \o t
  <1>1. /\ Len(s) \in Nat /\ Len(t) \in Nat
        /\ DOMAIN s = 1 .. Len(s) /\ DOMAIN t = 1 .. Len(t)
    BY LenProperties
  <1>2. /\ u \in Seq(Nat) /\ Len(u) = Len(s) + Len(t)
        /\ \A i \in 1 .. Len(s) + Len(t) :
              u[i] = IF i <= Len(s) THEN s[i] ELSE t[i - Len(s)]
    BY ConcatProperties
  <1> HIDE DEF u
  <1>3. ASSUME NEW i \in 1 .. Len(s) + Len(t)
        PROVE  \/ i \in 1 .. Len(s) /\ u[i] = s[i]
               \/ i - Len(s) \in 1 .. Len(t) /\ u[i] = t[i - Len(s)]
    <2>1. CASE i <= Len(s)
      BY <1>1, <1>2, <2>1
    <2>2. CASE ~(i <= Len(s))
      BY <1>1, <1>2, <2>2
    <2>3. QED
      BY <2>1, <2>2
  <1>4. ASSUME NEW i \in 1 .. Len(s) + Len(t)
        PROVE  u[i] \in 1 .. last /\ \A j \in 1 .. i - 1 : u[j] < u[i]
    <2>1. CASE i \in 1 .. Len(s) /\ u[i] = s[i]
      <3>1. ASSUME NEW j \in 1 .. i - 1 PROVE u[j] < u[i]
        <4>1. j \in 1 .. Len(s) /\ j \in 1 .. Len(s) + Len(t) /\ j <= Len(s)
          BY <1>1, <2>1
        <4>2. u[j] = s[j] /\ s[j] < s[i]
          BY <1>2, <2>1, <4>1 DEF Upwards
        <4>3. QED
          BY <2>1, <4>2
      <3>2. QED
        BY <2>1, <3>1 DEF Upwards
    <2>2. CASE i - Len(s) \in 1 .. Len(t) /\ u[i] = t[i - Len(s)]
      <3>1. ASSUME NEW j \in 1 .. i - 1 PROVE u[j] < u[i]
        <4>1. j \in 1 .. Len(s) + Len(t)
          BY <1>1
        <4>2. CASE j \in 1 .. Len(s) /\ u[j] = s[j]
          BY <1>1, <2>2, <4>2 DEF Before, ToSet
        <4>3. CASE j - Len(s) \in 1 .. Len(t) /\ u[j] = t[j - Len(s)]
          <5>1. j - Len(s) \in 1 .. (i - Len(s)) - 1
            BY <1>1, <4>3
          <5>2. QED
            BY <2>2, <4>3, <5>1 DEF Upwards
        <4>4. QED
          BY <1>3, <4>1, <4>2, <4>3
      <3>2. QED
        BY <2>2, <3>1 DEF Upwards
    <2>3. QED
      BY <1>3, <2>1, <2>2
  <1>5. QED
    BY <1>2, <1>4 DEF Upwards, u

LEMMA UpwardsLess ==
    ASSUME NEW s \in Seq(Nat), s # <<>>, NEW last \in Nat, Upwards(s, last)
    PROVE  /\ Tail(s) \in Seq(Nat) /\ Upwards(Tail(s), last)
           /\ ToSet(Tail(s)) \subseteq ToSet(s)
           /\ Head(s) \in ToSet(s)
           /\ \A m \in ToSet(Tail(s)) : Head(s) < m
  <1> DEFINE t == Tail(s)
  <1>1. /\ Len(s) \in Nat /\ Len(s) # 0 /\ DOMAIN s = 1 .. Len(s)
    BY LenProperties, EmptySeq
  <1>2. /\ t \in Seq(Nat) /\ Len(t) = Len(s) - 1
        /\ \A i \in 1 .. Len(t) : t[i] = s[i + 1]
    BY HeadTailProperties
  <1> HIDE DEF t
  <1>3. Head(s) = s[1] /\ 1 \in 1 .. Len(s)
    BY <1>1
  <1>4. DOMAIN t = 1 .. Len(t)
    BY <1>2, LenProperties
  <1>5. ASSUME NEW i \in 1 .. Len(t)
        PROVE  /\ t[i] = s[i + 1] /\ i + 1 \in 1 .. Len(s) /\ 1 \in 1 .. (i + 1) - 1
               /\ t[i] \in 1 .. last /\ s[1] < t[i]
               /\ \A j \in 1 .. i - 1 : t[j] < t[i]
    <2>1. t[i] = s[i + 1] /\ i + 1 \in 1 .. Len(s) /\ 1 \in 1 .. (i + 1) - 1
      BY <1>1, <1>2
    <2>2. ASSUME NEW j \in 1 .. i - 1 PROVE t[j] < t[i]
      <3>1. j \in 1 .. Len(t) /\ j + 1 \in 1 .. (i + 1) - 1
        BY <1>1, <1>2
      <3>2. QED
        BY <1>2, <2>1, <3>1 DEF Upwards
    <2>3. QED
      BY <2>1, <2>2 DEF Upwards
  <1>6. Upwards(t, last)
    BY <1>5 DEF Upwards
  <1>7. ToSet(t) \subseteq ToSet(s) /\ \A m \in ToSet(t) : Head(s) < m
    BY <1>1, <1>3, <1>4, <1>5 DEF ToSet
  <1>8. QED
    BY <1>1, <1>2, <1>3, <1>6, <1>7 DEF t, ToSet

WayInv == CountInv /\ IInv /\ InLine /\ Road

LEMMA UpwardsUpTo ==
    ASSUME NEW s, NEW a \in Nat, NEW b \in Nat, a <= b, Upwards(s, a)
    PROVE  Upwards(s, b)
  BY DEF Upwards

LEMMA LineIsFrames == ASSUME IInv PROVE Line \subseteq Frames
  BY OnTheWay DEF Line

(* The writer moves the line along, and no name on it.                     *)
LEMMA RoadMoves ==
    ASSUME WayInv, IInv', Moved, UNCHANGED <<unread, frames>>,
           pool'.counter \in Nat, pool.counter <= pool'.counter
    PROVE  Road'
  <1>1. composed \in Nat /\ composed' \in Nat /\ composed <= composed'
        /\ pool.counter \in Nat /\ Frames \subseteq Nat
    BY FramesAssumption, PendingIs
       DEF WayInv, IInv, TypeOK, Moved, CountInv, ShmInv, Frames
  <1>2. Upwards(unread, pool'.counter)
    BY <1>1, UpwardsUpTo DEF WayInv, Road
  <1>3. ASSUME NEW f \in Frames
        PROVE  /\ Upwards(frames[f], pool'.counter)
               /\ f > composed' \/ f \in Bells => frames[f] = <<>>
               /\ f \in Line' => Before(unread, frames[f])
    <2>1. Upwards(frames[f], pool'.counter)
      BY <1>1, UpwardsUpTo DEF WayInv, Road
    <2>2. f > composed' \/ f \in Bells => frames[f] = <<>>
      BY <1>1 DEF WayInv, Road
    <2>3. ASSUME f \in Line' PROVE Before(unread, frames[f])
      <3>1. CASE f \in Line
        BY <3>1 DEF WayInv, Road
      <3>2. CASE f > composed \/ f \in Bells
        BY <3>2, ToSetOfNone DEF WayInv, Road, Before
      <3>3. QED
        BY <2>3, <3>1, <3>2 DEF Moved
    <2>4. QED
      BY <2>1, <2>2, <2>3
  <1>4. QED
    BY <1>2, <1>3 DEF WayInv, Road, Upwards, Before

(* What nobody needs any more is taken off a frame.                        *)
LEMMA RoadCleared ==
    ASSUME WayInv, NEW h \in Frames,
           frames' = [frames EXCEPT ![h] = <<>>], h \notin Line',
           Line' \subseteq Line, composed' = composed, pool' = pool,
           unread' \in Seq(Nat), Upwards(unread', pool.counter),
           \A f \in Line' : Before(unread', frames[f])
    PROVE  Road'
  <1>1. <<>> \in Seq(Nat) /\ Len(<<>>) = 0
    BY EmptySeq
  <1>2. frames \in [Frames -> Seq(Nat)]
    BY DEF WayInv, Road
  <1>3. frames' \in [Frames -> Seq(Nat)] /\ frames'[h] = <<>>
        /\ \A f \in Frames : f # h => frames'[f] = frames[f]
    BY <1>1, <1>2
  <1>4. ASSUME NEW f \in Frames
        PROVE  /\ Upwards(frames'[f], pool.counter)
               /\ f > composed \/ f \in Bells => frames'[f] = <<>>
               /\ f \in Line' => Before(unread', frames'[f])
               /\ \A g \in Frames : f < g => Before(frames'[f], frames'[g])
    <2>1. \A g \in Frames : f < g => Before(frames'[f], frames'[g])
      BY <1>3, ToSetOfNone DEF WayInv, Road, Before
    <2>2. CASE f = h
      <3>1. Upwards(<<>>, pool.counter)
        BY <1>1 DEF Upwards
      <3>2. QED
        BY <1>3, <2>1, <2>2, <3>1
    <2>3. CASE f # h
      BY <1>3, <2>1, <2>3 DEF WayInv, Road
    <2>4. QED
      BY <2>2, <2>3
  <1>5. QED
    BY <1>3, <1>4 DEF Road, Upwards, Before

LEMMA RoadRefused ==
    ASSUME WayInv, Refused PROVE Road'
  <1>1. /\ frames' = [frames EXCEPT ![composed] = <<>>] /\ composed \in Frames
        /\ UNCHANGED <<composed, pool, unread, queue, inHand>>
        /\ session = "composing" /\ session' = "refused"
    BY OnTheWay DEF WayInv, Refused, SubmitFull
  <1>2. composed \notin Line' /\ Line' \subseteq Line
    <2>1. composed \notin ToSet(queue \o inHand)
      BY <1>1, OnTheWay DEF WayInv, InLine
    <2>2. QED
      BY <1>1, <2>1 DEF Line
  <1>3. /\ unread' \in Seq(Nat) /\ Upwards(unread', pool.counter)
        /\ \A f \in Line' : Before(unread', frames[f])
    BY <1>1, <1>2, LineIsFrames DEF WayInv, Road
  <1>4. QED
    BY <1>1, <1>2, <1>3, RoadCleared

(* What is written goes behind what is unread, and before all the rest.    *)
LEMMA WrittenIs ==
    ASSUME WayInv, Written
    PROVE  /\ Head(inHand) \in Frames /\ Head(inHand) \in Line
           /\ Head(inHand) \notin Line' /\ Line' \subseteq Line
           /\ \A f \in Line' : Head(inHand) < f
           /\ frames[Head(inHand)] \in Seq(Nat) /\ unread \in Seq(Nat)
           /\ ToSet(unread') = ToSet(unread) \cup ToSet(frames[Head(inHand)])
  <1>1. WriteOk /\ session' = session /\ composed' = composed
    BY DEF Written, WriteOk
  <1> DEFINE h == Head(inHand)
  <1>2. /\ ToSet(inHand) = {h} /\ h \in Frames /\ ToSet(inHand') = {} /\ queue' = queue
        /\ ToSet(queue \o inHand) = ToSet(queue) \cup {h}
    BY <1>1, WriteLine, OnTheWay DEF WayInv
  <1>3. (ToSet(queue \o inHand))' = ToSet(queue)
    <2>1. queue' \in Seq(Frames) /\ inHand' \in Seq(Frames)
      BY <1>1, WriteKeeps DEF WayInv, IInv, TypeOK, Frames
    <2>2. ToSet(queue' \o inHand') = ToSet(queue') \cup ToSet(inHand')
      BY <2>1, ToSetOfBoth
    <2>3. QED
      BY <1>2, <2>2
  <1>4. \A f \in Line' : h < f
    BY <1>1, <1>2, <1>3 DEF Line, WayInv, InLine
  <1>5. h \in Line /\ Line' \subseteq Line
    BY <1>1, <1>2, <1>3 DEF Line
  <1>6. h \notin Line'
    BY <1>2, <1>4 DEF Frames
  <1>7. frames[h] \in Seq(Nat) /\ unread \in Seq(Nat)
    BY <1>2 DEF WayInv, Road
  <1>8. ToSet(unread') = ToSet(unread) \cup ToSet(frames[h])
    BY <1>7, ToSetOfBoth DEF Written
  <1>9. QED
    BY <1>2, <1>4, <1>5, <1>6, <1>7, <1>8

LEMMA RoadWritten ==
    ASSUME WayInv, Written PROVE Road'
  <1> DEFINE h == Head(inHand)
  <1>1. /\ h \in Frames /\ h \in Line /\ h \notin Line' /\ Line' \subseteq Line
        /\ \A f \in Line' : h < f
        /\ frames[h] \in Seq(Nat) /\ unread \in Seq(Nat)
        /\ ToSet(unread') = ToSet(unread) \cup ToSet(frames[h])
    BY WrittenIs
  <1>2. /\ frames' = [frames EXCEPT ![h] = <<>>] /\ unread' = unread \o frames[h]
        /\ pool' = pool /\ composed' = composed
    BY DEF Written, WriteOk
  <1>3. pool.counter \in Nat
    BY PendingIs DEF WayInv, CountInv, ShmInv
  <1>4. unread' \in Seq(Nat) /\ Upwards(unread', pool.counter)
    BY <1>1, <1>2, <1>3, UpwardsBoth DEF WayInv, Road
  <1>5. ASSUME NEW f \in Line' PROVE Before(unread', frames[f])
    <2>1. f \in Frames /\ f \in Line /\ h < f
      BY <1>1, LineIsFrames DEF WayInv
    <2>2. Before(unread, frames[f]) /\ Before(frames[h], frames[f])
      BY <1>1, <2>1 DEF WayInv, Road
    <2>3. QED
      BY <1>1, <2>2 DEF Before
  <1> HIDE DEF h
  <1>6. QED
    BY <1>1, <1>2, <1>4, <1>5, RoadCleared

LEMMA RoadParsed ==
    ASSUME WayInv, Parse PROVE Road'
  <1>1. /\ unread # <<>> /\ unread' = Tail(unread)
        /\ UNCHANGED <<pool, frames, composed, session, queue, inHand>>
    BY DEF Parse, vars
  <1>2. unread \in Seq(Nat) /\ Upwards(unread, pool.counter) /\ pool.counter \in Nat
    BY PendingIs DEF WayInv, Road, CountInv, ShmInv
  <1>3. /\ unread' \in Seq(Nat) /\ Upwards(unread', pool.counter)
        /\ ToSet(unread') \subseteq ToSet(unread)
    BY <1>1, <1>2, UpwardsLess
  <1>4. Line' = Line
    BY <1>1 DEF Line
  <1>5. \A f \in Line : Before(unread, frames[f]) => Before(unread', frames[f])
    BY <1>3 DEF Before
  <1>6. QED
    BY <1>1, <1>3, <1>4, <1>5 DEF WayInv, Road, Upwards, Before

(* A new name is the highest, on the last frame.                           *)
LEMMA RoadPlaced ==
    ASSUME WayInv, PlaceShm PROVE Road'
  <1>1. PICK len \in Lens :
              /\ pool' = Forgotten(Full(len), Over(len))
              /\ frames' = [frames EXCEPT ![composed] = Append(@, Fresh)]
    BY PlaceIs
  <1>2. IsPool(pool) /\ Rising(pool)
    BY DEF WayInv, CountInv, ShmInv
  <1>3. pool'.counter = Fresh /\ Fresh \in Nat /\ pool.counter \in Nat
        /\ pool.counter < Fresh
    <2>1. /\ IsPool(Full(len)) /\ Over(len) \in 0 .. Len(Full(len).pending)
          /\ Full(len).counter = Fresh /\ Fresh \in Nat
      BY <1>2, FullIs
    <2>2. pool'.counter = Full(len).counter
      BY <1>1, <2>1, Rest
    <2>3. QED
      BY <1>2, <2>1, <2>2, PendingIs DEF Fresh
  <1>4. /\ session = "composing" /\ composed \in Frames /\ composed \notin Bells
        /\ composed \in Line /\ composed \in Nat
        /\ UNCHANGED <<unread, composed, session, queue, inHand>>
        /\ Line' = Line
    BY OnTheWay DEF WayInv, PlaceShm, MayPlace, Composing, Line, vars
  <1> DEFINE s == frames[composed]
             t == Append(s, Fresh)
  <1>5. frames \in [Frames -> Seq(Nat)] /\ s \in Seq(Nat) /\ Upwards(s, pool.counter)
    BY <1>4 DEF WayInv, Road
  <1>6. /\ Upwards(s, Fresh) /\ t \in Seq(Nat) /\ Upwards(t, Fresh)
        /\ ToSet(t) = ToSet(s) \cup {Fresh}
    BY <1>3, <1>5, UpwardsMore
  <1>7. /\ frames' \in [Frames -> Seq(Nat)] /\ frames'[composed] = t
        /\ \A f \in Frames : f # composed => frames'[f] = frames[f]
    BY <1>1, <1>4, <1>5, <1>6
  <1>8. ASSUME NEW u \in Seq(Nat), Upwards(u, pool.counter)
        PROVE  Upwards(u, Fresh) /\ \A m \in ToSet(u) : m < Fresh
    BY <1>3, <1>8, UpwardsMore
  <1> HIDE DEF s, t
  <1>9. unread \in Seq(Nat) /\ Upwards(unread, pool.counter)
    BY DEF WayInv, Road
  <1>10. ASSUME NEW f \in Frames
         PROVE  /\ Upwards(frames'[f], Fresh)
                /\ f > composed \/ f \in Bells => frames'[f] = <<>>
                /\ f \in Line => Before(unread, frames'[f])
                /\ \A g \in Frames : f < g => Before(frames'[f], frames'[g])
    <2>1. f > composed \/ f \in Bells => f # composed
      BY <1>4
    <2>2. CASE f = composed
      <3>1. Before(unread, t)
        <4>1. Before(unread, s)
          BY <1>4 DEF WayInv, Road, s
        <4>2. QED
          BY <1>6, <1>8, <1>9, <4>1 DEF Before
      <3>2. \A g \in Frames : f < g => frames'[g] = <<>>
        BY <1>4, <1>7, <2>2 DEF WayInv, Road, Frames
      <3>3. \A g \in Frames : f < g => Before(t, frames'[g])
        BY <3>2, ToSetOfNone DEF Before
      <3>4. QED
        BY <1>6, <1>7, <2>1, <2>2, <3>1, <3>3
    <2>3. CASE f # composed
      <3>1. frames'[f] = frames[f] /\ frames[f] \in Seq(Nat)
            /\ Upwards(frames[f], pool.counter)
        BY <1>5, <1>7, <2>3 DEF WayInv, Road
      <3>2. Upwards(frames[f], Fresh) /\ \A m \in ToSet(frames[f]) : m < Fresh
        BY <1>8, <3>1
      <3>3. ASSUME NEW g \in Frames, f < g PROVE Before(frames[f], frames'[g])
        <4>1. Before(frames[f], frames[g])
          BY <3>3 DEF WayInv, Road
        <4>2. CASE g = composed
          BY <1>6, <1>7, <3>2, <4>1, <4>2 DEF Before, s
        <4>3. CASE g # composed
          BY <1>7, <4>1, <4>3
        <4>4. QED
          BY <4>2, <4>3
      <3>4. f > composed \/ f \in Bells => frames[f] = <<>>
        BY DEF WayInv, Road
      <3>5. f \in Line => Before(unread, frames[f])
        BY DEF WayInv, Road
      <3>6. QED
        BY <3>1, <3>2, <3>3, <3>4, <3>5
    <2>4. QED
      BY <2>2, <2>3
  <1>11. Upwards(unread, Fresh)
    BY <1>8, <1>9
  <1>12. QED
    BY <1>3, <1>4, <1>7, <1>9, <1>10, <1>11 DEF Road, Upwards, Before

-----------------------------------------------------------------------------
(* What is listed behind a name that is still needed is still there: the   *)
(* terminal comes to the names in their order, and a name the pool takes   *)
(* is off the list.                                                        *)
Held ==
    \A n \in Needed, e \in ToSet(pool.pending) :
        n <= e.name => Object(e.name, e.len) \in store

Stored == store \subseteq [name : Nat, len : Nat] /\ IsFiniteSet(Mine)

TakenInv == WayInv /\ Held /\ Stored

(* The names needed, by frame.                                             *)
LEMMA NeededIs ==
    ASSUME NEW n
    PROVE  n \in Needed <=> n \in ToSet(unread) \/ \E f \in Line : n \in ToSet(frames[f])
  BY DEF Needed, Line

LEMMA NeededBelow ==
    ASSUME WayInv
    PROVE  \A n \in Needed : n \in Nat /\ n <= pool.counter
  <1>1. ASSUME NEW s \in Seq(Nat), Upwards(s, pool.counter)
        PROVE  \A n \in ToSet(s) : n \in Nat /\ n <= pool.counter
    <2>1. DOMAIN s = 1 .. Len(s)
      BY LenProperties
    <2>2. pool.counter \in Nat
      BY PendingIs DEF WayInv, CountInv, ShmInv
    <2>3. QED
      BY <1>1, <2>1, <2>2 DEF Upwards, ToSet
  <1>2. \A f \in Line : frames[f] \in Seq(Nat) /\ Upwards(frames[f], pool.counter)
    BY LineIsFrames DEF WayInv, Road
  <1>3. unread \in Seq(Nat) /\ Upwards(unread, pool.counter)
    BY DEF WayInv, Road
  <1>4. QED
    BY <1>1, <1>2, <1>3, NeededIs

(* A name is listed once, and one that stays is not one that is taken.     *)
LEMMA NotTaken ==
    ASSUME NEW p, IsPool(p), Rising(p), NEW k \in 0 .. Len(p.pending),
           NEW e \in Newest(p, k)
    PROVE  e.name \notin Taken(p, k)
  <1>1. PICK i \in k + 1 .. Len(p.pending) : e = p.pending[i]
    BY DEF Newest
  <1>2. ASSUME NEW j \in 1 .. k PROVE p.pending[j].name # e.name
    <2>1. i \in 1 .. Len(p.pending) /\ j \in 1 .. i - 1 /\ j \in 1 .. Len(p.pending)
      BY <1>1, PendingIs
    <2>2. p.pending[j].name < e.name /\ p.pending[j].name \in Nat
      BY <1>1, <2>1, PendingIs DEF Rising
    <2>3. QED
      BY <2>2
  <1>3. QED
    BY <1>2 DEF Taken

LEMMA EntryIs ==
    ASSUME NEW p, IsPool(p), Rising(p), NEW e \in ToSet(p.pending)
    PROVE  /\ e.name \in Nat /\ e.name <= p.counter
           /\ e.len \in Nat /\ e.len # 0 /\ e \in Entries
  <1>1. PICK i \in 1 .. Len(p.pending) : e = p.pending[i]
    BY PendingIs DEF ToSet
  <1>2. QED
    BY <1>1, PendingIs, ShmConstants DEF Rising, Entries

(* A step that adds nothing to the road or to the list.                    *)
LEMMA HeldOn ==
    ASSUME TakenInv,
           \A n \in Needed' : n \in Needed,
           \A e \in ToSet(pool'.pending) :
              \E d \in ToSet(pool.pending) : d.name = e.name /\ d.len = e.len,
           \A n \in Needed', e \in ToSet(pool'.pending) :
              n <= e.name /\ Object(e.name, e.len) \in store
                 => Object(e.name, e.len) \in store'
    PROVE  Held'
  <1> SUFFICES ASSUME NEW n \in Needed', NEW e \in ToSet(pool'.pending), n <= e.name
               PROVE  Object(e.name, e.len) \in store'
    BY DEF Held
  <1>1. PICK d \in ToSet(pool.pending) : d.name = e.name /\ d.len = e.len
    OBVIOUS
  <1>2. Object(d.name, d.len) \in store
    BY <1>1 DEF TakenInv, Held
  <1>3. QED
    BY <1>1, <1>2

(* Names are needed as long as their frame is in line.                     *)
LEMMA NeededMoves ==
    ASSUME WayInv, Moved, Line' \subseteq Frames, UNCHANGED <<unread, frames>>
    PROVE  \A n \in Needed' : n \in Needed
  <1>1. \A f \in Line' : f \in Line \/ ToSet(frames[f]) = {}
    BY ToSetOfNone DEF Moved, WayInv, Road
  <1>2. ASSUME NEW n \in Needed' PROVE n \in Needed
    <2>1. n \in ToSet(unread) \/ \E f \in Line' : n \in ToSet(frames[f])
      BY DEF Needed, Line
    <2>2. QED
      BY <1>1, <2>1, NeededIs
  <1>3. QED
    BY <1>2

LEMMA HeldMoves ==
    ASSUME TakenInv, IInv', Moved, WriterOnly \/ UNCHANGED allVars
    PROVE  Held'
  <1>1. UNCHANGED <<unread, frames, pool, store>>
    BY DEF WriterOnly, allVars, shmVars
  <1>2. Line' \subseteq Frames
    <2>1. ToSet(queue' \o inHand') = ToSet(queue') \cup ToSet(inHand')
          /\ ToSet(queue') \subseteq Frames /\ ToSet(inHand') \subseteq Frames
      <3>1. queue' \in Seq(Frames) /\ inHand' \in Seq(Frames)
        BY DEF IInv, TypeOK, Frames
      <3>2. ToSet(queue' \o inHand') = ToSet(queue') \cup ToSet(inHand')
        BY <3>1, ToSetOfBoth
      <3>3. ToSet(queue') \subseteq Frames /\ ToSet(inHand') \subseteq Frames
        BY <3>1, LenProperties, ElementOfSeq DEF ToSet
      <3>4. QED
        BY <3>2, <3>3
    <2>2. session' = "composing" => composed' \in Frames
      BY DEF IInv, Younger, Filling
    <2>3. QED
      BY <2>1, <2>2 DEF Line
  <1>3. \A n \in Needed' : n \in Needed
    BY <1>1, <1>2, NeededMoves DEF TakenInv
  <1>4. QED
    BY <1>1, <1>3, HeldOn

LEMMA HeldRefused ==
    ASSUME TakenInv, Refused PROVE Held'
  <1>1. /\ frames' = [frames EXCEPT ![composed] = <<>>] /\ composed \in Frames
        /\ UNCHANGED <<composed, pool, store, unread, queue, inHand>>
        /\ session = "composing" /\ session' = "refused"
    BY OnTheWay DEF TakenInv, WayInv, Refused, SubmitFull
  <1>2. ToSet(queue \o inHand) \subseteq Line
    BY DEF Line
  <1>3. \A f \in Frames : ToSet(frames'[f]) \subseteq ToSet(frames[f])
    BY <1>1, ToSetOfNone DEF TakenInv, WayInv, Road
  <1>4. \A n \in Needed' : n \in Needed
    BY <1>1, <1>2, <1>3, NeededIs, LineIsFrames DEF TakenInv, WayInv, Needed
  <1>5. QED
    BY <1>1, <1>4, HeldOn

LEMMA HeldWritten ==
    ASSUME TakenInv, Written PROVE Held'
  <1> DEFINE h == Head(inHand)
  <1>1. /\ h \in Frames /\ h \in Line /\ h \notin Line' /\ Line' \subseteq Line
        /\ ToSet(unread') = ToSet(unread) \cup ToSet(frames[h])
    BY WrittenIs DEF TakenInv
  <1>2. frames' = [frames EXCEPT ![h] = <<>>] /\ UNCHANGED <<pool, store>>
    BY DEF Written
  <1>3. \A f \in Line' : frames'[f] = frames[f]
    BY <1>1, <1>2, LineIsFrames DEF TakenInv, WayInv, Road
  <1>4. ASSUME NEW n \in Needed' PROVE n \in Needed
    <2>1. n \in ToSet(unread') \/ \E f \in Line' : n \in ToSet(frames'[f])
      BY DEF Needed, Line
    <2> HIDE DEF h
    <2>2. QED
      BY <1>1, <1>3, <2>1, NeededIs
  <1>5. QED
    BY <1>2, <1>4, HeldOn

LEMMA HeldParsed ==
    ASSUME TakenInv, Parse PROVE Held'
  <1>1. /\ unread # <<>> /\ unread' = Tail(unread)
        /\ UNCHANGED <<pool, frames, composed, session, queue, inHand>>
        /\ store' = Without(store, {Head(unread)}) \/ store' = store
    BY DEF Parse, vars
  <1>2. unread \in Seq(Nat) /\ Upwards(unread, pool.counter) /\ pool.counter \in Nat
    BY PendingIs DEF TakenInv, WayInv, Road, CountInv, ShmInv
  <1>3. /\ ToSet(unread') \subseteq ToSet(unread) /\ Head(unread) \in ToSet(unread)
        /\ \A m \in ToSet(unread') : Head(unread) < m
    BY <1>1, <1>2, UpwardsLess
  <1>4. Line' = Line
    BY <1>1 DEF Line
  <1>5. ASSUME NEW n \in Needed' PROVE n \in Needed /\ Head(unread) < n
    <2>1. n \in ToSet(unread') \/ \E f \in Line : n \in ToSet(frames[f])
      BY <1>1, <1>4 DEF Needed, Line
    <2>2. \A f \in Line : Before(unread, frames[f])
      BY LineIsFrames DEF TakenInv, WayInv, Road
    <2>3. QED
      BY <1>3, <2>1, <2>2, NeededIs DEF Before
  <1>6. ASSUME NEW n \in Needed', NEW e \in ToSet(pool'.pending), n <= e.name,
               Object(e.name, e.len) \in store
        PROVE  Object(e.name, e.len) \in store'
    <2>1. e.name \in Nat /\ n \in Nat /\ Head(unread) < n /\ Head(unread) \in Nat
      <3>1. Head(unread) \in Needed
        BY <1>3, NeededIs
      <3>2. QED
        BY <1>1, <1>5, <3>1, NeededBelow, EntryIs DEF TakenInv, WayInv, CountInv, ShmInv
    <2>2. e.name # Head(unread)
      BY <1>6, <2>1
    <2>3. Object(e.name, e.len).name = e.name
      BY DEF Object
    <2>4. QED
      BY <1>1, <1>6, <2>2, <2>3 DEF Without
  <1>7. QED
    BY <1>1, <1>5, <1>6, HeldOn

LEMMA HeldAges ==
    ASSUME TakenInv, Ages PROVE Held'
  <1>0. IsPool(pool)
    BY DEF TakenInv, WayInv, CountInv, ShmInv
  <1>1. PICK i \in 1 .. Len(pool.pending), e \in Entries :
              /\ e.name = pool.pending[i].name /\ e.len = pool.pending[i].len
              /\ pool'.pending = [pool.pending EXCEPT ![i] = e]
    BY <1>0, AgeIs
  <1>2. UNCHANGED <<unread, frames, store, composed, session, queue, inHand>>
    BY DEF Ages, vars
  <1>3. \A n \in Needed' : n \in Needed
    BY <1>2 DEF Needed
  <1>4. \A x \in ToSet(pool'.pending) :
           \E d \in ToSet(pool.pending) : d.name = x.name /\ d.len = x.len
    BY <1>0, <1>1, PendingIs DEF ToSet
  <1>5. QED
    BY <1>2, <1>3, <1>4, HeldOn

LEMMA HeldDropped ==
    ASSUME TakenInv, Dropped PROVE Held'
  <1>1. pool'.pending = <<>>
    BY DEF Dropped, TakenInv, WayInv, CountInv, ShmInv, IsPool
  <1>2. QED
    BY <1>1, ToSetOfNone DEF Held

(* What is taken to make room comes off the list with it.                  *)
LEMMA RoomyStays ==
    ASSUME IsPool(pool), Rising(pool), NEW e \in ToSet(Roomy.pending)
    PROVE  /\ e \in ToSet(pool.pending)
           /\ e.name \notin Taken(Swept(pool), Due)
           /\ e.name # Fresh
  <1>1. /\ IsPool(Swept(pool)) /\ Rising(Swept(pool))
        /\ Due \in 0 .. Len(Swept(pool).pending)
        /\ e \in ToSet(pool.pending)
    BY RoomyIs
  <1>2. e \in Newest(Swept(pool), Due)
    BY <1>1, Rest DEF Roomy
  <1>3. e.name \in Nat /\ e.name <= pool.counter /\ pool.counter \in Nat
    BY <1>1, EntryIs, PendingIs
  <1>4. QED
    BY <1>1, <1>2, <1>3, NotTaken DEF Fresh

LEMMA HeldFails ==
    ASSUME TakenInv, PlaceFails PROVE Held'
  <1>0. IsPool(pool) /\ Rising(pool)
    BY DEF TakenInv, WayInv, CountInv, ShmInv
  <1>1. PICK len \in Lens :
              /\ pool' = [Roomy EXCEPT !.counter = Fresh, !.failed = TRUE]
              /\ store' = AfterError(Without(store, Taken(Swept(pool), Due)), Fresh, len)
    BY FailIs
  <1>2. pool'.pending = Roomy.pending
    BY <1>0, <1>1, RoomyIs DEF IsPool
  <1>3. \A n \in Needed' : n \in Needed
    BY DEF PlaceFails, vars, Needed
  <1>4. ASSUME NEW e \in ToSet(pool'.pending)
        PROVE  /\ e \in ToSet(pool.pending)
               /\ Object(e.name, e.len) \in store => Object(e.name, e.len) \in store'
    <2>1. /\ e \in ToSet(pool.pending) /\ e.name # Fresh
          /\ e.name \notin Taken(Swept(pool), Due)
      BY <1>0, <1>2, RoomyStays
    <2>2. QED
      BY <1>1, <2>1 DEF AfterError, Without, Object
  <1>5. QED
    BY <1>3, <1>4, HeldOn

LEMMA HeldPlaced ==
    ASSUME TakenInv, PlaceShm PROVE Held'
  <1>0. IsPool(pool) /\ Rising(pool)
    BY DEF TakenInv, WayInv, CountInv, ShmInv
  <1>1. PICK len \in Lens :
              /\ pool' = Forgotten(Full(len), Over(len))
              /\ store' = Without(store, Taken(Swept(pool), Due)
                                            \cup Taken(Full(len), Over(len)) \cup {Fresh})
                            \cup {Object(Fresh, len)}
              /\ frames' = [frames EXCEPT ![composed] = Append(@, Fresh)]
    BY PlaceIs
  <1>2. /\ IsPool(Full(len)) /\ Rising(Full(len))
        /\ Over(len) \in 0 .. Len(Full(len).pending) /\ Fresh \in Nat
        /\ ToSet(Full(len).pending) = ToSet(Roomy.pending) \cup {Entry(Fresh, len)}
    BY <1>0, FullIs
  <1>3. ASSUME NEW e \in ToSet(pool'.pending)
        PROVE  /\ e.name \notin Taken(Full(len), Over(len))
               /\ e \in ToSet(Roomy.pending) \/ e = Entry(Fresh, len)
    <2>1. ToSet(pool'.pending) = Newest(Full(len), Over(len))
      BY <1>1, <1>2, Rest
    <2>2. Newest(Full(len), Over(len)) \subseteq ToSet(Full(len).pending)
      BY <1>2, PendingIs DEF Newest, ToSet
    <2>3. QED
      BY <1>2, <2>1, <2>2, NotTaken
  <1>4. /\ UNCHANGED <<unread, composed, session, queue, inHand>>
        /\ Line' = Line
    BY DEF PlaceShm, Line, vars
  <1>5. ASSUME NEW n \in Needed' PROVE n \in Needed \/ n = Fresh
    <2>1. n \in ToSet(unread) \/ \E f \in Line : n \in ToSet(frames'[f])
      BY <1>4 DEF Needed, Line
    <2>2. \A f \in Line : ToSet(frames'[f]) \subseteq ToSet(frames[f]) \cup {Fresh}
      <3>1. /\ frames \in [Frames -> Seq(Nat)] /\ Line \subseteq Frames
        BY LineIsFrames DEF TakenInv, WayInv, Road
      <3>2. ASSUME NEW f \in Line
            PROVE  ToSet(frames'[f]) \subseteq ToSet(frames[f]) \cup {Fresh}
        <4>1. CASE f = composed
          <5>1. frames[f] \in Seq(Nat) /\ frames'[f] = Append(frames[f], Fresh)
            BY <1>1, <3>1, <4>1
          <5>2. QED
            BY <1>2, <5>1, ToSetOfMore
        <4>2. CASE f # composed
          BY <1>1, <3>1, <4>2
        <4>3. QED
          BY <4>1, <4>2
      <3>3. QED
        BY <3>2
    <2>3. QED
      BY <2>1, <2>2, NeededIs
  <1>6. ASSUME NEW n \in Needed', NEW e \in ToSet(pool'.pending), n <= e.name
        PROVE  Object(e.name, e.len) \in store'
    <2>1. CASE e = Entry(Fresh, len)
      BY <1>1, <2>1 DEF Entry
    <2>2. CASE e \in ToSet(Roomy.pending)
      <3>1. /\ e \in ToSet(pool.pending) /\ e.name # Fresh
            /\ e.name \notin Taken(Swept(pool), Due)
            /\ e.name \in Nat /\ e.name <= pool.counter /\ pool.counter \in Nat
        BY <1>0, <2>2, RoomyStays, EntryIs, PendingIs
      <3>2. n \in Needed
        BY <1>5, <1>6, <3>1 DEF Fresh
      <3>3. Object(e.name, e.len) \in store
        BY <1>6, <3>1, <3>2 DEF TakenInv, Held
      <3>4. QED
        BY <1>1, <1>3, <3>1, <3>3 DEF Without, Object
    <2>3. QED
      BY <1>3, <2>1, <2>2
  <1>7. QED
    BY <1>6 DEF Held

(* The objects of this process are finitely many.                          *)
LEMMA StoredStays ==
    ASSUME Stored, NEW o \in [name : Nat, len : Nat], store' \subseteq store \cup {o}
    PROVE  Stored'
  <1>1. Mine' \subseteq Mine \cup {o}
    BY DEF Mine
  <1>2. IsFiniteSet(Mine \cup {o})
    BY FS_AddElement DEF Stored
  <1>3. IsFiniteSet(Mine')
    BY <1>1, <1>2, FS_Subset
  <1>4. QED
    BY <1>3 DEF Stored

LEMMA StoredStep ==
    ASSUME TakenInv, [ShmNext]_allVars PROVE Stored'
  <1>1. CASE PlaceShm
    <2>1. PICK len \in Lens :
              store' = Without(store, Taken(Swept(pool), Due)
                                            \cup Taken(Full(len), Over(len)) \cup {Fresh})
                            \cup {Object(Fresh, len)}
      BY <1>1, PlaceIs
    <2>2. store' \subseteq store \cup {Object(Fresh, len)}
      BY <2>1 DEF Without
    <2>3. Object(Fresh, len) \in [name : Nat, len : Nat]
      BY PendingIs, ShmConstants DEF Object, Fresh, TakenInv, WayInv, CountInv, ShmInv
    <2>4. QED
      BY <2>2, <2>3, StoredStays DEF TakenInv
  <1>2. CASE ~PlaceShm
    <2>1. store' \subseteq store
      <3>1. CASE PlaceFails
        BY <3>1, FailIs DEF AfterError, Without
      <3>2. CASE Written \/ Refused \/ Dropped \/ WriterOnly \/ Parse \/ Ages
                    \/ UNCHANGED allVars
        BY <3>2 DEF Written, Refused, Dropped, WriterOnly, Parse, Ages, Without,
                    allVars, shmVars
      <3>3. QED
        BY <1>2, <3>1, <3>2 DEF ShmNext
    <2>2. Object(0, 0) \in [name : Nat, len : Nat] /\ store' \subseteq store \cup {Object(0, 0)}
      BY <2>1 DEF Object
    <2>3. QED
      BY <2>2, StoredStays DEF TakenInv
  <1>3. QED
    BY <1>1, <1>2

LEMMA TakenStep == TakenInv /\ [ShmNext]_allVars => TakenInv'
  <1> SUFFICES ASSUME TakenInv, [ShmNext]_allVars PROVE TakenInv'
    OBVIOUS
  <1>1. [Next]_vars
    BY DEF ShmNext, allVars, PlaceShm, PlaceFails, Written, Refused, Dropped,
           WriterOnly, Parse, Ages, Next, Session, Submit, Teardown, Thread
  <1>2. IInv'
    BY <1>1, NextIInv DEF TakenInv, WayInv
  <1>3. InLine' /\ Moved
    BY <1>1, <1>2, WriterMoves DEF TakenInv, WayInv
  <1>4. CountInv'
    BY CountStep DEF TakenInv, WayInv
  <1>5. Road'
    <2>1. CASE PlaceFails \/ Dropped \/ WriterOnly \/ Ages \/ UNCHANGED allVars
      <3>1. UNCHANGED <<unread, frames>>
        BY <2>1 DEF PlaceFails, Dropped, WriterOnly, Ages, allVars, shmVars
      <3>2. pool'.counter \in Nat /\ pool.counter \in Nat
        BY <1>4, PendingIs DEF TakenInv, WayInv, CountInv, ShmInv
      <3>3. pool.counter <= pool'.counter
        <4>0. IsPool(pool) /\ Rising(pool)
          BY DEF TakenInv, WayInv, CountInv, ShmInv
        <4>1. CASE PlaceFails
          <5>1. pool'.counter = Fresh
            BY <4>0, <4>1, FailIs, RoomyIs DEF IsPool
          <5>2. QED
            BY <3>2, <5>1 DEF Fresh
        <4>2. CASE Ages
          <5>1. pool'.counter = pool.counter
            BY <4>0, <4>2, AgeIs
          <5>2. QED
            BY <3>2, <5>1
        <4>3. CASE Dropped
          BY <3>2, <4>0, <4>3 DEF Dropped, IsPool
        <4>4. CASE WriterOnly \/ UNCHANGED allVars
          BY <3>2, <4>4 DEF WriterOnly, allVars, shmVars
        <4>5. QED
          BY <2>1, <4>1, <4>2, <4>3, <4>4
      <3>4. QED
        BY <1>2, <1>3, <3>1, <3>2, <3>3, RoadMoves DEF TakenInv
    <2>2. QED
      BY <2>1, RoadPlaced, RoadWritten, RoadRefused, RoadParsed DEF ShmNext, TakenInv
  <1>6. Held'
    <2>1. CASE WriterOnly \/ UNCHANGED allVars
      BY <1>2, <1>3, <2>1, HeldMoves
    <2>2. QED
      BY <2>1, HeldPlaced, HeldFails, HeldWritten, HeldRefused, HeldDropped,
         HeldParsed, HeldAges DEF ShmNext
  <1>7. Stored'
    BY StoredStep
  <1>8. QED
    BY <1>2, <1>3, <1>4, <1>5, <1>6, <1>7 DEF TakenInv, WayInv

-----------------------------------------------------------------------------
(* The objects that entries stand for take as much as they say.            *)
Objects(entries) == {Object(e.name, e.len) : e \in entries}

LEMMA BytesOfObjects ==
    ASSUME NEW S, Sized(S), \A x, y \in S : x.name = y.name => x = y
    PROVE  Bytes(Objects(S)) = Bytes(S)
  <1> DEFINE Right(s) == Sized(Objects(s)) /\ Bytes(Objects(s)) = Bytes(s)
             Bad == {m \in Nat : \E s \in SUBSET S : Cardinality(s) = m /\ ~Right(s)}
  <1> SUFFICES ASSUME ~Right(S) PROVE FALSE
    OBVIOUS
  <1>1. \A s \in SUBSET S : Sized(s) /\ IsFiniteSet(s) /\ Cardinality(s) \in Nat
    BY SubsetSized, FS_CardinalityType DEF Sized
  <1>2. Cardinality(S) \in Bad
    BY <1>1
  <1>3. PICK m \in Nat : m \in Bad /\ \A j \in 0 .. m - 1 : j \notin Bad
    <2> HIDE DEF Bad
    <2>1. QED
      BY <1>1, <1>2, FirstOf
  <1>4. PICK s \in SUBSET S : Cardinality(s) = m /\ ~Right(s)
    BY <1>3
  <1>5. s # {}
    <2>1. Objects({}) = {}
      BY DEF Objects
    <2>2. QED
      BY <1>1, <1>4, <2>1
  <1> DEFINE a == Some(s)
             o == Object(a.name, a.len)
  <1>6. a \in s /\ a.len \in Nat
    BY <1>1, <1>5, AnyIsIn DEF Sized
  <1> HIDE DEF a
  <1>7. Right(s \ {a})
    <2>1. /\ Cardinality(s \ {a}) = m - 1 /\ m - 1 \in Nat /\ m - 1 \in 0 .. m - 1
          /\ s \ {a} \in SUBSET S
      BY <1>1, <1>4, <1>6, LessOne
    <2>2. m - 1 \notin Bad
      <3> HIDE DEF Bad
      <3>1. QED
        BY <1>3, <2>1
    <2> HIDE DEF Right
    <2>3. QED
      BY <2>1, <2>2
  <1>8. Objects(s) = Objects(s \ {a}) \cup {o}
    BY <1>6 DEF Objects
  <1>9. o \notin Objects(s \ {a}) /\ o.len = a.len
    <2>1. ASSUME NEW x \in s \ {a} PROVE x.name # a.name
      BY <1>4, <1>6
    <2>2. QED
      BY <2>1 DEF Objects, Object
  <1> HIDE DEF o
  <1>10. /\ Sized(Objects(s)) /\ Bytes(Objects(s)) = a.len + Bytes(Objects(s \ {a}))
    <2>1. o.len \in Nat /\ Sized(Objects(s \ {a}))
      BY <1>6, <1>7, <1>9
    <2>2. /\ Sized(Objects(s \ {a}) \cup {o})
          /\ Bytes(Objects(s \ {a}) \cup {o}) = o.len + Bytes(Objects(s \ {a}))
      BY <1>9, <2>1, BytesMore
    <2>3. QED
      BY <1>8, <1>9, <2>2
  <1>11. Bytes(s) = a.len + Bytes(s \ {a})
    BY <1>1, <1>6, BytesLess
  <1>12. QED
    BY <1>4, <1>7, <1>10, <1>11

(* What is taken for want of memory, while it is still needed.             *)
LEMMA TakenForRoom ==
    ASSUME TakenInv, session = "composing",
           NEW n \in Needed, n \in Taken(Swept(pool), Due)
    PROVE  MayGo(n)
  <1> DEFINE p == Swept(pool)
             s == p.pending
  <1>0. IsPool(pool) /\ Rising(pool) /\ Counts(pool)
    BY CountedIs DEF TakenInv, WayInv, CountInv, ShmInv, Lasting
  <1>1. /\ IsPool(p) /\ Rising(p) /\ Counts(p)
        /\ ToSet(s) \subseteq ToSet(pool.pending)
        /\ Due \in 0 .. Len(s) /\ Len(s) \in Nat
    BY <1>0, RoomyIs, PendingIs
  <1> HIDE DEF p
  <1>2. PICK i \in 1 .. Due : s[i].name = n
    BY DEF Taken, p
  <1>3. /\ i \in 1 .. Len(s)
        /\ ~(Forgotten(p, i - 1).outstanding <= Budget) \/ s[i].aged
    BY <1>1, DueIs DEF Due, p
  <1>4. s[i] \in ToSet(s)
    BY <1>1, <1>3, PendingIs DEF ToSet
  <1>5. CASE s[i].aged
    BY <1>1, <1>2, <1>4, <1>5 DEF MayGo
  <1>6. CASE ~(Forgotten(p, i - 1).outstanding <= Budget)
    <2> DEFINE later == Newest(p, i - 1)
               behind == {o \in Mine : o.name >= n}
    <2>1. i - 1 \in 0 .. Len(s) /\ (i - 1) + 1 = i
      BY <1>1, <1>3
    <2>2. Forgotten(p, i - 1).outstanding = Bytes(later)
      BY <1>1, <2>1, ForgettingCounts
    <2>3. later \subseteq ToSet(s)
      BY <1>1, <2>1, PendingIs DEF Newest, ToSet
    <2>4. Sized(later)
      BY <1>1, <2>3, PendingSized
    <2>5. ASSUME NEW x \in ToSet(s), NEW y \in ToSet(s), x.name = y.name PROVE x = y
      <3>1. PICK j \in 1 .. Len(s), k \in 1 .. Len(s) : x = s[j] /\ y = s[k]
        BY <1>1, PendingIs DEF ToSet
      <3>2. s[j].name \in Nat /\ s[k].name \in Nat
        BY <1>1, PendingIs
      <3>3. CASE j < k
        <4>1. j \in 1 .. k - 1
          BY <1>1, <3>3
        <4>2. QED
          BY <1>1, <2>5, <3>1, <3>2, <4>1 DEF Rising
      <3>4. CASE k < j
        <4>1. k \in 1 .. j - 1
          BY <1>1, <3>4
        <4>2. QED
          BY <1>1, <2>5, <3>1, <3>2, <4>1 DEF Rising
      <3>5. QED
        BY <1>1, <3>1, <3>3, <3>4
    <2>6. Bytes(Objects(later)) = Bytes(later)
      BY <2>3, <2>4, <2>5, BytesOfObjects
    <2>7. ASSUME NEW e \in later
          PROVE  Object(e.name, e.len) \in behind
      <3>1. PICK j \in i .. Len(s) : e = s[j]
        BY <2>1 DEF Newest
      <3>2. j \in 1 .. Len(s) /\ s[j].name \in Nat /\ n \in Nat
        BY <1>1, <1>2, <1>3, <3>1, PendingIs
      <3>3. n <= e.name
        <4>1. CASE j = i
          BY <1>2, <3>1, <3>2, <4>1
        <4>2. CASE i < j
          <5>1. i \in 1 .. j - 1
            BY <1>1, <4>2
          <5>2. QED
            BY <1>1, <1>2, <3>1, <3>2, <5>1 DEF Rising
        <4>3. QED
          BY <1>1, <4>1, <4>2
      <3>4. e \in ToSet(pool.pending) /\ e.len # 0 /\ e.name \in Nat
        BY <1>0, <1>1, <2>3, EntryIs
      <3>5. Object(e.name, e.len) \in store
        BY <3>3, <3>4 DEF TakenInv, Held
      <3>6. QED
        BY <3>2, <3>3, <3>4, <3>5 DEF Mine, Object
    <2>8. Objects(later) \subseteq behind
      BY <2>7 DEF Objects
    <2>9. Sized(behind)
      <3>1. IsFiniteSet(Mine) /\ behind \subseteq Mine /\ \A o \in Mine : o.len \in Nat
        BY DEF TakenInv, Stored, Mine
      <3>2. QED
        BY <3>1, FS_Subset DEF Sized
    <2> HIDE DEF later, behind
    <2>10. Bytes(Objects(later)) <= Bytes(behind)
      BY <2>8, <2>9, BytesGrow
    <2>11. Bytes(later) \in Nat /\ Bytes(behind) \in Nat /\ Budget \in Nat
      BY <2>4, <2>9, BytesOfLess, ShmConstants
    <2>12. Bytes(behind) > Budget
      BY <1>6, <2>2, <2>6, <2>10, <2>11
    <2>13. QED
      BY <2>12 DEF MayGo, behind
  <1>7. QED
    BY <1>3, <1>5, <1>6

(* The pool itself takes only what must go.                                *)
LEMMA TakenStepwise ==
    ASSUME TakenInv, ShmNext,
           NEW n \in (Needed \cap Names(Mine)) \ Names(store')
    PROVE  \/ session' = "closing"
           \/ unread # <<>> /\ n = Head(unread) /\ unread' = Tail(unread)
           \/ MayGo(n)
  <1>0. IsPool(pool) /\ Rising(pool)
    BY DEF TakenInv, WayInv, CountInv, ShmInv
  <1>1. PICK o \in store : o.name = n /\ o.len # 0 /\ o \notin store'
    BY DEF Names, Mine
  <1>2. n \in Nat /\ n < Fresh
    <2>1. n \in Nat /\ n <= pool.counter /\ pool.counter \in Nat
      BY <1>0, NeededBelow, PendingIs DEF TakenInv
    <2>2. QED
      BY <2>1 DEF Fresh
  <1>3. CASE PlaceShm
    <2>1. PICK len \in Lens :
              /\ pool' = Forgotten(Full(len), Over(len))
              /\ store' = Without(store, Taken(Swept(pool), Due)
                                            \cup Taken(Full(len), Over(len)) \cup {Fresh})
                            \cup {Object(Fresh, len)}
      BY <1>3, PlaceIs
    <2>2. n \in Taken(Swept(pool), Due) \/ n \in Taken(Full(len), Over(len))
      BY <1>1, <1>2, <2>1 DEF Without
    <2>3. session = "composing"
      BY <1>3 DEF PlaceShm, MayPlace, Composing
    <2>4. CASE n \in Taken(Swept(pool), Due)
      BY <2>3, <2>4, TakenForRoom
    <2>5. CASE n \in Taken(Full(len), Over(len))
      <3>1. Over(len) # 0
        BY <2>5 DEF Taken
      <3>2. Len(pool.pending) >= MaxPending
        BY <1>0, <3>1, FullIs
      <3>3. QED
        BY <3>2 DEF MayGo
    <2>6. QED
      BY <2>2, <2>4, <2>5
  <1>4. CASE PlaceFails
    <2>1. PICK len \in Lens :
              store' = AfterError(Without(store, Taken(Swept(pool), Due)), Fresh, len)
      BY <1>4, FailIs
    <2>2. n \in Taken(Swept(pool), Due)
      BY <1>1, <1>2, <2>1 DEF AfterError, Without
    <2>3. session = "composing"
      BY <1>4 DEF PlaceFails, MayPlace, Composing
    <2>4. QED
      BY <2>2, <2>3, TakenForRoom
  <1>5. CASE Dropped
    BY <1>5 DEF Dropped, Shutdown
  <1>6. CASE Parse
    BY <1>1, <1>6 DEF Parse, Without
  <1>7. CASE Written \/ Refused \/ WriterOnly \/ Ages
    BY <1>1, <1>7 DEF Written, Refused, WriterOnly, Ages, shmVars
  <1>8. QED
    BY <1>3, <1>4, <1>5, <1>6, <1>7 DEF ShmNext

LEMMA TakenHolds == ShmSpec => []TakenInv
  <1>1. ShmInit /\ CountInv => TakenInv
    <2> SUFFICES ASSUME ShmInit, CountInv PROVE TakenInv
      OBVIOUS
    <2>1. IInv /\ session = "idle" /\ queue = <<>> /\ inHand = <<>> /\ composed = 0
      BY InitIInv DEF ShmInit, Init
    <2>2. <<>> \in Seq(Nat) /\ Len(<<>>) = 0 /\ ToSet(<<>>) = {}
      BY EmptySeq, ToSetOfNone
    <2>3. ToSet(queue \o inHand) = {}
      BY <2>1, <2>2, OnTheWay
    <2>4. InLine /\ Line = {}
      BY <2>1, <2>2, <2>3 DEF InLine, Line
    <2>5. unread = <<>> /\ frames \in [Frames -> Seq(Nat)]
          /\ \A f \in Frames : frames[f] = <<>>
      BY <2>2 DEF ShmInit, Frames
    <2>6. Road
      BY <2>2, <2>4, <2>5 DEF Road, Upwards, Before
    <2>7. Held
      BY <2>2 DEF ShmInit, Held
    <2>8. Stored
      <3>1. Mine = {}
        BY DEF ShmInit, Mine, Object
      <3>2. store \subseteq [name : Nat, len : Nat]
        BY ShmConstants DEF ShmInit, Object
      <3>3. QED
        BY <3>1, <3>2, FS_EmptySet DEF Stored
    <2>9. QED
      BY <2>1, <2>4, <2>6, <2>7, <2>8 DEF TakenInv, WayInv
  <1>2. QED
    BY <1>1, TakenStep, CountHolds, PTL DEF ShmSpec

(* While the session lasts, what a tile still needs is taken before the    *)
(* terminal has come to it only past the budget, past the backstop, or     *)
(* past what the list may hold (sweep).                                    *)
THEOREM RoomTaken == ShmSpec => TakenWhenItMust
  <1>1. TakenInv /\ [ShmNext]_allVars =>
        [\A n \in (Needed \cap Names(Mine)) \ Names(store') :
          \/ session' = "closing"
          \/ unread # <<>> /\ n = Head(unread) /\ unread' = Tail(unread)
          \/ MayGo(n)]_allVars
    BY TakenStepwise
  <1>2. QED
    BY <1>1, TakenHolds, PTL DEF ShmSpec, TakenWhenItMust
=============================================================================
