---------------------------- MODULE FrameWriter -----------------------------
(***************************************************************************)
(* The terminal writer of term/writer.rs: a thread that owns stdout, fed   *)
(* through a channel of one slot by the session loop, and the buffers that *)
(* come back to be filled again.                                           *)
(*                                                                         *)
(* A frame is the number the loop composed it under: what is in it is the  *)
(* business of the modules about tiles, pointer and chrome.                *)
(***************************************************************************)
EXTENDS Naturals, Sequences

CONSTANTS
    Pool,         \* POOL, the room there is for returned buffers
    MaxFrames,    \* bound: how many frames the session composes
    Bells         \* the frames handed over with submit_blocking

ASSUME PoolAssumption == Pool \in Nat \ {0}
ASSUME FramesAssumption == MaxFrames \in Nat
ASSUME BellsAssumption == Bells \subseteq 1 .. MaxFrames

VARIABLES
    session,      \* where the caller is: the loop, or the shutdown it ends in
    composed,     \* the frame last begun
    sender,       \* frames: Option<SyncSender>, TRUE while it is Some
    queue,        \* sync_channel(1)
    thread,       \* where the writer thread is
    inHand,       \* the frame the thread is writing, if any
    returned,     \* how many cleared buffers wait in the back channel
    terminal,     \* whether the terminal reads what it is written
    accepted,     \* history: the frames the channel took
    shown,        \* history: the frames written out and flushed
    dropped       \* Session::dropped

vars == <<session, composed, sender, queue, thread, inHand, returned,
          terminal, accepted, shown, dropped>>

Callers == {"idle", "composing", "blocked", "refused", "failed",
            "closing", "joined", "abandoned"}

TypeOK ==
    /\ session \in Callers
    /\ composed \in 0 .. MaxFrames
    /\ sender \in BOOLEAN
    /\ queue \in Seq(1 .. MaxFrames)
    /\ Len(queue) <= 1
    /\ thread \in {"waiting", "writing", "ended"}
    /\ inHand \in Seq(1 .. MaxFrames)
    /\ Len(inHand) = IF thread = "writing" THEN 1 ELSE 0
    /\ returned \in 0 .. Pool
    /\ terminal \in {"draining", "stalled", "gone"}
    /\ accepted \in Seq(1 .. MaxFrames)
    /\ shown \in Seq(1 .. MaxFrames)
    /\ dropped \in Nat

Init ==
    /\ session = "idle"
    /\ composed = 0
    /\ sender = TRUE
    /\ queue = <<>>
    /\ thread = "waiting"
    /\ inHand = <<>>
    /\ returned = 0
    /\ terminal = "draining"
    /\ accepted = <<>>
    /\ shown = <<>>
    /\ dropped = 0

-----------------------------------------------------------------------------
(* The back channel: try_send keeps a buffer when there is room for it and *)
(* frees it when there is not.                                             *)
GiveBack == returned' = IF returned < Pool THEN returned + 1 ELSE returned

(* A slip: buffers come back and none is ever reused.                      *)
TakeFresh ==
    /\ session = "idle"
    /\ composed < MaxFrames
    /\ composed' = composed + 1
    /\ session' = "composing"
    /\ UNCHANGED <<sender, queue, thread, inHand, returned, terminal, accepted,
                   shown, dropped>>

(* take_buffer: an old buffer if one has come back, a new one otherwise.   *)
TakeBuffer ==
    /\ session = "idle"
    /\ composed < MaxFrames
    /\ composed' = composed + 1
    /\ session' = "composing"
    /\ returned' = IF returned > 0 THEN returned - 1 ELSE 0
    /\ UNCHANGED <<sender, queue, thread, inHand, terminal, accepted, shown,
                   dropped>>

Enqueue ==
    /\ queue' = Append(queue, composed)
    /\ accepted' = Append(accepted, composed)

(* submit, when the slot is free.                                          *)
SubmitOk ==
    /\ session = "composing"
    /\ composed \notin Bells
    /\ thread # "ended"
    /\ Len(queue) < 1
    /\ Enqueue
    /\ session' = "idle"
    /\ UNCHANGED <<composed, sender, thread, inHand, returned, terminal, shown,
                   dropped>>

(* submit, when the writer has not taken the previous frame yet: the       *)
(* buffer comes back as Busy::Full and the frame is counted as dropped.    *)
SubmitFull ==
    /\ session = "composing"
    /\ composed \notin Bells
    /\ thread # "ended"
    /\ Len(queue) = 1
    /\ session' = "refused"
    /\ dropped' = dropped + 1
    /\ UNCHANGED <<composed, sender, queue, thread, inHand, returned, terminal,
                   accepted, shown>>

(* recycle: the buffer of a dropped frame goes back for the next.          *)
Recycle ==
    /\ session = "refused"
    /\ GiveBack
    /\ session' = "idle"
    /\ UNCHANGED <<composed, sender, queue, thread, inHand, terminal, accepted,
                   shown, dropped>>

(* submit, when the thread is gone: Busy::Closed, on which draw bails out. *)
SubmitClosed ==
    /\ session = "composing"
    /\ composed \notin Bells
    /\ thread = "ended"
    /\ session' = "failed"
    /\ UNCHANGED <<composed, sender, queue, thread, inHand, returned, terminal,
                   accepted, shown, dropped>>

(* submit_blocking: the caller enters send(), which returns when the slot  *)
(* is free or the thread is gone.                                          *)
SubmitBlocking ==
    /\ session = "composing"
    /\ composed \in Bells
    /\ session' = "blocked"
    /\ UNCHANGED <<composed, sender, queue, thread, inHand, returned, terminal,
                   accepted, shown, dropped>>

SendCompletes ==
    /\ session = "blocked"
    /\ thread # "ended"
    /\ Len(queue) < 1
    /\ Enqueue
    /\ session' = "idle"
    /\ UNCHANGED <<composed, sender, thread, inHand, returned, terminal, shown,
                   dropped>>

SendFails ==
    /\ session = "blocked"
    /\ thread = "ended"
    /\ session' = "idle"
    /\ UNCHANGED <<composed, sender, queue, thread, inHand, returned, terminal,
                   accepted, shown, dropped>>

(* shutdown, reached by drop: the channel is closed, and the caller waits  *)
(* for the thread to say it is done.                                       *)
Shutdown ==
    /\ session \in {"idle", "failed"}
    /\ sender' = FALSE
    /\ session' = "closing"
    /\ UNCHANGED <<composed, queue, thread, inHand, returned, terminal,
                   accepted, shown, dropped>>

Join ==
    /\ session = "closing"
    /\ thread = "ended"
    /\ session' = "joined"
    /\ UNCHANGED <<composed, sender, queue, thread, inHand, returned, terminal,
                   accepted, shown, dropped>>

(* DRAIN_GRACE runs out with the thread still at work.                     *)
GraceElapses ==
    /\ session = "closing"
    /\ thread # "ended"
    /\ session' = "abandoned"
    /\ UNCHANGED <<composed, sender, queue, thread, inHand, returned, terminal,
                   accepted, shown, dropped>>

-----------------------------------------------------------------------------
(* The thread.                                                             *)
Receive ==
    /\ thread = "waiting"
    /\ queue # <<>>
    /\ inHand' = <<Head(queue)>>
    /\ queue' = Tail(queue)
    /\ thread' = "writing"
    /\ UNCHANGED <<session, composed, sender, returned, terminal, accepted,
                   shown, dropped>>

WriteOk ==
    /\ thread = "writing"
    /\ terminal = "draining"
    /\ shown' = shown \o inHand
    /\ inHand' = <<>>
    /\ GiveBack
    /\ thread' = "waiting"
    /\ UNCHANGED <<session, composed, sender, queue, terminal, accepted,
                   dropped>>

(* A slip: an error is skipped over and the loop goes on.                  *)
WriteSkips ==
    /\ thread = "writing"
    /\ terminal = "gone"
    /\ inHand' = <<>>
    /\ thread' = "waiting"
    /\ UNCHANGED <<session, composed, sender, queue, returned, terminal,
                   accepted, shown, dropped>>

(* A broken pipe ends the loop, and what was queued goes with the receiver.*)
WriteFails ==
    /\ thread = "writing"
    /\ terminal = "gone"
    /\ inHand' = <<>>
    /\ queue' = <<>>
    /\ thread' = "ended"
    /\ UNCHANGED <<session, composed, sender, returned, terminal, accepted,
                   shown, dropped>>

(* A slip: the thread looks at a stop flag and leaves the channel as it is.*)
StopAtOnce ==
    /\ thread = "waiting"
    /\ ~sender
    /\ queue' = <<>>
    /\ thread' = "ended"
    /\ UNCHANGED <<session, composed, sender, inHand, returned, terminal,
                   accepted, shown, dropped>>

(* recv fails once the sender is gone and the channel is empty.            *)
Disconnected ==
    /\ thread = "waiting"
    /\ queue = <<>>
    /\ ~sender
    /\ thread' = "ended"
    /\ UNCHANGED <<session, composed, sender, queue, inHand, returned,
                   terminal, accepted, shown, dropped>>

-----------------------------------------------------------------------------
(* The terminal may stop reading its pty, start again, or go away.         *)
TerminalChanges ==
    /\ terminal # "gone"
    /\ terminal' \in {"draining", "stalled", "gone"} \ {terminal}
    /\ UNCHANGED <<session, composed, sender, queue, thread, inHand, returned,
                   accepted, shown, dropped>>

Finished ==
    /\ session \in {"joined", "abandoned"}
    /\ UNCHANGED vars

Submit == SubmitOk \/ SubmitFull \/ SubmitClosed
Session == \/ TakeBuffer \/ Submit \/ Recycle
           \/ SubmitBlocking \/ SendCompletes \/ SendFails
Teardown == Shutdown \/ Join \/ GraceElapses
Thread == Receive \/ WriteOk \/ WriteFails \/ Disconnected

Next == Session \/ Teardown \/ Thread \/ TerminalChanges \/ Finished

Spec == Init /\ [][Next]_vars

(* The thread is scheduled, and a terminal that reads again and again does *)
(* read what is being written to it; the loop comes round to what it has   *)
(* begun, and the grace period ends. Nothing makes the terminal read, and  *)
(* nothing makes anyone quit.                                              *)
Fairness ==
    /\ WF_vars(Receive \/ WriteFails \/ Disconnected)
    /\ SF_vars(WriteOk)
    /\ WF_vars(Submit \/ Recycle \/ SubmitBlocking \/ SendCompletes \/ SendFails)
    /\ WF_vars(Join \/ GraceElapses)

FairSpec == Spec /\ Fairness

-----------------------------------------------------------------------------
(* Between the loop and a terminal that is still there, every accepted     *)
(* frame is written, in hand or queued, and in the order it was accepted:  *)
(* the single slot, the thread's hands and the pty make one queue.         *)
InOrder ==
    (terminal # "gone" \/ thread # "ended") =>
        accepted = shown \o inHand \o queue

(* shutdown: "Flush everything queued and stop the thread." When the       *)
(* thread is joined rather than abandoned and the terminal is there, the   *)
(* last frame has been written: the drop of the sender loses nothing.      *)
JoinedMeansFlushed ==
    (session = "joined" /\ terminal # "gone") => shown = accepted

(* Three buffers at most exist at once, however the returns and the drops  *)
(* interleave: one being filled, one queued, one being written, and those  *)
(* waiting to be reused only in the place of one of these.                 *)
Live ==
    returned + Len(queue) + Len(inHand)
        + (IF session \in {"composing", "blocked", "refused"} THEN 1 ELSE 0)
BuffersBounded == Live <= 3

(* The path as a whole is the bounded queue of FrameQueue: two frames      *)
(* behind at most, and a refusal only while something is on its way.       *)
Abstract == INSTANCE FrameQueue WITH
                Frames <- 1 .. MaxFrames,
                broken <- (thread = "ended" /\ terminal = "gone")
ImplementsQueue == Abstract!Spec

(* "a terminal that stops draining its pty can never stall the async       *)
(* runtime": whatever the loop is in the middle of, it gets out of.        *)
NeverStalled == session \in {"composing", "blocked", "refused"}
                    ~> session \notin {"composing", "blocked", "refused"}
=============================================================================
