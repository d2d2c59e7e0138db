------------------------------- MODULE Stdout -------------------------------
(***************************************************************************)
(* Who holds stdout over the life of the process: main.rs enters and       *)
(* leaves the terminal through TerminalGuard (term/mod.rs), every session  *)
(* of session::run has a writer thread (term/writer.rs) that locks stdout  *)
(* for as long as it lives, and what the main thread itself writes --      *)
(* setup, notices between sessions, a geometry query, the teardown -- goes *)
(* through io::stdout(), which takes the same lock.                        *)
(***************************************************************************)
EXTENDS Naturals

CONSTANTS
    Sessions,     \* bound: how many sessions the process has, 1 .. Sessions
    NoOne,        \* the lock is free
    Reconnect,    \* --reconnect
    PixelIoctl,   \* TIOCGWINSZ reports the size in pixels
    Panics,       \* the loop thread may panic
    MayStall      \* the terminal may stop reading its pty

ASSUME SessionsAssumption == Sessions \in Nat \ {0}
ASSUME FlagsAssumption ==
    {Reconnect, PixelIoctl, Panics, MayStall} \subseteq BOOLEAN

Writers == 1 .. Sessions
ASSUME NoOneAssumption == NoOne \notin Writers

VARIABLES
    main,         \* where the main thread is
    outcome,      \* why the session it is closing ended
    session,      \* the session last begun, 0 before the first
    writer,       \* where each session's writer thread is
    sender,       \* whether the session still holds the frame channel
    queued,       \* frames in the channel
    lock,         \* the thread that holds stdout for as long as it lives
    fullScreen,   \* FULL_SCREEN
    raw,          \* RAW, and the terminal's own mode with it
    alternate,    \* whether the terminal has been told SETUP and not TEARDOWN
    terminal      \* whether the terminal reads what it is written

stdoutVars == <<main, outcome, session, writer, sender, queued, lock, fullScreen,
                raw, alternate, terminal>>

Stages == {"entering", "starting", "running", "querying", "closing",
           "noticing", "leaving", "restoring", "panicking", "unwinding",
           "exited"}

StdoutTypeOK ==
    /\ main \in Stages
    /\ outcome \in {"none", "quit", "lost", "panic"}
    /\ session \in 0 .. Sessions
    /\ writer \in [Writers -> {"unborn", "locking", "waiting", "writing", "ended"}]
    /\ sender \in [Writers -> BOOLEAN]
    /\ queued \in [Writers -> 0 .. 1]
    /\ lock \in Writers \union {NoOne}
    /\ fullScreen \in BOOLEAN
    /\ raw \in BOOLEAN
    /\ alternate \in BOOLEAN
    /\ terminal \in {"draining", "stalled", "gone"}

StdoutInit ==
    /\ main = "entering"
    /\ outcome = "none"
    /\ session = 0
    /\ writer = [w \in Writers |-> "unborn"]
    /\ sender = [w \in Writers |-> FALSE]
    /\ queued = [w \in Writers |-> 0]
    /\ lock = NoOne
    /\ fullScreen = FALSE
    /\ raw = TRUE
    /\ alternate = FALSE
    /\ terminal = "draining"

-----------------------------------------------------------------------------
(* The main thread writes by taking the lock, writing and letting it go:   *)
(* possible once no writer thread holds it and the terminal takes bytes or *)
(* is gone, in which case the write fails at once.                         *)
MainCanWrite == lock = NoOne /\ terminal # "stalled"
Reached(told) == IF terminal = "gone" THEN alternate ELSE told

(* begin_full_screen: an error here ends the program before any session.   *)
BeginFullScreen ==
    /\ main = "entering"
    /\ MainCanWrite
    /\ alternate' = Reached(TRUE)
    /\ fullScreen' = (terminal # "gone")
    /\ main' = IF terminal = "gone" THEN "leaving" ELSE "starting"
    /\ UNCHANGED <<outcome, session, writer, sender, queued, lock, raw, terminal>>

(* Session::new spawns the writer, or fails before it does.                *)
StartSession ==
    /\ main = "starting"
    /\ session < Sessions
    /\ session' = session + 1
    /\ writer' = [writer EXCEPT ![session + 1] = "locking"]
    /\ sender' = [sender EXCEPT ![session + 1] = TRUE]
    /\ main' = "running"
    /\ UNCHANGED <<outcome, queued, lock, fullScreen, raw, alternate, terminal>>

StartFails ==
    /\ main = "starting"
    /\ main' = "leaving"
    /\ UNCHANGED <<outcome, session, writer, sender, queued, lock, fullScreen,
                   raw, alternate, terminal>>

(* draw hands over a frame when the channel has room.                      *)
Submit ==
    /\ main = "running"
    /\ writer[session] # "ended"
    /\ queued[session] = 0
    /\ queued' = [queued EXCEPT ![session] = 1]
    /\ UNCHANGED <<main, outcome, session, writer, sender, lock, fullScreen,
                   raw, alternate, terminal>>

(* on_tick measures the window after a resize; without pixels from the     *)
(* ioctl, Metrics::query asks the terminal over stdout.                    *)
BeginQuery ==
    /\ main = "running"
    /\ ~PixelIoctl
    /\ main' = "querying"
    /\ UNCHANGED <<outcome, session, writer, sender, queued, lock, fullScreen,
                   raw, alternate, terminal>>

EndQuery ==
    /\ main = "querying"
    /\ MainCanWrite
    /\ main' = "running"
    /\ UNCHANGED <<outcome, session, writer, sender, queued, lock, fullScreen,
                   raw, alternate, terminal>>

(* The session ends -- the user quits, the connection or the writer fails  *)
(* -- and is dropped, which begins FrameWriter::shutdown.                  *)
EndSession ==
    /\ main = "running"
    /\ outcome' \in {"quit", "lost"}
    /\ sender' = [sender EXCEPT ![session] = FALSE]
    /\ main' = "closing"
    /\ UNCHANGED <<session, writer, queued, lock, fullScreen, raw, alternate,
                   terminal>>

AfterSession ==
    IF outcome = "lost" /\ Reconnect THEN "noticing" ELSE "leaving"

Join ==
    /\ main = "closing"
    /\ writer[session] = "ended"
    /\ main' = AfterSession
    /\ UNCHANGED <<outcome, session, writer, sender, queued, lock, fullScreen,
                   raw, alternate, terminal>>

(* DRAIN_GRACE is long for a thread that has only its own work to do: it   *)
(* runs out on one that waits for the terminal, or for the lock.           *)
GraceElapses ==
    /\ main = "closing"
    /\ \/ writer[session] = "writing" /\ terminal = "stalled"
       \/ writer[session] = "locking" /\ lock # NoOne
    /\ main' = AfterSession
    /\ UNCHANGED <<outcome, session, writer, sender, queued, lock, fullScreen,
                   raw, alternate, terminal>>

(* notice, once or for as long as connecting fails; then another session.  *)
Notice ==
    /\ main = "noticing"
    /\ MainCanWrite
    /\ main' \in {"noticing", "starting"}
    /\ UNCHANGED <<outcome, session, writer, sender, queued, lock, fullScreen,
                   raw, alternate, terminal>>

(* The panic hook runs on the loop's thread, the session still alive.      *)
Panic ==
    /\ Panics
    /\ main = "running"
    /\ main' = "panicking"
    /\ outcome' = "panic"
    /\ UNCHANGED <<session, writer, sender, queued, lock, fullScreen, raw,
                   alternate, terminal>>

(* leave: whoever swaps FULL_SCREEN writes TEARDOWN, and raw mode goes     *)
(* once that is written.                                                   *)
LeaveFullScreen ==
    /\ main \in {"leaving", "panicking"}
    /\ fullScreen
    /\ fullScreen' = FALSE
    /\ main' = IF main = "leaving" THEN "restoring" ELSE "unwinding"
    /\ UNCHANGED <<outcome, session, writer, sender, queued, lock, raw,
                   alternate, terminal>>

AfterLeave(done) ==
    /\ raw' = FALSE
    /\ IF done
         THEN main' = "exited" /\ sender' = sender
         ELSE main' = "closing" /\ sender' = [sender EXCEPT ![session] = FALSE]

(* A slip: the teardown is written past the lock.                          *)
TeardownUnlocked ==
    /\ main \in {"restoring", "unwinding"}
    /\ terminal # "stalled"
    /\ alternate' = Reached(FALSE)
    /\ AfterLeave(main = "restoring")
    /\ UNCHANGED <<outcome, session, writer, queued, lock, fullScreen, terminal>>

WriteTeardown ==
    /\ main \in {"restoring", "unwinding"}
    /\ MainCanWrite
    /\ alternate' = Reached(FALSE)
    /\ AfterLeave(main = "restoring")
    /\ UNCHANGED <<outcome, session, writer, queued, lock, fullScreen, terminal>>

(* A slip: FULL_SCREEN is not what decides whether there is more to undo.  *)
LeaveRawOnly ==
    /\ main \in {"leaving", "panicking"}
    /\ AfterLeave(main = "leaving")
    /\ UNCHANGED <<outcome, session, writer, queued, lock, fullScreen,
                   alternate, terminal>>

LeaveAgain ==
    /\ main \in {"leaving", "panicking"}
    /\ ~fullScreen
    /\ AfterLeave(main = "leaving")
    /\ UNCHANGED <<outcome, session, writer, queued, lock, fullScreen,
                   alternate, terminal>>

-----------------------------------------------------------------------------
(* A writer thread, until the process exits under it.                      *)
Lock(w) ==
    /\ main # "exited"
    /\ writer[w] = "locking"
    /\ lock = NoOne
    /\ lock' = w
    /\ writer' = [writer EXCEPT ![w] = "waiting"]
    /\ UNCHANGED <<main, outcome, session, sender, queued, fullScreen, raw,
                   alternate, terminal>>

Receive(w) ==
    /\ main # "exited"
    /\ writer[w] = "waiting"
    /\ queued[w] = 1
    /\ queued' = [queued EXCEPT ![w] = 0]
    /\ writer' = [writer EXCEPT ![w] = "writing"]
    /\ UNCHANGED <<main, outcome, session, sender, lock, fullScreen, raw,
                   alternate, terminal>>

WriteOk(w) ==
    /\ main # "exited"
    /\ writer[w] = "writing"
    /\ terminal = "draining"
    /\ writer' = [writer EXCEPT ![w] = "waiting"]
    /\ UNCHANGED <<main, outcome, session, sender, queued, lock, fullScreen,
                   raw, alternate, terminal>>

(* A slip: a thread that ends leaves stdout locked.                        *)
EndLocked(w) ==
    /\ main # "exited"
    /\ \/ writer[w] = "writing" /\ terminal = "gone"
       \/ writer[w] = "waiting" /\ queued[w] = 0 /\ ~sender[w]
    /\ writer' = [writer EXCEPT ![w] = "ended"]
    /\ UNCHANGED <<main, outcome, session, sender, queued, lock, fullScreen,
                   raw, alternate, terminal>>

(* The loop ends on a broken pipe, or on a closed and empty channel; the   *)
(* lock goes with the thread.                                              *)
End(w) ==
    /\ main # "exited"
    /\ \/ writer[w] = "writing" /\ terminal = "gone"
       \/ writer[w] = "waiting" /\ queued[w] = 0 /\ ~sender[w]
    /\ writer' = [writer EXCEPT ![w] = "ended"]
    /\ lock' = NoOne
    /\ UNCHANGED <<main, outcome, session, sender, queued, fullScreen, raw,
                   alternate, terminal>>

TerminalChanges ==
    /\ terminal # "gone"
    /\ terminal' \in {"draining", "gone"} \union
                        (IF MayStall THEN {"stalled"} ELSE {})
    /\ terminal' # terminal
    /\ UNCHANGED <<main, outcome, session, writer, sender, queued, lock,
                   fullScreen, raw, alternate>>

Exited == main = "exited" /\ UNCHANGED stdoutVars

Main == \/ BeginFullScreen \/ StartSession \/ StartFails \/ BeginQuery
        \/ EndQuery \/ EndSession \/ Join \/ GraceElapses \/ Notice
        \/ LeaveFullScreen \/ WriteTeardown \/ LeaveAgain

Thread(w) == Lock(w) \/ Receive(w) \/ WriteOk(w) \/ End(w)

StdoutNext == \/ Main \/ Submit \/ Panic \/ TerminalChanges \/ Exited
        \/ \E w \in Writers : Thread(w)

StdoutSpec == StdoutInit /\ [][StdoutNext]_stdoutVars

(* Every thread runs, and a terminal that reads again and again reads what *)
(* is being written to it. The user's quitting, a panic and the terminal's *)
(* moods are nobody's obligation.                                          *)
Fairness ==
    /\ SF_stdoutVars(BeginFullScreen) /\ SF_stdoutVars(WriteTeardown) /\ SF_stdoutVars(EndQuery)
    /\ SF_stdoutVars(Notice /\ main' = "starting")
    /\ WF_stdoutVars(StartSession \/ StartFails)
    /\ WF_stdoutVars(Join) /\ WF_stdoutVars(GraceElapses)
    /\ WF_stdoutVars(LeaveFullScreen) /\ WF_stdoutVars(LeaveAgain)
    /\ \A w \in Writers :
        /\ SF_stdoutVars(Lock(w)) /\ WF_stdoutVars(Receive(w))
        /\ SF_stdoutVars(WriteOk(w)) /\ WF_stdoutVars(End(w))

StdoutFairSpec == StdoutSpec /\ Fairness

-----------------------------------------------------------------------------
(* The terminal is given back: when the process is over, and the terminal  *)
(* still there, it has left the alternate screen and raw mode, whatever    *)
(* sequence of losses, reconnects and failures led there (term/mod.rs,     *)
(* "Owns every mode change we make, and undoes them").                     *)
Restored == main = "exited" => ~raw /\ (alternate => terminal = "gone")

(* The restore is never written into the middle of a frame: when it goes   *)
(* out, panic or not, no thread that was abandoned is still writing one.   *)
TeardownWhole ==
    [][alternate /\ ~alternate' => \A w \in Writers : writer[w] # "writing"]_stdoutVars

(* Two sessions' threads never compete for the terminal: by the time a new *)
(* session draws, no earlier one's thread can still write a frame.         *)
OneWriterAtATime ==
    \A w \in Writers : w < session =>
        (main \in {"starting", "running", "querying"} => writer[w] = "ended")

(* The two of them: the terminal has one owner at a time, and goes back.   *)
OneOwner == StdoutTypeOK /\ Restored /\ OneWriterAtATime

(* With a terminal that reads again and again, quitting exits.             *)
QuitExits == ([]<>(terminal # "stalled")) => (main = "closing" /\ outcome = "quit" ~> main = "exited")

(* writer.rs: "quitting must not depend on the terminal's cooperation"     *)
QuitNeedsNoTerminal == main = "closing" /\ outcome = "quit" ~> main = "exited"

(* term/mod.rs: leave is "Idempotent, and safe from a panic or signal      *)
(* path": a panic gives the terminal back.                                 *)
PanicRestores == ([]<>(terminal # "stalled")) => (main = "panicking" ~> ~raw)

(* term/mod.rs: Metrics::query is "falling back to CSI 14 t when the       *)
(* kernel reports no pixel size", after which the session goes on.         *)
QueryReturns == ([]<>(terminal # "stalled")) => (main = "querying" ~> main = "running")

(* session.rs, notice: "the session and its writer thread are gone by this *)
(* point".                                                                 *)
WriterGoneAtNotice == main = "noticing" => writer[session] = "ended"
=============================================================================
