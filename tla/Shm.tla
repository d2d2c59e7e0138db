-------------------------------- MODULE Shm ---------------------------------
(***************************************************************************)
(* The shared memory a frame's tiles travel in (term/shm.rs and its use in *)
(* render/mod.rs), composed with the writer that carries their names: the  *)
(* pool creates an object for a tile while the frame is composed, the name *)
(* goes through the slot and the pty, and the terminal, which is another   *)
(* process, reads the object when it parses that and unlinks it.           *)
(*                                                                         *)
(* A name is the number the counter gave it.                               *)
(***************************************************************************)
EXTENDS FrameWriter, SequencesExt, FiniteSetsExt

CONSTANTS
    Lens,           \* what a tile takes
    Budget,         \* OUTSTANDING_BUDGET
    MaxPending,     \* MAX_PENDING
    Stale,          \* bound: names a run that died, of our pid, may have left
    MaxTiles,       \* bound: tiles of one frame
    MaxWaits,       \* bound: times an object is left for BACKSTOP
    MaxErrors       \* bound: failures of the system calls

ASSUME ShmConstants ==
    /\ Lens \subseteq Nat \ {0} /\ Stale \subseteq Nat
    /\ MaxPending \in Nat \ {0}
    /\ {Budget, MaxTiles, MaxWaits, MaxErrors} \subseteq Nat

VARIABLES
    pool,       \* ShmPool, and the renderer's shm_failed
    store,      \* the objects the kernel knows
    frames,     \* the names in the frames on their way, by number
    unread,     \* the names in the pty
    waits, errors

shmVars == <<pool, store, frames, unread, waits, errors>>
allVars == <<vars, shmVars>>

Entry(name, len) == [name |-> name, len |-> len, aged |-> FALSE]
Object(name, len) == [name |-> name, len |-> len]

Names(objects) == {o.name : o \in objects}
Bytes(entries) == MapThenSumSet(LAMBDA e : e.len, entries)
Mine == {o \in store : o.len # 0}       \* a stale object has no length here

ShmInit ==
    /\ Init
    /\ pool = [counter |-> 0, pending |-> <<>>, outstanding |-> 0, failed |-> FALSE]
    /\ store \in {{Object(n, 0) : n \in left} : left \in SUBSET Stale}
    /\ frames = [f \in 1 .. MaxFrames |-> <<>>]
    /\ unread = <<>>
    /\ waits = 0 /\ errors = 0

-----------------------------------------------------------------------------
(* The pool.                                                               *)
Exists(name) == name \in Names(store)

(* Slip: the bytes of a name let go of are still counted.                  *)
ForgottenStillCounted(p, k) ==
    [p EXCEPT !.pending = SubSeq(@, k + 1, Len(@))]

(* The k oldest names, let go of.                                          *)
Forgotten(p, k) ==
    [p EXCEPT !.pending = SubSeq(@, k + 1, Len(@)),
              !.outstanding = @ - Bytes({p.pending[i] : i \in 1 .. k})]

(* How many of the oldest the terminal has unlinked; how many more have to *)
(* be taken for the memory or the backstop, which stops at the first that  *)
(* need not; and how many for MAX_PENDING.                                 *)
Fewest(p, Enough(_)) == CHOOSE k \in 0 .. Len(p.pending) :
    /\ Enough(k) /\ \A j \in 0 .. k - 1 : ~Enough(j)

GoneFirst(p) ==
    Fewest(p, LAMBDA k : k = Len(p.pending) \/ Exists(p.pending[k + 1].name))
DueFirst(p) ==
    Fewest(p, LAMBDA k :
        \/ k = Len(p.pending)
        \/ Forgotten(p, k).outstanding <= Budget /\ ~p.pending[k + 1].aged)
OverFirst(p) == IF Len(p.pending) > MaxPending THEN Len(p.pending) - MaxPending ELSE 0

Taken(p, k) == {p.pending[i].name : i \in 1 .. k}
Without(objects, names) == {o \in objects : o.name \notin names}

Swept(p) == Forgotten(p, GoneFirst(p))

(* Slip: an object whose mapping failed keeps its name.                    *)
AfterErrorKept(objects, name, len) == Without(objects, {name}) \cup {Object(name, len)}

(* What failed is unlinked again.                                          *)
AfterError(objects, name, len) == Without(objects, {name})

Composing == session = "composing" /\ composed \notin Bells
MayPlace == Composing /\ ~pool.failed /\ Len(frames[composed]) < MaxTiles

(* frame: sweep, create, take back a stale name, remember.                 *)
PlaceShm ==
    /\ MayPlace
    /\ \E len \in Lens, p \in {Swept(pool)} :
       \E due \in {DueFirst(p)}, name \in {pool.counter + 1} :
       \E q \in {[Forgotten(p, due) EXCEPT !.counter = name,
                     !.pending = Append(@, Entry(name, len)),
                     !.outstanding = @ + len]} :
       \E over \in {OverFirst(q)} :
          /\ pool' = Forgotten(q, over)
          /\ store' = Without(store, Taken(p, due) \cup Taken(q, over) \cup {name})
                        \cup {Object(name, len)}
          /\ frames' = [frames EXCEPT ![composed] = Append(@, name)]
    /\ UNCHANGED <<vars, unread, waits, errors>>

(* The system refuses it: this tile and every later one goes direct.       *)
PlaceFails ==
    /\ MayPlace /\ errors < MaxErrors
    /\ \E len \in Lens, p \in {Swept(pool)} :
       \E due \in {DueFirst(p)}, name \in {pool.counter + 1} :
          /\ pool' = [Forgotten(p, due) EXCEPT !.counter = name, !.failed = TRUE]
          /\ store' = AfterError(Without(store, Taken(p, due)), name, len)
    /\ errors' = errors + 1
    /\ UNCHANGED <<vars, frames, unread, waits>>

-----------------------------------------------------------------------------
(* The writer, with what is in its frames.                                 *)
Written ==
    /\ WriteOk
    /\ unread' = unread \o frames[Head(inHand)]
    /\ frames' = [frames EXCEPT ![Head(inHand)] = <<>>]
    /\ UNCHANGED <<pool, store, waits, errors>>

Refused ==
    /\ SubmitFull
    /\ frames' = [frames EXCEPT ![composed] = <<>>]
    /\ UNCHANGED <<pool, store, unread, waits, errors>>

(* The session's fields are dropped in their order: the renderer, and with *)
(* it the pool, before the writer.                                         *)
Dropped ==
    /\ Shutdown
    /\ pool' = [pool EXCEPT !.pending = <<>>]
    /\ store' = Without(store, Taken(pool, Len(pool.pending)))
    /\ UNCHANGED <<frames, unread, waits, errors>>

WriterOnly ==
    /\ \/ TakeBuffer \/ SubmitOk \/ SubmitClosed \/ Recycle
       \/ SubmitBlocking \/ SendCompletes \/ SendFails \/ Join \/ GraceElapses
       \/ Receive \/ WriteFails \/ Disconnected \/ TerminalChanges \/ Finished
    /\ UNCHANGED shmVars

(* The terminal reads what the name stands for, and unlinks it or not.     *)
Parse ==
    /\ unread # <<>> /\ terminal # "gone"
    /\ unread' = Tail(unread)
    /\ \E unlinks \in BOOLEAN :
        store' = IF unlinks THEN Without(store, {Head(unread)}) ELSE store
    /\ UNCHANGED <<vars, pool, frames, waits, errors>>

(* BACKSTOP goes by for the oldest that has not aged.                      *)
Ages ==
    /\ waits < MaxWaits /\ waits' = waits + 1
    /\ \E i \in DOMAIN pool.pending :
        /\ \A j \in 1 .. Len(pool.pending) : pool.pending[j].aged <=> j < i
        /\ pool' = [pool EXCEPT !.pending[i].aged = TRUE]
    /\ UNCHANGED <<vars, store, frames, unread, errors>>

ShmNext ==
    \/ PlaceShm \/ PlaceFails \/ Written \/ Refused \/ Dropped \/ WriterOnly
    \/ Parse \/ Ages

ShmSpec == ShmInit /\ [][ShmNext]_allVars
ShmFairSpec == ShmSpec /\ Fairness

-----------------------------------------------------------------------------
(* No object outlives its name: what this run has put into the kernel is   *)
(* on the list it is swept from, or gone, whatever failed on the way and   *)
(* however it ended; and the bytes counted are those of the names listed   *)
(* (create and remember, shm.rs:119-172, 201-207, 225-231).                *)
Listed == \A o \in Mine : \E i \in DOMAIN pool.pending : pool.pending[i].name = o.name
Counted ==
    session \in {"idle", "composing", "refused", "blocked", "failed"} =>
        pool.outstanding = Bytes(ToSet(pool.pending))
Accounted == Listed /\ Counted

(* The names the terminal will come to: in the frame being composed, the   *)
(* slot, the thread's hands and the pty.                                   *)
Needed ==
    ToSet(unread) \cup UNION {ToSet(frames[f]) :
        f \in ToSet(queue \o inHand) \cup IF session = "composing" THEN {composed} ELSE {}}

MayGo(n) ==
    \/ \E e \in ToSet(pool.pending) : e.name = n /\ e.aged
    \/ Bytes({o \in Mine : o.name >= n}) > Budget
    \/ Len(pool.pending) >= MaxPending

(* While the session lasts, an object a tile still needs is taken from a   *)
(* terminal that has not read it only when the memory says it must: when   *)
(* what exists from it on exceeds the budget, or it is older than the      *)
(* backstop.  The count the sweep goes by is an estimate, of bytes that    *)
(* may be read already, behind objects of refused frames that nobody will  *)
(* ever read (sweep, shm.rs:174-200).                                      *)
TakenWhenItMust ==
    [][\A n \in (Needed \cap Names(Mine)) \ Names(store') :
          \/ session' = "closing"
          \/ unread # <<>> /\ n = Head(unread) /\ unread' = Tail(unread)
          \/ MayGo(n)]_allVars

(* What the code does not keep, see the README: the frame a shutdown waits *)
(* for is still drawn (writer.rs:105-108, "Flush everything queued").      *)
LastFrameDrawn ==
    \A n \in ToSet(unread) : n \in Names(store) \/ terminal = "gone"
=============================================================================
