-------------------------------- MODULE Locks --------------------------------
(***************************************************************************)
(* One lock key (sync_lock_keys of session.rs; LockState of term/input.rs; *)
(* Caps Lock and Num Lock go the same way).  The terminal says with every  *)
(* key whether the lock is on here, the server says when it changes over   *)
(* there, and before a key goes out the lock is struck once if the two     *)
(* disagree.  Both directions take time: what is known of the remote is    *)
(* what it was when it last spoke.                                         *)
(***************************************************************************)
EXTENDS Naturals, Sequences

CONSTANTS
    MaxPresses,     \* bound: times the lock is pressed here
    MaxStrangers,   \* bound: times something else turns it over there
    MaxTurns,       \* bound: times view-only is switched
    MaxQueued       \* bound: keys on their way to the remote

LockBounds == {MaxPresses, MaxStrangers, MaxTurns, MaxQueued} \subseteq Nat

VARIABLES
    terminal,   \* what a key event says of the locks: nothing, or, for the
                \* lock key itself, its state before or after it
    local,      \* the lock is on here
    held,       \* the lock key is down here
    view,       \* view-only
    known,      \* remote_caps_lock: nothing, or the one state last heard of
    toRemote,   \* keys on their way
    remote,     \* the lock over there, and whether a letter came out wrong
                \* that was struck with the lock over there known
    reports,    \* LED updates on their way
    used        \* how much of each bound is spent

vars == <<terminal, local, held, view, known, toRemote, remote, reports, used>>

Spend(what) ==
    /\ used[what] < CASE what = "presses" -> MaxPresses
                      [] what = "strangers" -> MaxStrangers
                      [] what = "turns" -> MaxTurns
    /\ used' = [used EXCEPT ![what] = @ + 1]

(* The server says what its lock is when the session begins.               *)
Init ==
    /\ terminal \in {"silent", "before", "after"}
    /\ local \in BOOLEAN
    /\ held = FALSE
    /\ view = FALSE
    /\ known = {}
    /\ toRemote = <<>>
    /\ remote \in [on : BOOLEAN, wrong : {FALSE}]
    /\ reports = <<remote.on>>
    /\ used = [presses |-> 0, strangers |-> 0, turns |-> 0]

-----------------------------------------------------------------------------
LockState(on) == IF terminal = "silent" THEN {} ELSE {on}

Lock == [key |-> "lock", on |-> FALSE, sure |-> FALSE]
Typed == [key |-> "letter", on |-> local, sure |-> known # {}]

(* Slip: the state the correction will change is still taken for known.    *)
SyncLockKeysRemembering(says, keys) ==
    /\ known' = known
    /\ toRemote' = toRemote \o (IF known # {} /\ says # {} /\ says # known
                                  THEN <<Lock>> ELSE <<>>) \o keys

SyncLockKeys(says, keys) ==
    IF known # {} /\ says # {} /\ says # known
      THEN known' = {} /\ toRemote' = toRemote \o <<Lock>> \o keys
      ELSE known' = known /\ toRemote' = toRemote \o keys

(* A key event that has keys for the remote.                               *)
Strike(says, keys) ==
    /\ Len(toRemote) < MaxQueued
    /\ IF view THEN UNCHANGED <<known, toRemote>> ELSE SyncLockKeys(says, keys)

PressLock ==
    /\ ~held
    /\ Spend("presses")
    /\ held' = TRUE
    /\ local' = ~local
    /\ Strike(LockState(IF terminal = "after" THEN local' ELSE local), <<Lock>>)
    /\ UNCHANGED <<terminal, view, remote, reports>>

(* The release turns nothing over, and is an event like any other.         *)
ReleaseLock ==
    /\ held
    /\ held' = FALSE
    /\ Strike(LockState(local), <<>>)
    /\ UNCHANGED <<terminal, local, view, remote, reports, used>>

TypeLetter ==
    /\ Strike(LockState(local), <<Typed>>)
    /\ UNCHANGED <<terminal, local, held, view, remote, reports, used>>

OnLockKeys ==
    /\ reports # <<>>
    /\ known' = {Head(reports)}
    /\ reports' = Tail(reports)
    /\ UNCHANGED <<terminal, local, held, view, toRemote, remote, used>>

ToggleViewOnly ==
    /\ Spend("turns")
    /\ view' = ~view
    /\ UNCHANGED <<terminal, local, held, known, toRemote, remote, reports>>

-----------------------------------------------------------------------------
(* The server: each press of the lock turns it over, and each change is    *)
(* reported.                                                               *)
Turned == [remote EXCEPT !.on = ~@]

RemoteHears ==
    /\ toRemote # <<>>
    /\ toRemote' = Tail(toRemote)
    /\ IF Head(toRemote).key = "lock"
         THEN remote' = Turned /\ reports' = Append(reports, Turned.on)
         ELSE /\ remote' = [remote EXCEPT !.wrong =
                              @ \/ /\ Head(toRemote).sure
                                   /\ Head(toRemote).on # remote.on]
              /\ UNCHANGED reports
    /\ UNCHANGED <<terminal, local, held, view, known, used>>

SomeoneElse ==
    /\ Spend("strangers")
    /\ remote' = Turned /\ reports' = Append(reports, Turned.on)
    /\ UNCHANGED <<terminal, local, held, view, known, toRemote>>

Next == PressLock \/ ReleaseLock \/ TypeLetter \/ OnLockKeys \/ ToggleViewOnly
        \/ RemoteHears \/ SomeoneElse

(* Messages arrive.                                                        *)
Fairness == WF_vars(OnLockKeys) /\ WF_vars(RemoteHears)
Spec == Init /\ [][Next]_vars /\ Fairness

-----------------------------------------------------------------------------
(* "Acting on the stale value would toggle it again": however the reports  *)
(* and the corrections cross, whoever goes on typing ends with the lock    *)
(* over there as it is here, unless the terminal does not say or           *)
(* view-only keeps the keys back.                                          *)
LocksAgree ==
    ([]<><<TypeLetter>>_vars) => <>[](terminal # "silent" /\ ~view => remote.on = local)

(* "The remote interprets *this* key with the right lock state", once its  *)
(* own is known.                                                           *)
TypedInStep == terminal # "silent" => ~remote.wrong
=============================================================================
