-------------------------------- MODULE Input --------------------------------
(***************************************************************************)
(* on_terminal of session.rs: one event loop takes the keys, the pointer   *)
(* and the lock keys, and each goes its way by the menu, view-only and the *)
(* focus.  Keyboard, Mouse and Locks keep no other state in common, and    *)
(* each turns those three itself at any moment; so what the three do at    *)
(* once is, for each, what it does alone, and a behaviour picks one of     *)
(* them at the start while the others stay as they begin.                  *)
(***************************************************************************)
EXTENDS Naturals

CONSTANTS
    Ctrl, Prefix, Esc, ViewKey, MenuKey, QuitKey, Letter, Unmapped, Fingers,
    Places, Letterbox, Cross, Buttons, Left, Nowhere, MaxMoves, MaxModes,
    MaxPresses, MaxStrangers, MaxTurns, MaxQueued,
    Devices     \* the devices in use: of "keyboard", "mouse" and "locks"

VARIABLES
    device,     \* the one whose events this behaviour follows
    mapper, down, focused, remote, past, ended,                     \* Keyboard
    pointer, hand, pressed, popup, menu, view, told, moves, modes,  \* Mouse
    terminal, local, held, viewing, known, toRemote, lock, reports, used

K == INSTANCE Keyboard
M == INSTANCE Mouse WITH mapper <- pointer, remote <- told
L == INSTANCE Locks WITH view <- viewing, remote <- lock

ASSUME InputBounds ==
    /\ Devices \subseteq {"keyboard", "mouse", "locks"}
    /\ K!Hand /\ M!PlaceTypes /\ M!HandBounds /\ L!LockBounds

keyboard == <<mapper, down, focused, remote, past, ended>>
mouse == <<pointer, hand, pressed, popup, menu, view, told, moves, modes>>
locks == <<terminal, local, held, viewing, known, toRemote, lock, reports, used>>
vars == <<device, keyboard, mouse, locks>>

(* How each begins when another is followed.                               *)
NoKeys ==
    /\ mapper = [expectReleases |-> TRUE, armed |-> FALSE, held |-> {},
                 synthesised |-> {}, view |-> FALSE, menu |-> FALSE,
                 quit |-> FALSE]
    /\ K!Init
NoPointer == popup = FALSE /\ view = FALSE /\ M!Init
NoLocks ==
    /\ terminal = "silent" /\ local = FALSE /\ lock = [on |-> FALSE, wrong |-> FALSE]
    /\ L!Init

Init ==
    /\ device \in Devices
    /\ IF device = "keyboard" THEN K!Init ELSE NoKeys
    /\ IF device = "mouse" THEN M!Init ELSE NoPointer
    /\ IF device = "locks" THEN L!Init ELSE NoLocks

OfKeyboard(act) == device = "keyboard" /\ act /\ UNCHANGED <<device, mouse, locks>>
OfMouse(act) == device = "mouse" /\ act /\ UNCHANGED <<device, keyboard, locks>>
OfLocks(act) == device = "locks" /\ act /\ UNCHANGED <<device, keyboard, mouse>>

OnKey == OfKeyboard(K!Next)
OnMouse == OfMouse(M!Next)
OnLocks == OfLocks(L!Next)

Next == OnKey \/ OnMouse \/ OnLocks

(* The ticker ticks, time passes and messages arrive.                      *)
Fairness ==
    /\ WF_vars(OfMouse(M!Tick)) /\ WF_vars(OfMouse(M!IntervalElapses))
    /\ WF_vars(OfLocks(L!OnLockKeys)) /\ WF_vars(OfLocks(L!RemoteHears))
Spec == Init /\ [][Next]_vars /\ Fairness

-----------------------------------------------------------------------------
(* Keys go over as they were struck: none goes up that did not go down,   *)
(* and none without its modifiers; see Keyboard.                           *)
SentAsStruck == K!NoPhantomRelease /\ K!ModifiersMatch

(* No key stays down over there that is up here: see Keyboard.             *)
NothingStuck == K!NothingStuck

(* Losing the focus, giving up the input and leaving let go of every key   *)
(* and every button the remote was told is down; and the buttons the       *)
(* mapper would let go of are the ones the remote holds.                   *)
AllLetGo == K!LetGo /\ M!LetGo /\ M!ButtonsTold

(* A press lands at the pixel the hand is on: see Mouse.                   *)
PressesLand == M!PressesLand

(* A position held back goes out: see Mouse.                               *)
PendingLeaves == M!PendingLeaves

(* The lock keys end in step: see Locks.                                   *)
LocksAgree == L!LocksAgree

(* No button stays down over there that is up here: see Mouse.             *)
ButtonsReleased == M!ButtonsReleased

(* What the code does not keep of keys and locks: see Keyboard and Locks.  *)
NoKeyStuck == K!NoKeyStuck
TakenStaysHere == K!TakenStaysHere
PointerArrives == M!PointerArrives
TypedInStep == L!TypedInStep
=============================================================================
