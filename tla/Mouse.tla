-------------------------------- MODULE Mouse --------------------------------
(***************************************************************************)
(* The pointer on its way to the remote (term/input.rs, and the mouse arm  *)
(* of session.rs): motion is thinned to one report per MOTION_INTERVAL and *)
(* the rest held back for a tick; buttons are not; and the letterbox, the  *)
(* menu, the cross of the popup and view-only each take events away.       *)
(***************************************************************************)
EXTENDS Naturals, Sequences, FiniteSets, SequencesExt

CONSTANTS
    Places,     \* pixels of the remote desktop
    Letterbox,  \* a place on the terminal with no pixel of it
    Cross,      \* the place under the cross of the popup
    Buttons, Left,
    Nowhere,
    MaxMoves,   \* bound: movements and presses
    MaxModes    \* bound: times the menu, view-only or the focus change

PlaceTypes ==
    /\ Left \in Buttons
    /\ Cross \in Places /\ Letterbox \notin Places /\ Nowhere \notin Places
HandBounds == MaxMoves \in Nat /\ MaxModes \in Nat

VARIABLES
    mapper,     \* the pointer's half of InputMapper
    hand,       \* where the pointer is
    pressed,    \* the buttons that are down
    popup,      \* a note with a cross is up
    menu, view,
    remote,     \* what the remote was last told
    moves, modes

vars == <<mapper, hand, pressed, popup, menu, view, remote, moves, modes>>

TypeOK ==
    /\ mapper \in [buttons : SUBSET Buttons, last : Places \union {Nowhere},
                   pending : Places \union {Nowhere}, recent : BOOLEAN]
    /\ hand \in Places \union {Letterbox}
    /\ pressed \subseteq Buttons
    /\ {popup, menu, view} \subseteq BOOLEAN
    /\ remote \in [at : Places \union {Nowhere}, buttons : SUBSET Buttons]

Init ==
    /\ mapper = [buttons |-> {}, last |-> Nowhere, pending |-> Nowhere,
                 recent |-> FALSE]
    /\ hand = Letterbox
    /\ pressed = {}
    /\ popup \in BOOLEAN
    /\ menu = FALSE /\ view \in BOOLEAN
    /\ remote = [at |-> Nowhere, buttons |-> {}]
    /\ moves = 0 /\ modes = 0

-----------------------------------------------------------------------------
(* InputMapper: a result is the mapper and the pointer events to send.     *)
Result(m, out) == [m |-> m, out |-> out]
Nothing(m) == Result(m, <<>>)
Pointer(p, bs) == [at |-> p, buttons |-> bs]

(* Report a place with what is held now.                                   *)
Report(r, p) ==
    [r EXCEPT !.m.last = p, !.out = Append(@, Pointer(p, r.m.buttons))]

FlushPending(m) ==
    IF m.pending = Nowhere
      THEN Nothing(m)
      ELSE Report(Nothing([m EXCEPT !.pending = Nowhere, !.recent = TRUE]),
                  m.pending)

(* Slip: the position held back goes out behind the button.                *)
PressFirst(m, p, bs) ==
    LET r == Report(Nothing([m EXCEPT !.buttons = bs]), p) IN
    IF m.pending = Nowhere THEN r
    ELSE Report([r EXCEPT !.m.pending = Nowhere, !.m.recent = TRUE], m.pending)

OnButtons(m, p, bs) ==
    LET r == FlushPending(m) IN Report([r EXCEPT !.m.buttons = bs], p)

(* The wheel bit comes and goes within the one call.                       *)
OnScroll(m, p) == Report(FlushPending(m), p)

OnMotion(m, p) ==
    CASE m.last = p -> Nothing(m)
      [] m.last # p /\ m.recent -> Nothing([m EXCEPT !.pending = p])
      [] m.last # p /\ ~m.recent -> Report(Nothing([m EXCEPT !.recent = TRUE]), p)

(* Slip: the tick finds nothing to flush unless a button is down.          *)
FlushDragOnly(m) ==
    IF m.pending = Nowhere \/ m.recent \/ m.buttons = {} THEN Nothing(m)
    ELSE FlushPending(m)

FlushMotion(m) ==
    IF m.pending = Nowhere \/ m.recent THEN Nothing(m) ELSE FlushPending(m)

(* It is let go of where it was last seen; the corner stands for nowhere.  *)
ReleaseButtons(m) ==
    IF m.buttons = {} THEN Nothing(m)
    ELSE Result([m EXCEPT !.buttons = {}, !.pending = Nowhere],
                <<Pointer(m.last, {})>>)

-----------------------------------------------------------------------------
Send(r) ==
    /\ mapper' = r.m
    /\ remote' = IF r.out = <<>> THEN remote ELSE Last(r.out)

(* What is left for the remote when the menu, view-only and the letterbox  *)
(* have had their turn.                                                    *)
ToRemote(r) ==
    IF menu \/ view \/ hand' = Letterbox
      THEN UNCHANGED <<mapper, remote>>
      ELSE Send(r)

Move ==
    /\ moves < MaxMoves
    /\ moves' = moves + 1
    /\ hand' \in (Places \union {Letterbox}) \ {hand}
    /\ ToRemote(OnMotion(mapper, hand'))
    /\ UNCHANGED <<pressed, popup, menu, view, modes>>

(* The left button on the cross ends there.                                *)
Down == \E b \in Buttons \ pressed :
    /\ moves < MaxMoves
    /\ moves' = moves + 1
    /\ pressed' = pressed \union {b}
    /\ hand' = hand
    /\ IF popup /\ hand = Cross /\ b = Left
         THEN popup' = FALSE /\ UNCHANGED <<mapper, remote>>
         ELSE /\ popup' = popup
              /\ ToRemote(OnButtons(mapper, hand, mapper.buttons \union {b}))
    /\ UNCHANGED <<menu, view, modes>>

Up == \E b \in pressed :
    /\ pressed' = pressed \ {b}
    /\ hand' = hand
    /\ ToRemote(OnButtons(mapper, hand, mapper.buttons \ {b}))
    /\ UNCHANGED <<popup, menu, view, moves, modes>>

Scroll ==
    /\ hand' = hand
    /\ ToRemote(OnScroll(mapper, hand))
    /\ UNCHANGED <<pressed, popup, menu, view, moves, modes>>

(* The render tick, and MOTION_INTERVAL going by.                          *)
Tick ==
    /\ ~view
    /\ Send(FlushMotion(mapper))
    /\ UNCHANGED <<hand, pressed, popup, menu, view, moves, modes>>

IntervalElapses ==
    /\ mapper' = [mapper EXCEPT !.recent = FALSE]
    /\ UNCHANGED <<hand, pressed, popup, menu, view, remote, moves, modes>>

ToggleMenu ==
    /\ modes < MaxModes
    /\ modes' = modes + 1
    /\ menu' = ~menu
    /\ UNCHANGED <<mapper, hand, pressed, popup, view, remote, moves>>

ToggleViewOnly ==
    /\ modes < MaxModes
    /\ modes' = modes + 1
    /\ view' = ~view
    /\ Send(IF view THEN Nothing(mapper) ELSE ReleaseButtons(mapper))
    /\ UNCHANGED <<hand, pressed, popup, menu, moves>>

(* A button may be let go of where nobody hears of it.                     *)
FocusLost ==
    /\ modes < MaxModes
    /\ modes' = modes + 1
    /\ Send(ReleaseButtons(mapper))
    /\ pressed' \in SUBSET pressed
    /\ UNCHANGED <<hand, popup, menu, view, moves>>

Event == Move \/ Down \/ Up \/ Scroll
Next == Event \/ Tick \/ IntervalElapses \/ ToggleMenu \/ ToggleViewOnly \/ FocusLost
Spec == Init /\ [][Next]_vars

(* The ticker ticks and time passes.                                       *)
FairSpec == Spec /\ WF_vars(Tick) /\ WF_vars(IntervalElapses)

-----------------------------------------------------------------------------
(* The remote was told exactly the buttons the mapper will let go of when  *)
(* it leaves: none is recorded that was not sent, whoever took the event.  *)
ButtonsTold == remote.buttons = mapper.buttons

(* "must not land at a stale position": a button goes down over there at   *)
(* the pixel the hand is on, whatever the rate limit held back.            *)
PressesLand ==
    [][remote'.buttons \ remote.buttons # {} => remote'.at = hand]_vars

(* Giving up the focus or the input lets go over there.                    *)
LetGo == view => remote.buttons = {}

(* "the last position is always flushed": what was held back goes out.     *)
PendingLeaves ==
    (mapper.pending # Nowhere /\ ~view) ~> (mapper.pending = Nowhere \/ view)

(* "A button transition must never be held back": no button stays down on  *)
(* the remote that was let go of in front of us.                           *)
ButtonsReleased == remote.buttons \subseteq pressed

(* "a pointer that stops moving still ends up where the user left it"      *)
PointerArrives ==
    <>[](hand \in Places /\ ~menu /\ ~view => remote.at = hand)
=============================================================================
