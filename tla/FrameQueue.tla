----------------------------- MODULE FrameQueue -----------------------------
(***************************************************************************)
(* What the one path to the terminal promises to the loop that draws       *)
(* (term/writer.rs): a frame is accepted or refused, never queued behind   *)
(* more than one other; accepted frames reach the terminal in order, each  *)
(* once; nothing accepted is lost unless the terminal itself goes away.    *)
(***************************************************************************)
EXTENDS Naturals, Sequences

CONSTANT Frames   \* the numbers frames are composed under, in that order

VARIABLES
    accepted,   \* every frame the path has taken responsibility for
    shown,      \* every frame the terminal has been given
    dropped,    \* how many frames were refused
    broken      \* the terminal is gone: what was pending is lost

qvars == <<accepted, shown, dropped, broken>>

\* Frames accepted and not yet given to the terminal.
Lag == Len(accepted) - Len(shown)

Init ==
    /\ accepted = <<>>
    /\ shown = <<>>
    /\ dropped = 0
    /\ broken = FALSE

\* One frame may wait behind the one being written, and no more than one.
Accept ==
    /\ ~broken
    /\ Lag <= 1
    /\ \E f \in Frames :
        /\ \A i \in DOMAIN accepted : accepted[i] < f
        /\ accepted' = Append(accepted, f)
    /\ UNCHANGED <<shown, dropped, broken>>

\* A frame is refused only while another one is still on its way.
Refuse ==
    /\ Lag >= 1
    /\ dropped' = dropped + 1
    /\ UNCHANGED <<accepted, shown, broken>>

\* The oldest pending frame reaches the terminal.
Show ==
    /\ ~broken
    /\ Lag >= 1
    /\ shown' = Append(shown, accepted[Len(shown) + 1])
    /\ UNCHANGED <<accepted, dropped, broken>>

Break ==
    /\ ~broken
    /\ broken' = TRUE
    /\ UNCHANGED <<accepted, shown, dropped>>

Next == Accept \/ Refuse \/ Show \/ Break

Spec == Init /\ [][Next]_qvars
=============================================================================
