----------------------------- MODULE MCOverlay -----------------------------
(* Two windows: one that holds the menu and the popup, and one too low for    *)
(* the menu, in which the popup is elsewhere and too wide for the longer      *)
(* message, which the first truncates.                                        *)
EXTENDS Overlay

Sizes == {[cols |-> 8, rows |-> 6], [cols |-> 7, rows |-> 5]}

(* In the first: the cross of the popup over an item of the menu, the cross of *)
(* the menu, one of its options, the item, which is the cross of the popup in *)
(* the second, and the left edge.  Then a letter of both, and the status line *)
(* of each.                                                                   *)
Pointed == {<<5, 2>>, <<5, 1>>, <<4, 3>>, <<4, 2>>, <<0, 3>>}
Looked == Pointed \cup {<<2, 2>>, <<1, 5>>, <<0, 4>>}
=============================================================================
