------------------------------ MODULE MCLayout ------------------------------
(***************************************************************************)
(* Windows of a few cells, with cells that divide the tile and cells that  *)
(* do not, and remotes smaller, larger and of other proportions than each. *)
(***************************************************************************)
EXTENDS Layout

By(x, y) == [a \in Axes |-> IF a = "x" THEN x ELSE y]
Window(cols, rows, w, h) == [cells |-> By(cols, rows), px |-> By(w, h)]

MCWindows == {Window(4, 4, 16, 18), Window(9, 5, 29, 20), Window(11, 9, 22, 27)}
OneRow == {Window(4, 1, 16, 4)}
MCRemotes == {By(5, 7), By(16, 12), By(13, 4), By(33, 21), By(2, 40), By(13, 9), By(10, 31)}
=============================================================================
