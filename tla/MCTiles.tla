------------------------------- MODULE MCTiles ------------------------------
(***************************************************************************)
(* Two tiles of a remote screen that just fits the window, and the layouts *)
(* a user reaches from there:                                              *)
(*   Exact     the screen at 1:1 in a window of its own size;              *)
(*   Grown     the window one row and a few columns larger: still 1:1, the *)
(*             picture centred, so every tile sits on another cell;        *)
(*   GrownFit  the same window in fit mode: a slightly larger picture on   *)
(*             the same origin (Layout has the arithmetic);                *)
(*   Narrow    half the window: one tile, and the other has no place;      *)
(*   Panned    the same half window, panned to the other half;             *)
(*   Cut       a narrower desktop, centred in the window of Exact: the     *)
(*             first tile is the same, the second one clipped.             *)
(***************************************************************************)
EXTENDS Tiles

CONSTANTS Exact, Grown, GrownFit, Narrow, Panned, Cut

MCIds == {1, 2}
MCRegions == {"left", "right"}
MCGeos == {"one1", "one2", "fit1", "fit2", "pan1", "cut2"}
MCCells == {"c0", "c1", "d0", "d1"}

MCGrid(l) == IF l \in {Narrow, Panned} THEN {1} ELSE {1, 2}
MCGeo(l, i) ==
    CASE l = Panned -> "pan1"
      [] l = GrownFit -> IF i = 1 THEN "fit1" ELSE "fit2"
      [] l = Cut -> IF i = 1 THEN "one1" ELSE "cut2"
      [] OTHER -> IF i = 1 THEN "one1" ELSE "one2"
MCCell(l, i) ==
    CASE l \in {Grown, GrownFit, Cut} -> IF i = 1 THEN "d0" ELSE "d1"
      [] OTHER -> IF i = 1 THEN "c0" ELSE "c1"
MCSrc(g) ==
    CASE g \in {"one1", "fit1", "cut2"} -> {"left"}
      [] g \in {"one2", "fit2"} -> {"left", "right"}
      [] g = "pan1" -> {"right"}
MCDesktop(l) == IF l = Cut THEN {"left"} ELSE MCRegions
MCScaled(l) == l = GrownFit
MCWindow(l) ==
    CASE l \in {Exact, Cut} -> "w2"
      [] l \in {Grown, GrownFit} -> "w3"
      [] OTHER -> "w1"

AllLayouts == {Exact, Grown, GrownFit, Narrow, Panned, Cut}
=============================================================================
