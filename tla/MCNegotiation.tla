---------------------------- MODULE MCNegotiation ---------------------------
(* Negotiation with sizes on a line: a desktop fits a window that is no    *)
(* smaller, 2 is the mode a snapping server likes best, and 9 is past what *)
(* anyone would allocate.                                                  *)
EXTENDS Negotiation

MCSizes == {1, 2, 3, 9}
MCWindows == {1, 2, 3}
MCFits(s, w) == s <= w
Exact(w) == {w}
Snapping(w) == {w, 2}
Never == {}
AsReply == {1}
AsServerSide == {0}
=============================================================================
