------------------------------- MODULE MCInput ------------------------------
(* Input with a key for each role, and three pixels, one under the cross.  *)
EXTENDS Input
=============================================================================
