------------------------------ MODULE MCStdout ------------------------------
(* Stdout with two sessions, so that a writer abandoned by the first meets *)
(* the second.                                                             *)
EXTENDS Stdout
=============================================================================
