------------------------------ MODULE MCRequests ----------------------------
(* Requests with small bounds: see each configuration.                     *)
EXTENDS Requests
=============================================================================
