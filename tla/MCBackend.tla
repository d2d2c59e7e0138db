------------------------------ MODULE MCBackend -----------------------------
(* Short queues, so that every one of them fills.                          *)
EXTENDS Backend
=============================================================================
