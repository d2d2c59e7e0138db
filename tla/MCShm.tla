------------------------------- MODULE MCShm --------------------------------
(* The writer and its shared memory on frames enough to fill the slot, the *)
(* thread's hands and the loop's at once, and to drop one and go on.       *)
EXTENDS Shm

\* The third frame rings the bell.
SomeBells == {3}
=============================================================================
