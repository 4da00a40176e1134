---------------------------- MODULE MCModelQueue ----------------------------
(* Instances of ModelQueue for TLC. *)
EXTENDS ModelQueue

CONSTANTS r1, r2, r3, r4

FourRequests == {r1, r2, r3, r4}
=============================================================================
