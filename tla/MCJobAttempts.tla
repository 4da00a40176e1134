---------------------------- MODULE MCJobAttempts ----------------------------
(* Model-checking instance of JobAttempts. *)
EXTENDS JobAttempts
=============================================================================
