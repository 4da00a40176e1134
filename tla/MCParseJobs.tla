----------------------------- MODULE MCParseJobs -----------------------------
(* Model-checking instance of ParseJobs. *)
EXTENDS ParseJobs, TLC

JobSymmetry == Permutations(Jobs)
=============================================================================
