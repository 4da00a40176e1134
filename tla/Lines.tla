-------------------------------- MODULE Lines --------------------------------
(***************************************************************************)
(* Lines: sequences in which nobody stands twice, served from the front.    *)
(***************************************************************************)
EXTENDS Integers, FiniteSets, SequencesExt

\* The line when the members of S have left it; everybody else keeps their order.
Without(line, S) ==
  LET kept == {j \in DOMAIN line : line[j] \notin S}
      place(j) == Cardinality({i \in kept : i <= j})
  IN [n \in 1..Cardinality(kept) |-> line[CHOOSE j \in kept : place(j) = n]]
=============================================================================
