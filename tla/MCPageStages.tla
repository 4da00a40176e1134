----------------------------- MODULE MCPageStages -----------------------------
(* Two pages that compete for one crop of each kind. *)
EXTENDS PageStages

TwoPages == {1, 2}
SomeRegions == {<<1, "line", 1>>, <<1, "line", 2>>, <<1, "table", 1>>, <<2, "detect", 1>>, <<2, "table", 1>>, <<2, "formula", 1>>}
OneEach == [k \in Kinds |-> 1]
=============================================================================
