--------------------------- MODULE MCAnalyzePages ---------------------------
(* Instances of AnalyzePages for TLC. *)
EXTENDS AnalyzePages

CONSTANTS d1, d2

OneDocument == {d1}
TwoDocuments == {d1, d2}
=============================================================================
