-------------------------- MODULE MCResultArtifacts --------------------------
(* Instances of ResultArtifacts for TLC. *)
EXTENDS ResultArtifacts

CONSTANTS n1, n2, r1, r2, r3, d1, p1, p2

TwoResults == {n1, n2}
TwoReplicas == {p1, p2}
ThreeReaders == {r1, r2, r3}
OneRemover == {d1}
\* Two readers share a process, the third one and a removal another.
Split == [a \in ThreeReaders \cup OneRemover |-> IF a \in {r2, r3} THEN p1 ELSE p2]
\* The readers of the shared process are after one or two results; the reader and the
\* removal of the other process are after the first result.
Choices ==
  {[a \in ThreeReaders \cup OneRemover |->
      CASE a = r2 -> w2 [] a = r3 -> w3 [] OTHER -> <<n1, "index">>] :
     w2 \in {<<n1, "index">>, <<n2, "index">>}, w3 \in {<<n1, "index">>, <<n1, "markdown">>}}
=============================================================================
