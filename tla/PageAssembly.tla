---------------------------- MODULE PageAssembly ----------------------------
(***************************************************************************)
(* From assigned text to an accepted page (crates/core/src/page.rs, compose  *)
(* and complete): merging, reading order, references, lists, validation.     *)
(***************************************************************************)
EXTENDS LayoutMerge, PageOrder, ListRecovery

CONSTANT References  \* boxes that the layout model marked as bibliography

VARIABLES
  expected,  \* ids of the lines that the page must still own at the end
  page       \* sequence of the blocks of the result, with the items of their lists

vars == <<phase, blocks, mergeVars, orderVars, expected, page>>

Init ==
  /\ MergeInit /\ OrderInit /\ page = <<>>
  /\ expected = UNION {LinesOf(blocks[b]) : b \in DOMAIN blocks}

\* Body text that lies mostly in a reference is reference content.
Relabelled(b) ==
  IF b.label = "text" /\ \E r \in References :
       2 * Across(b.box, r) * Along(b.box, r) >= Width(b.box) * Height(b.box)
    THEN [b EXCEPT !.label = "reference_content"] ELSE b

\* The blocks in their order, relabelled, and their lists recovered; a sort that left
\* blocks out is an internal error.
Complete ==
  /\ phase = "sorting" /\ Ready = {}
  /\ phase' = IF Placed = Ids THEN "complete" ELSE "refused"
  /\ page' = RecoverLists([i \in DOMAIN ordered |->
               LET b == Relabelled(blocks[ordered[i]])
               IN [id |-> ordered[i], items |-> <<>>, label |-> b.label, box |-> b.box,
                   lines |-> b.lines, image |-> b.image, sparse |-> b.sparse]])
  /\ UNCHANGED <<blocks, mergeVars, orderVars, expected>>

\* Content blocks that contain each other should have been merged, unless one is a
\* sparse union.
Nested(b, c) == (Encloses(b.box, c.box) \/ Encloses(c.box, b.box)) /\ ~b.sparse /\ ~c.sparse

\* Every line has one owner, nothing nests, and the lists fit their lines.
Valid ==
  /\ \A l \in expected : \E i \in DOMAIN page : l \in LinesOf(page[i])
  /\ \A i, j \in DOMAIN page : i < j =>
       ~Nested(page[i], page[j]) /\ LinesOf(page[i]) \cap LinesOf(page[j]) = {}
  /\ \A i \in DOMAIN page :
       ListsValid(page[i]) /\ Cardinality(LinesOf(page[i])) = Len(page[i].lines)

Validate ==
  /\ phase = "complete"
  /\ phase' = IF Valid THEN "accepted" ELSE "rejected"
  /\ UNCHANGED <<blocks, mergeVars, orderVars, expected, page>>

Next ==
  \/ Merging /\ UNCHANGED <<orderVars, expected, page>>
  \/ Ordering /\ UNCHANGED <<mergeVars, expected, page>>
  \/ Complete
  \/ Validate

Spec == Init /\ [][Next]_vars

-----------------------------------------------------------------------------
\* No page ends in an internal error: whatever the layout model, the residual cut and the
\* captions say, merging and growing figures leaves proper boxes, the constraints that
\* cannot be removed (a block above another one in the main flow, the margin after it,
\* from top to bottom) never form a cycle, and the sort places every block.  And however
\* blocks are merged, each line of the page is in one block, once.
PageIsAssembled ==
  /\ phase \notin {"conflict", "refused"}
  /\ OwnedOnce(blocks) /\ expected = UNION {LinesOf(blocks[b]) : b \in Ids}

\* The order respects every constraint that is left, and all structural ones are.
OrderRespectsEvidence ==
  /\ {e \in edges : Strong(e)} \subseteq active
  /\ \A i, j \in DOMAIN ordered : i # j => ordered[i] # ordered[j]
  /\ \A e \in active, j \in DOMAIN ordered :
       ordered[j] = e.to => \E i \in 1..(j - 1) : ordered[i] = e.from

\* The analyzer never builds a page that its own checks refuse: after merging, growing
\* figures, reordering, relabelling and joining lists, every line is still owned once,
\* no block lies in another one, and all lists fit.  The exception is what merging itself
\* may leave behind: a block that was skipped, and then lies in one that joined without
\* enlarging its group, is not looked at again.
PageIsAccepted ==
  phase = "rejected" => \E b, c \in Ids : b # c /\ Nested(blocks[b], blocks[c])
=============================================================================
