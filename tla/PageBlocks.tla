----------------------------- MODULE PageBlocks -----------------------------
(***************************************************************************)
(* The blocks of one page while PageAnalyzer::compose and ::complete         *)
(* (crates/core/src/page.rs) turn them into a page result: text assignment   *)
(* has given every text line to one block, labels and boxes come from the    *)
(* layout model or from the cut of what no region claimed.  Coordinates are  *)
(* whole points.                                                            *)
(***************************************************************************)
EXTENDS Integers, FiniteSets, Sequences

CONSTANT Pages  \* pages that assignment may hand over: functions of block ids to blocks

VARIABLES
  phase,  \* aligning, merging, composed, resolving, sorting, complete, accepted;
          \* conflict, refused, rejected
  blocks  \* its blocks by id; the ids of residual blocks come before those of regions

\* A block has the fields label, box, lines, order and confidence (of its region),
\* path (of its residual leaf, 0 for a region), figure (the bounds of its embedded
\* image or NoBox), image (it owns an image) and sparse (the hint of a sparse union).
\* A line has id, box, mark, and digits, vertical, closed and bold, which say what its
\* text looks like.
NoBox == [left |-> 0, top |-> 0, right |-> 0, bottom |-> 0]

Least(a, b) == IF a <= b THEN a ELSE b
Most(a, b) == IF a <= b THEN b ELSE a

Width(x) == x.right - x.left
Height(x) == x.bottom - x.top
Encloses(x, y) ==
  x.left <= y.left /\ x.top <= y.top /\ x.right >= y.right /\ x.bottom >= y.bottom
Union(x, y) ==
  [left |-> Least(x.left, y.left), top |-> Least(x.top, y.top),
   right |-> Most(x.right, y.right), bottom |-> Most(x.bottom, y.bottom)]
\* How far two boxes overlap along each axis.
Across(x, y) == Most(0, Least(x.right, y.right) - Most(x.left, y.left))
Along(x, y) == Most(0, Least(x.bottom, y.bottom) - Most(x.top, y.top))

\* Bbox::try_from refuses an empty box.
Proper(x) ==
  /\ x \in [left : Int, top : Int, right : Int, bottom : Int]
  /\ x.left < x.right /\ x.top < x.bottom

\* What assignment hands over has a proper box, the bounds of its image are numbers, and
\* its lines have places.
Assigned(b) ==
  /\ {"label", "box", "lines", "sparse", "order"} \subseteq DOMAIN b
  /\ Proper(b.box) /\ b.confidence \in Int
  /\ b.figure \in [left : Int, top : Int, right : Int, bottom : Int]
  /\ Len(b.lines) \in Nat /\ DOMAIN b.lines = 1..Len(b.lines)
  /\ \A i \in DOMAIN b.lines :
       b.lines[i].id \in Int /\ b.lines[i].box.left \in Int /\ b.lines[i].box.top \in Int

\* No line is in two blocks, or twice in one.
OwnedOnce(bs) ==
  \A a, b \in DOMAIN bs : \A i \in DOMAIN bs[a].lines, j \in DOMAIN bs[b].lines :
    bs[a].lines[i].id = bs[b].lines[j].id => a = b /\ i = j

\* The smallest box around some boxes.
Envelope(boxes) ==
  [left |-> CHOOSE v \in {x.left : x \in boxes} : \A x \in boxes : v <= x.left,
   top |-> CHOOSE v \in {x.top : x \in boxes} : \A x \in boxes : v <= x.top,
   right |-> CHOOSE v \in {x.right : x \in boxes} : \A x \in boxes : v >= x.right,
   bottom |-> CHOOSE v \in {x.bottom : x \in boxes} : \A x \in boxes : v >= x.bottom]

LinesOf(b) == {b.lines[i].id : i \in DOMAIN b.lines}
\* An aside without text: a second detection of something else.
EmptyAside(b) == b.label = "aside" /\ b.lines = <<>>
Fallback(b) == b.path # 0
=============================================================================
