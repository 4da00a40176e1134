------------------------------ MODULE PageOrder ------------------------------
(***************************************************************************)
(* Reading order (crates/core/src/fusion/order.rs): constraints from the     *)
(* model, the residual cut, geometry, captions and margins form a graph;     *)
(* while it has cycles, each cyclic component loses its weakest constraint   *)
(* that is not structural; the rest is sorted topologically.                *)
(***************************************************************************)
EXTENDS PageBlocks

VARIABLES
  edges,   \* the constraints of the page
  active,  \* those not removed so far
  ordered  \* sequence of the ids placed so far

orderVars == <<edges, active, ordered>>

Ids == DOMAIN blocks
Box(b) == blocks[b].box

\* Rank of the sources of constraints, by which equal weights are decided.
Rank == [model |-> 0, insertion |-> 1, horizontal |-> 2, caption |-> 3, xy |-> 4,
         region |-> 5, vertical |-> 6]
Strong(e) == e.source \in {"region", "vertical"}

\* Preservation weights in percent; a model edge weighs as much as its regions.
Edge(a, b, source, confidence) ==
  [from |-> a, to |-> b, source |-> source,
   weight |-> CASE source \in {"region", "vertical"} -> 100 [] source = "model" -> confidence
                [] source = "xy" -> 85 [] source = "caption" -> 80
                [] source = "horizontal" -> 65 [] source = "insertion" -> 60]

\* Neighbours under a total order, as windows(2) of the sorted vector.
Adjacent(S, Before(_, _)) ==
  {p \in S \X S : Before(p[1], p[2]) /\ ~\E c \in S : Before(p[1], c) /\ Before(c, p[2])}
Smallest(S, Before(_, _)) == {a \in S : \A b \in S \ {a} : Before(a, b)}

TopLeft(a, b) ==
  \/ Box(a).top < Box(b).top
  \/ Box(a).top = Box(b).top /\ Box(a).left < Box(b).left
  \/ Box(a).top = Box(b).top /\ Box(a).left = Box(b).left /\ a < b

\* Narrow rotated content in the margin.
Marginal(b) ==
  /\ blocks[b].label = "aside" \/ \E i \in DOMAIN blocks[b].lines : blocks[b].lines[i].vertical
  /\ Height(Box(b)) >= 3 * Width(Box(b))
Marginals == {b \in Ids : Marginal(b)}

\* Mutant of MainFlow: margins take part in the geometry of the page.
WholePage == Ids

MainFlow == Ids \ Marginals

\* A region has one block, so only neighbouring regions are related.
ModelEdges ==
  LET before(a, b) ==
        blocks[a].order < blocks[b].order \/ (blocks[a].order = blocks[b].order /\ a < b)
      regions == {b \in MainFlow : ~Fallback(blocks[b])}
  IN {Edge(p[1], p[2], "model", Least(blocks[p[1]].confidence, blocks[p[2]].confidence)) :
        p \in Adjacent(regions, before)}

Lowest(a, b) ==
  \/ Box(a).bottom > Box(b).bottom
  \/ Box(a).bottom = Box(b).bottom /\ Box(a).right > Box(b).right
  \/ Box(a).bottom = Box(b).bottom /\ Box(a).right = Box(b).right /\ a < b

\* Margins follow the block that ends lowest, from top to bottom.
MarginalEdges ==
  {Edge(p[1], p[2], "vertical", 0) :
     p \in Smallest(Ids \ Marginals, Lowest) \X Smallest(Marginals, TopLeft)}
  \cup {Edge(p[1], p[2], "region", 0) : p \in Adjacent(Marginals, TopLeft)}

XyCutEdges ==
  LET before(a, b) ==
        blocks[a].path < blocks[b].path \/ (blocks[a].path = blocks[b].path /\ a < b)
  IN {Edge(p[1], p[2], "xy", 0) : p \in Adjacent({b \in Ids : Fallback(blocks[b])}, before)}

\* The nearest block below that shares columns, the nearest to the right that shares rows.
Below(a) ==
  Smallest({b \in MainFlow \ {a} : Box(a).bottom <= Box(b).top /\ Across(Box(a), Box(b)) > 0},
           TopLeft)
RightOf(a) ==
  LET nearer(b, c) ==
        \/ Box(b).left < Box(c).left
        \/ Box(b).left = Box(c).left /\ Box(b).top < Box(c).top
        \/ Box(b).left = Box(c).left /\ Box(b).top = Box(c).top /\ b < c
  IN Smallest({b \in MainFlow \ {a} :
                 /\ Box(a).right <= Box(b).left
                 /\ 2 * Along(Box(a), Box(b)) >= Least(Height(Box(a)), Height(Box(b)))},
              nearer)
GeometryEdges ==
  (UNION {{Edge(a, b, "vertical", 0) : b \in Below(a)} : a \in MainFlow})
  \cup (UNION {{Edge(a, b, "horizontal", 0) : b \in RightOf(a)} : a \in MainFlow})

\* The shortest vertical gap, which is 0 if the boxes share rows.
Gap(x, y) == Most(0, Most(y.top - x.bottom, x.top - y.bottom))
CaptionEdges ==
  LET objects == {b \in Ids : blocks[b].label \in {"image", "table"}}
      nearest(t) == Smallest(objects, LAMBDA a, b :
                      \/ Gap(Box(t), Box(a)) < Gap(Box(t), Box(b))
                      \/ Gap(Box(t), Box(a)) = Gap(Box(t), Box(b)) /\ a < b)
  IN UNION {{IF Box(t).top >= Box(o).bottom THEN Edge(o, t, "caption", 0)
             ELSE Edge(t, o, "caption", 0) : o \in nearest(t)} :
              t \in {b \in Ids : blocks[b].label = "caption"}}

InsertionEdges ==
  {Edge(p[1], p[2], "insertion", 0) :
     p \in {q \in Adjacent(Ids, TopLeft) : Fallback(blocks[q[1]]) \/ Fallback(blocks[q[2]])}}

Constraints ==
  ModelEdges \cup MarginalEdges \cup XyCutEdges \cup GeometryEdges \cup CaptionEdges
    \cup InsertionEdges

-----------------------------------------------------------------------------
Followers(E, a) == {b \in Ids : \E e \in E : e.from = a /\ e.to = b}

\* b lies in every set that holds what follows a and all that follows its members.
Reaches(E, a, b) ==
  \A S \in SUBSET Ids :
    (Followers(E, a) \subseteq S /\ \A c \in S : Followers(E, c) \subseteq S) => b \in S

Component(a) == {b \in Ids : Reaches(active, a, b) /\ Reaches(active, b, a)}
Components == {Component(a) : a \in {b \in Ids : Reaches(active, b, b)}}
Removable(C) == {e \in active : e.from \in C /\ e.to \in C /\ ~Strong(e)}

Weaker(e, f) ==
  \/ e.weight < f.weight
  \/ e.weight = f.weight /\ Rank[e.source] < Rank[f.source]
  \/ e.weight = f.weight /\ e.source = f.source /\ e.from < f.from
  \/ e.weight = f.weight /\ e.source = f.source /\ e.from = f.from /\ e.to < f.to

OrderInit == edges = {} /\ active = {} /\ ordered = <<>>

Connect ==
  /\ phase = "composed"
  /\ edges' = Constraints /\ active' = Constraints
  /\ phase' = "resolving"
  /\ UNCHANGED <<blocks, ordered>>

\* Every cyclic component loses its weakest removable constraint; one without any is an
\* internal error.
Cut ==
  /\ phase = "resolving" /\ Components # {}
  /\ LET irreducible == \E C \in Components : Removable(C) = {}
         weakest == UNION {Smallest(Removable(C), Weaker) : C \in Components}
     IN /\ phase' = IF irreducible THEN "conflict" ELSE phase
        /\ active' = IF irreducible THEN active ELSE active \ weakest
  /\ UNCHANGED <<blocks, edges, ordered>>

Resolved ==
  /\ phase = "resolving" /\ Components = {}
  /\ phase' = "sorting"
  /\ UNCHANGED <<blocks, orderVars>>

Placed == {ordered[i] : i \in DOMAIN ordered}

\* Mutant of Ready: one satisfied constraint is enough.
ReadyTooEarly ==
  {b \in Ids \ Placed : LET into == {e \in active : e.to = b}
                        IN into = {} \/ \E e \in into : e.from \in Placed}

Ready == {b \in Ids \ Placed : \A e \in active : e.to = b => e.from \in Placed}

\* Ties are broken by residual path, position, region before residual, and id.
Sooner(a, b) ==
  \/ blocks[a].path < blocks[b].path
  \/ blocks[a].path = blocks[b].path /\ TopLeft(a, b)

Pop ==
  /\ phase = "sorting" /\ Ready # {}
  /\ \E b \in Smallest(Ready, Sooner) : ordered' = Append(ordered, b)
  /\ UNCHANGED <<phase, blocks, edges, active>>

Ordering == Connect \/ Cut \/ Resolved \/ Pop
=============================================================================
