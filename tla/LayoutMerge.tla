----------------------------- MODULE LayoutMerge -----------------------------
(***************************************************************************)
(* SemanticAssembler::normalize_blocks (crates/core/src/semantic/normalize.rs) *)
(* and FigureCatalog::place (figure.rs): rows of symbols beside their        *)
(* definitions, blocks that contain each other, and the line numbers beside  *)
(* an algorithm become one block.  Groups are compared in the order of their *)
(* first blocks, which joining a later group does not change.                *)
(***************************************************************************)
EXTENDS PageBlocks, SequencesExt

VARIABLES
  runs,    \* runs of aligned rows that have not been looked at
  lists,   \* sets of blocks that form a list of aligned rows
  groups,  \* sets of blocks that become one block each
  left,    \* the first block of the group that is being completed
  passed   \* the first block of the last group it was compared with

mergeVars == <<runs, lists, groups, left, passed>>

ASSUME PagesAssumption ==
  \A p \in Pages :
    /\ DOMAIN p \subseteq Nat /\ IsFiniteSet(DOMAIN p)
    /\ \A b \in DOMAIN p : Assigned(p[b])
    /\ OwnedOnce(p)

-----------------------------------------------------------------------------
(* Rows of a narrow symbol beside its definition. *)

OneLine(b) == blocks[b].label = "text" /\ Len(blocks[b].lines) = 1

\* r can be the definition of the symbol l.
Defines(r, l) ==
  LET x == blocks[l].box
      y == blocks[r].box
  IN /\ OneLine(l) /\ OneLine(r) /\ Width(x) <= 4 * Height(x)
     /\ y.left >= x.right /\ y.left - x.left <= 12 * Height(x)
     /\ 2 * Along(x, y) >= Least(Height(x), Height(y))

\* Each symbol with the nearest of its definitions.
Rows ==
  {p \in (DOMAIN blocks) \X (DOMAIN blocks) :
     /\ Defines(p[2], p[1])
     /\ \A r \in DOMAIN blocks \ {p[2]} : Defines(r, p[1]) =>
          \/ blocks[p[2]].box.left < blocks[r].box.left
          \/ blocks[p[2]].box.left = blocks[r].box.left /\ p[2] < r}

\* Blocks of one column start within two points of each other.
SameColumn(b, c) ==
  LET x == blocks[b].box.left
      y == blocks[c].box.left
  IN x - y <= 2 /\ y - x <= 2

\* Rows from top to bottom; a run ends where the next row is too far below.
Higher(p, q) ==
  \/ blocks[p[1]].box.top < blocks[q[1]].box.top
  \/ blocks[p[1]].box.top = blocks[q[1]].box.top /\ p[1] < q[1]
Run(rows, p) ==
  LET ends == {q \in rows : \A s \in rows : Higher(q, s) =>
                 blocks[s[1]].box.top - blocks[q[1]].box.top > 6 * Height(blocks[q[1]].box)}
  IN {q \in rows : \A e \in ends : Higher(e, q) <=> Higher(e, p)}

\* Every row may be the center whose columns the others of a run share.
AlignedRuns ==
  LET rows == Rows
      aligned(p) == {q \in rows : SameColumn(q[1], p[1]) /\ SameColumn(q[2], p[2])}
      around(p) == {[center |-> p, rows |-> Run(aligned(p), q)] : q \in aligned(p)}
  IN {c \in UNION {around(p) : p \in rows} : Cardinality(c.rows) >= 5}

\* The longest run is looked at first, then the one whose center was found first.
Denser(c, d) ==
  \/ Cardinality(c.rows) > Cardinality(d.rows)
  \/ /\ Cardinality(c.rows) = Cardinality(d.rows)
     /\ \/ c.center[1] < d.center[1]
        \/ c.center = d.center /\ \E p \in c.rows : \A q \in d.rows : Higher(p, q)

\* Wrapped or fused text between the rows of a run belongs to its list.
Members(c) ==
  LET extent == Envelope({blocks[b].box : b \in UNION {{p[1], p[2]} : p \in c.rows}})
  IN {b \in DOMAIN blocks \ UNION lists :
        LET box == blocks[b].box IN
        /\ blocks[b].label = "text" /\ \E i \in 1..2 : SameColumn(b, c.center[i])
        /\ 2 * extent.top <= box.top + box.bottom /\ box.top + box.bottom <= 2 * extent.bottom
        /\ \E p \in c.rows : Height(box) <= 4 * Height(blocks[p[1]].box)}

InList(g) == \E l \in lists : l \subseteq g

-----------------------------------------------------------------------------
(* Groups. *)

Reach == 15  \* points between an algorithm and the numbers beside it

\* Line numbers, or a second detection of them, beside an algorithm.
Gutter(code, strip) ==
  LET beside == strip.box.right <= code.box.left /\ code.box.left - strip.box.right <= Reach
      duplicate == /\ EmptyAside(strip)
                   /\ strip.box.left <= code.box.left
                   /\ code.box.left - strip.box.left <= Reach
                   /\ 2 * (strip.box.right - code.box.left) >= Width(strip.box)
      numbers == strip.lines # <<>> /\ \A i \in DOMAIN strip.lines : strip.lines[i].digits
  IN /\ code.label = "algorithm" /\ strip.label \in {"text", "aside"}
     /\ 10 * Width(strip.box) <= Width(code.box)
     /\ 10 * Along(code.box, strip.box) >= 8 * Height(strip.box)
     /\ duplicate \/ (beside /\ numbers)

Extent(g) == Envelope({blocks[b].box : b \in g})

\* Groups join through their original blocks, never through the space between them; a
\* list joins only what contains all of it.
Joins(g, h) ==
  \/ InList(g) /\ Encloses(Extent(h), Extent(g))
  \/ InList(h) /\ Encloses(Extent(g), Extent(h))
  \/ /\ ~InList(g) /\ ~InList(h)
     /\ \E a \in g, b \in h :
          \/ Encloses(blocks[a].box, blocks[b].box) \/ Encloses(blocks[b].box, blocks[a].box)
          \/ Gutter(blocks[a], blocks[b]) \/ Gutter(blocks[b], blocks[a])

\* LabelPolicy: algorithms, atomic and structured blocks own what they contain.
Owning(b) == b.label \in {"algorithm", "image", "table", "content"}
Prefers(a, b) ==
  LET rank(i) == <<IF Owning(blocks[i]) THEN 0 ELSE 1, IF blocks[i].lines # <<>> THEN 0 ELSE 1,
                   IF Fallback(blocks[i]) THEN 1 ELSE 0,
                   IF Fallback(blocks[i]) THEN 100 ELSE -blocks[i].confidence, i>>
  IN \E k \in 1..5 : rank(a)[k] < rank(b)[k] /\ \A j \in 1..(k - 1) : rank(a)[j] = rank(b)[j]
Primary(g) == CHOOSE a \in g : \A b \in g \ {a} : Prefers(a, b)

\* Lines are put together again from the text of all members, in reading order.
Above(x, y) ==
  \/ x.box.top < y.box.top
  \/ x.box.top = y.box.top /\ x.box.left < y.box.left
  \/ x.box.top = y.box.top /\ x.box.left = y.box.left /\ x.id < y.id
Reassembled(g) ==
  LET lines == UNION {{blocks[b].lines[i] : i \in DOMAIN blocks[b].lines} : b \in g}
  IN [n \in 1..Cardinality(lines) |->
        CHOOSE x \in lines : Cardinality({y \in lines : Above(y, x)}) = n - 1]

\* Empty asides add nothing to the geometry of a group; a list of body text is content.
Merged(g) ==
  LET content == {b \in g : ~EmptyAside(blocks[b])}
      final == Extent(IF content = {} THEN g ELSE content)
      orders == {blocks[b].order : b \in {c \in g : ~Fallback(blocks[c])}}
      sparse == \A b \in g : blocks[b].box # final
  IN IF Cardinality(g) = 1 THEN blocks[Primary(g)]
     ELSE [blocks[Primary(g)] EXCEPT
             !.label = IF InList(g) /\ \A b \in g : blocks[b].label = "text" THEN "content" ELSE @,
             !.box = final, !.lines = Reassembled(g), !.sparse = @ \/ sparse,
             !.order = IF orders = {} THEN @ ELSE CHOOSE o \in orders : \A p \in orders : o <= p]

\* A figure grows to its image unless it would then nest with another block, whose box
\* is taken as it was before any figure grew.
Place(bs) ==
  [b \in DOMAIN bs |->
     LET grown == Union(bs[b].figure, bs[b].box)
         nests == \E c \in DOMAIN bs \ {b} :
                    Encloses(grown, bs[c].box) \/ Encloses(bs[c].box, grown)
     IN IF bs[b].figure = NoBox \/ nests THEN bs[b] ELSE [bs[b] EXCEPT !.box = grown]]

-----------------------------------------------------------------------------
First(g) == CHOOSE a \in g : \A b \in g : a <= b

MergeInit ==
  /\ phase = "aligning" /\ blocks \in Pages
  /\ runs = AlignedRuns /\ lists = {} /\ groups = {} /\ left = 0 /\ passed = 0

\* aligned_row_groups: a run becomes a list if denser ones have left enough of its blocks.
Align ==
  /\ phase = "aligning"
  /\ \E c \in runs :
       /\ \A d \in runs \ {c} : Denser(c, d)
       /\ runs' = runs \ {c}
       /\ lists' = IF Cardinality(Members(c)) >= 2 * Cardinality(c.rows)
                   THEN lists \cup {Members(c)} ELSE lists
  /\ UNCHANGED <<phase, blocks, groups, left, passed>>

Group ==
  /\ phase = "aligning" /\ runs = {}
  /\ phase' = "merging"
  /\ groups' = lists \cup {{b} : b \in DOMAIN blocks \ UNION lists}
  /\ left' = IF blocks = <<>> THEN 0 ELSE First(DOMAIN blocks)
  /\ passed' = left'
  /\ UNCHANGED <<blocks, runs, lists>>

Current == {g \in groups : left \in g}
Candidates == {h \in groups : First(h) > passed /\ \E g \in Current : Joins(g, h)}

\* The next group that joins is absorbed; if the extent grows, those skipped earlier
\* are looked at again.
Absorb ==
  /\ phase = "merging"
  /\ \E g \in Current, h \in Candidates :
       /\ \A k \in Candidates : First(h) <= First(k)
       /\ groups' = (groups \ {g, h}) \cup {g \cup h}
       /\ passed' = IF Encloses(Extent(g), Extent(h)) THEN First(h) ELSE left
  /\ UNCHANGED <<phase, blocks, runs, lists, left>>

Later == {g \in groups : First(g) > left}

Advance ==
  /\ phase = "merging" /\ Candidates = {}
  /\ \E g \in Later : (\A h \in Later : First(g) <= First(h)) /\ left' = First(g)
  /\ passed' = left'
  /\ UNCHANGED <<phase, blocks, runs, lists, groups>>

\* compose ends: every group becomes a block under the id of its primary member.
Compose ==
  /\ phase = "merging" /\ Candidates = {} /\ Later = {}
  /\ LET owners == {b \in DOMAIN blocks : \E g \in groups : b = Primary(g)}
         composed == Place([b \in owners |-> Merged(CHOOSE g \in groups : b \in g)])
     IN /\ blocks' = composed
        /\ phase' = IF \A b \in owners : Proper(composed[b].box) THEN "composed" ELSE "refused"
  /\ UNCHANGED mergeVars

Merging == Align \/ Group \/ Absorb \/ Advance \/ Compose
=============================================================================
