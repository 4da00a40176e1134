---------------------------- MODULE ListRecovery ----------------------------
(***************************************************************************)
(* Lists in body text (crates/core/src/semantic/list.rs) and what the result *)
(* validator demands of them (validate.rs).  Fonts are 10 points; marker     *)
(* texts are reduced to their family, their value and, for a single letter,  *)
(* the value it has as a Roman numeral (0 if none).                          *)
(***************************************************************************)
EXTENDS PageBlocks, SequencesExt

Size == 10
NoMark == [kind |-> "none", value |-> 0, roman |-> 0]
Distance(a, b) == IF a <= b THEN b - a ELSE a - b
Aligned(a, b) == 10 * Distance(a, b) <= 6 * Size

\* Families that need a sequence as evidence, in the order they are tried.
WeakKinds == <<"bare", "alpha", "roman">>
Evidence(kind) == IF kind = "bare" THEN 3 ELSE 2

\* A letter counts as a Roman numeral only for a sequence of that family.
ValueAs(mark, kind) ==
  CASE mark.kind = kind -> mark.value
    [] mark.kind = "alpha" /\ kind = "roman" -> mark.roman
    [] OTHER -> 0

\* A forward flow without a large gap.
Follows(line, previous, distance) ==
  LET gap == line.box.top - previous.box.bottom
  IN ~line.vertical /\ 4 * gap >= -Size /\ gap <= 2 * Size * Most(distance, 1)

\* Numbering runs of one family.  Runs older than twelve lines are forgotten.
Extends(lines, kind, run, i) ==
  LET last == run[Len(run)]
  IN /\ i - last <= 12 /\ Len(run) + 1 = ValueAs(lines[i].mark, kind)
     /\ Aligned(lines[run[1]].box.left, lines[i].box.left)
     /\ Follows(lines[i], lines[last], i - last)

\* A run that is long enough confirms its lines, then each further one.
Confirmed(found, kind, run) ==
  LET new == IF Len(run) = Evidence(kind) THEN DOMAIN run
             ELSE IF Len(run) > Evidence(kind) THEN {Len(run)} ELSE {}
  IN [j \in DOMAIN found |->
        IF \E n \in new : run[n] = j
          THEN [kind |-> kind, value |-> CHOOSE n \in new : run[n] = j, roman |-> 0]
          ELSE found[j]]

\* The latest run that the line extends takes it; a line with value 1 starts a run.
Numbered(st, lines, kind, i, live) ==
  IF live # {}
    THEN LET k == CHOOSE j \in live : \A m \in live : m <= j
         IN [runs |-> [st.runs EXCEPT ![k] = Append(@, i)],
             found |-> Confirmed(st.found, kind, Append(st.runs[k], i))]
    ELSE IF ValueAs(lines[i].mark, kind) = 1 THEN [st EXCEPT !.runs = Append(@, <<i>>)] ELSE st

Confirm(lines, kind, before) ==
  FoldLeft(LAMBDA st, i :
             Numbered(st, lines, kind, i,
                      {k \in DOMAIN st.runs : Extends(lines, kind, st.runs[k], i)}),
           [runs |-> <<>>, found |-> before],
           SelectSeq([i \in DOMAIN lines |-> i],
                     LAMBDA i : ValueAs(lines[i].mark, kind) > 0)).found

\* The markers that count: bullets and punctuated decimals by themselves, the weak
\* families where a sequence confirms them; a later family overrides an earlier one.
Marks(lines) ==
  LET nothing == [i \in DOMAIN lines |-> NoMark]
      found == FoldLeft(LAMBDA f, kind : Confirm(lines, kind, f), nothing, WeakKinds)
  IN [i \in DOMAIN lines |->
        IF lines[i].mark.kind \in {"none", "bullet", "decimal"} THEN lines[i].mark ELSE found[i]]

\* A line without a marker continues the deepest active item whose body or whose own
\* start it is aligned with.
Continues(line, previous, first) ==
  /\ Follows(line, previous, 1) /\ ~line.bold
  /\ \/ Aligned(line.box.left, first.box.left + Size)
     \/ 10 * Distance(line.box.left, first.box.left) <= 4 * Size /\ ~previous.closed

\* A marker starts a new list if it does not flow on, lies to the left of the list, or
\* changes the family or restarts the numbers at the root.
Tolerance == 6
Restarts(st, lines, i, mark) ==
  LET x == lines[i].box.left
      changed(root) == root.kind # mark.kind \/ (mark.kind # "bullet" /\ mark.value = 1 /\ root.value > 1)
  IN \/ st.active = <<>> \/ ~Follows(lines[i], lines[st.previous], 1)
     \/ x < st.indents[1] - Tolerance
     \/ Distance(x, st.indents[1]) <= Tolerance /\ changed(st.items[st.active[1]].mark)

\* The indentations that stay active for a marker at x, and x if it is deeper.
Outer(indents, x) ==
  SubSeq(indents, 1, CHOOSE n \in 0..Len(indents) :
    /\ \A m \in (n + 1)..Len(indents) : x < indents[m] - Tolerance
    /\ n > 0 => x >= indents[n] - Tolerance)
Indented(outer, x) ==
  IF outer = <<>> \/ x > outer[Len(outer)] + Tolerance THEN Append(outer, x) ELSE outer

Start(st, i, mark, group, active, indents) ==
  [items |-> Append(st.items, [group |-> group, level |-> Len(indents) - 1,
                               mark |-> mark, lines |-> <<i>>]),
   group |-> group, indents |-> indents, previous |-> i,
   active |-> Append(SubSeq(active, 1, Len(indents) - 1), Len(st.items) + 1)]

StartItem(st, lines, i, mark) ==
  IF Restarts(st, lines, i, mark)
    THEN Start(st, i, mark, IF st.items = <<>> THEN st.group ELSE st.group + 1, <<>>,
               <<lines[i].box.left>>)
    ELSE Start(st, i, mark, st.group, st.active,
               Indented(Outer(st.indents, lines[i].box.left), lines[i].box.left))

\* fits: the levels of the active items that the line may continue.
ContinueItem(st, i, fits) ==
  IF fits = {} THEN [st EXCEPT !.active = <<>>, !.indents = <<>>, !.previous = 0]
  ELSE LET level == CHOOSE n \in fits : \A m \in fits : m <= n
       IN [st EXCEPT !.active = SubSeq(@, 1, level), !.indents = SubSeq(@, 1, level),
                     !.previous = i, !.items[st.active[level]].lines = Append(@, i)]

\* One pass over the lines with the active indentations and the items that own them.
RecoverMarked(lines, marks) ==
  FoldLeft(LAMBDA st, i :
             IF marks[i].kind # "none" THEN StartItem(st, lines, i, marks[i])
             ELSE ContinueItem(st, i, {n \in DOMAIN st.active :
                    Continues(lines[i], lines[st.previous],
                              lines[st.items[st.active[n]].lines[1]])}),
           [items |-> <<>>, group |-> 0, indents |-> <<>>, previous |-> 0, active |-> <<>>],
           [i \in DOMAIN lines |-> i]).items
Recover(lines) == RecoverMarked(lines, Marks(lines))

-----------------------------------------------------------------------------
(* Blocks whose rows belong to one list become one block. *)

Body(b) == b.label = "text"

\* Two body blocks in sequence whose lines flow on; an image is a hard boundary.
Connected(a, b) ==
  /\ Body(a) /\ Body(b) /\ ~a.image /\ ~b.image
  /\ a.lines # <<>> /\ b.lines # <<>>
  /\ LET last == a.lines[Len(a.lines)]
         first == b.lines[1]
     IN /\ Follows(first, last, 1)
        /\ \/ Least(last.box.right, first.box.right) > Most(last.box.left, first.box.left)
           \/ Distance(last.box.left, first.box.left) <= 3 * Size

AllLines(bs) == FlattenSeq([i \in DOMAIN bs |-> bs[i].lines])
\* owner[n]: the block of the n-th line.
Owners(bs) == FlattenSeq([i \in DOMAIN bs |-> [n \in DOMAIN bs[i].lines |-> i]])

\* Blocks i and i+1 belong to one list group.
Glued(bs, items, i) ==
  \E g \in {items[k].group : k \in DOMAIN items} :
    LET rows == UNION {Range(items[k].lines) : k \in {m \in DOMAIN items : items[m].group = g}}
    IN (\E n \in rows : Owners(bs)[n] <= i) /\ (\E n \in rows : Owners(bs)[n] > i)

\* Mutant of Listed: the merged block has no hint that it is a sparse union.
Unhinted(bs, from, to, items, offset) ==
  LET part == SubSeq(bs, from, to)
      lines == AllLines(part)
      own == SelectSeq(items, LAMBDA t : t.lines[1] \in (offset + 1)..(offset + Len(lines)))
  IN [bs[from] EXCEPT
        !.box = Envelope({part[i].box : i \in DOMAIN part}), !.lines = lines,
        !.items = [k \in DOMAIN own |->
          [own[k] EXCEPT !.group = @ - own[1].group,
                         !.lines = [n \in DOMAIN @ |-> @[n] - offset]]]]

\* The block that takes over the lines and the items of a glued range of blocks.
Listed(bs, from, to, items, offset) ==
  LET part == SubSeq(bs, from, to)
      lines == AllLines(part)
      own == SelectSeq(items, LAMBDA t : t.lines[1] \in (offset + 1)..(offset + Len(lines)))
  IN [bs[from] EXCEPT
        !.box = Envelope({part[i].box : i \in DOMAIN part}), !.lines = lines,
        !.sparse = @ \/ from < to,
        !.items = [k \in DOMAIN own |->
          [own[k] EXCEPT !.group = @ - own[1].group,
                         !.lines = [n \in DOMAIN @ |-> @[n] - offset]]]]

\* The consecutive parts of bs that begin at starts, as pairs of positions.
Spans(bs, starts) ==
  LET end(i) == CHOOSE j \in i..Len(bs) :
                  (j = Len(bs) \/ j + 1 \in starts) /\ \A k \in (i + 1)..j : k \notin starts
  IN [k \in 1..Cardinality(starts) |->
        LET i == CHOOSE i \in starts : Cardinality({j \in starts : j <= i}) = k IN <<i, end(i)>>]

\* The blocks of one run of connected body blocks, or any other single block.
JoinRun(bs, items) ==
  LET s == Spans(bs, {i \in DOMAIN bs : i = 1 \/ ~Glued(bs, items, i - 1)})
  IN [k \in DOMAIN s |->
        Listed(bs, s[k][1], s[k][2], items, Len(AllLines(SubSeq(bs, 1, s[k][1] - 1))))]
RecoverRun(bs) == JoinRun(bs, IF Body(bs[1]) THEN Recover(AllLines(bs)) ELSE <<>>)

RecoverLists(bs) ==
  LET s == Spans(bs, {i \in DOMAIN bs : i = 1 \/ ~Connected(bs[i - 1], bs[i])})
  IN FlattenSeq([k \in DOMAIN s |-> RecoverRun(SubSeq(bs, s[k][1], s[k][2]))])

-----------------------------------------------------------------------------
(* ResultValidator::validate_block_lists. *)

ItemOf(b, n) == {k \in DOMAIN b.items : n \in Range(b.items[k].lines)}

\* The walk over the lines: which items are open, and whether nesting holds so far.
Nesting(b) ==
  LET step(st, n) ==
        IF ItemOf(b, n) = {} THEN [st EXCEPT !.active = <<>>]
        ELSE LET k == CHOOSE i \in ItemOf(b, n) : TRUE
                 item == b.items[k]
                 open == IF item.group # st.group THEN <<>> ELSE st.active
                 at == {m \in DOMAIN st.active : st.active[m] = k}
             IN IF n = item.lines[1]
                THEN [group |-> item.group,
                      ok |-> /\ st.ok /\ item.level <= Len(open)
                             /\ item.group = st.group => st.active # <<>>,
                      active |-> Append(SubSeq(open, 1, Least(item.level, Len(open))), k)]
                ELSE [st EXCEPT !.ok = @ /\ at # {},
                                !.active = SubSeq(@, 1, IF at = {} THEN 0
                                                        ELSE CHOOSE m \in at : TRUE)]
  IN FoldLeft(step, [group |-> -1, ok |-> TRUE, active |-> <<>>], [n \in DOMAIN b.lines |-> n]).ok

ListsValid(b) ==
  b.items # <<>> =>
    /\ Body(b)
    /\ \A k \in DOMAIN b.items :
         LET item == b.items[k]
             before == IF k = 1 THEN [group |-> -1, lines |-> <<0>>] ELSE b.items[k - 1]
         IN /\ item.group # before.group => item.level = 0 /\ item.group > before.group
            /\ item.lines # <<>> /\ Range(item.lines) \subseteq DOMAIN b.lines
            /\ item.mark.kind # "bullet"
                 => item.mark.value = ValueAs(b.lines[item.lines[1]].mark, item.mark.kind)
            /\ item.lines[1] > before.lines[1]
            /\ \A n \in 2..Len(item.lines) : item.lines[n - 1] < item.lines[n]
    /\ \A n \in DOMAIN b.lines : Cardinality(ItemOf(b, n)) <= 1
    /\ Nesting(b)
=============================================================================
