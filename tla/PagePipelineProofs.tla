------------------------- MODULE PagePipelineProofs -------------------------
(***************************************************************************)
(* Proofs about the page pipeline, for any documents that share the slots,  *)
(* any number of pages and any number of slots: a step changes the owners   *)
(* of one page; what it frees goes to the oldest waiters (HandOver), which  *)
(* otherwise stay as they are.  And about the stages of page tasks, for any *)
(* tasks, regions and budgets: the pixels of crops stay within the budgets, *)
(* and a page that is done has an answer for each of its regions.           *)
(***************************************************************************)
EXTENDS AnalyzePages, PageStages, LineProofs

Waits(d) == d \in ToSet(line)

\* Slots: no more than there are, and none free while a producer waits in the line.
SlotsOK ==
  /\ IsFiniteSet(Occupied(holders)) /\ Cardinality(Occupied(holders)) <= Slots
  /\ line # <<>> => Cardinality(Occupied(holders)) = Slots

LineOK == line \in Seq(Documents) /\ IsInjective(line)

\* Who has pixels of a page is among the owners of its slot; a page that no producer
\* has come to has none.
OwnersOK(d, p) ==
  /\ producer[d] \in {"none", "reserve"} /\ p >= next[d] => holders[d][p] = {}
  /\ producer[d] \in {"waiting", "rendering", "sending"} /\ p > next[d] => holders[d][p] = {}
  /\ producer[d] = "waiting" /\ p = next[d] =>
       holders[d][p] = IF Waits(d) THEN {} ELSE {"producer"}
  /\ producer[d] \in {"rendering", "sending"} /\ p = next[d] => "producer" \in holders[d][p]
  /\ channel[d] = p => "channel" \in holders[d][p]
  /\ worker[d] = p /\ rendered[d][p] # "timeout" => "worker" \in holders[d][p]
  /\ task[d][p] # "none" => "task" \in holders[d][p]

PlaceOK(d) ==
  /\ producer[d] \in {"reserve", "waiting", "rendering", "sending"} => next[d] \in Pages
  /\ producer[d] = "rendering" => worker[d] = next[d]

\* Until the producer is in its page nothing of it is rendered.
RenderedOK(d) ==
  /\ producer[d] \in {"none", "reserve", "waiting", "rendering"} =>
       \A p \in Pages : p >= next[d] => rendered[d][p] = "none"
  /\ producer[d] = "sending" => \A p \in Pages : p > next[d] => rendered[d][p] = "none"
  /\ producer[d] \in {"closing", "finished", "failed", "observed"} =>
       /\ TimedOut(d) \/ next[d] = PageCount + 1
       /\ \A p \in Pages : p >= next[d] => rendered[d][p] = "none"

\* A page was analyzed, or fell back to its native text where that is tolerated.
Accepted(d, p) == rendered[d][p] = "ok" \/ d \in tolerant

\* The books of a document: the facts of a page are still there, or a task has them,
\* or its result was collected.
BooksOK(d) ==
  /\ driver[d] = "opening" =>
       /\ producer[d] = "none" /\ next[d] = 1 /\ channel[d] = 0
       /\ \A p \in Pages : task[d][p] = "none" /\ results[d][p] = 0
  /\ driver[d] = "driving" =>
       /\ producer[d] \notin {"none", "dropped"} /\ channel[d] \in {0, next[d] - 1}
       /\ \A p \in Pages :
            /\ p \in extracted[d] <=> p >= next[d] \/ p = channel[d]
            /\ task[d][p] # "aborting"
            /\ p \in extracted[d] => task[d][p] = "none"
            /\ results[d][p] = IF task[d][p] = "none" /\ p \notin extracted[d] THEN 1 ELSE 0
            /\ task[d][p] = "done" \/ results[d][p] = 1 => Accepted(d, p)
  /\ driver[d] \in {"recovering", "linking", "done"} =>
       /\ producer[d] = "observed"
       /\ \A p \in Pages : task[d][p] = "none" /\ Accepted(d, p)
  /\ driver[d] = "recovering" =>
       /\ d \in tolerant
       /\ \A p \in Pages : results[d][p] = IF p \in extracted[d] THEN 0 ELSE 1
  /\ driver[d] \in {"linking", "done"} => \A p \in Pages : results[d][p] = 1

DocumentOK(d) ==
  PlaceOK(d) /\ RenderedOK(d) /\ BooksOK(d) /\ \A p \in Pages : OwnersOK(d, p)

IInv ==
  /\ TypeOK /\ LineOK /\ SlotsOK
  /\ \A d \in Documents : DocumentOK(d)

-----------------------------------------------------------------------------
(* Slots change hands. *)

\* Those who are no longer in the line have been given a slot.
Woken(l) == ToSet(l) \ ToSet(line')

\* What is left for a document when owners have become h and slots were handed on.
Handed(h, l, d) ==
  holders'[d] = IF d \in Woken(l) THEN [h[d] EXCEPT ![next[d]] = {"producer"}] ELSE h[d]

LEMMA OccupiedFacts ==
  ASSUME NEW h
  PROVE  /\ Occupied(h) \subseteq Documents \X Pages
         /\ \A d \in Documents, p \in Pages : <<d, p>> \in Occupied(h) <=> h[d][p] # {}
  BY DEF Occupied

LEMMA SamePairs ==
  ASSUME NEW S, NEW T, NEW A, NEW B, A \subseteq S \X T, B \subseteq S \X T,
         \A x \in S, y \in T : <<x, y>> \in A <=> <<x, y>> \in B
  PROVE  A = B
<1>1. ASSUME NEW z \in S \X T PROVE z \in A <=> z \in B
  <2>1. PICK x \in S, y \in T : z = <<x, y>>
    OBVIOUS
  <2> QED OBVIOUS
<1> QED OBVIOUS

\* Free slots go to the oldest waiters, as far as they reach.
LEMMA HandOver ==
  ASSUME NEW h \in [Documents -> [Pages -> SUBSET Owners]], NEW l \in Seq(Documents),
         IsInjective(l), \A d \in ToSet(l) : next[d] \in Pages /\ h[d][next[d]] = {},
         IsFiniteSet(Occupied(h)), Cardinality(Occupied(h)) <= Slots,
         Reassign(h, l)
  PROVE  /\ LineOK' /\ SlotsOK' /\ ToSet(line') \subseteq ToSet(l)
         /\ holders' \in [Documents -> [Pages -> SUBSET Owners]]
         /\ \A d \in Documents : Handed(h, l, d)
<1>. DEFINE vacant == Slots - Cardinality(Occupied(h))
            n == Min({vacant, Len(l)})
            served == {l[j] : j \in 1..n}
            left == SubSeq(l, n + 1, Len(l))
            given == {<<d, next[d]>> : d \in served}
<1>1. vacant \in Nat /\ Slots \in Nat /\ Cardinality(Occupied(h)) \in Nat
  BY PipelineAssumption, FS_CardinalityType
<1>2. Len(l) \in Nat /\ ToSet(l) = {l[j] : j \in 1..Len(l)} /\ ToSet(l) \subseteq Documents
  BY LineElements
<1>3. n \in 0..Len(l) /\ n <= vacant /\ (n = Len(l) \/ n = vacant)
  <2>1. PICK x \in {vacant, Len(l)} : \A y \in {vacant, Len(l)} : x <= y
    BY <1>1
  <2>2. n \in {vacant, Len(l)} /\ \A y \in {vacant, Len(l)} : n <= y
    BY <2>1 DEF Min
  <2> QED BY <1>1, <2>2
<1>. HIDE DEF n, served, left
<1>3a. PICK k \in 0..Len(l) : k = n
  BY <1>3
<1>3b. l \in Seq(Documents) /\ IsInjective(l)
  OBVIOUS
<1>3c. LET rest == SubSeq(l, k + 1, Len(l))
           first == {l[j] : j \in 1..k} IN
       /\ rest \in Seq(Documents) /\ IsInjective(rest)
       /\ ToSet(rest) = ToSet(l) \ first
       /\ first \subseteq ToSet(l) /\ IsFiniteSet(first) /\ Cardinality(first) = k
       /\ rest = <<>> <=> k = Len(l)
  BY <1>3b, Served
<1>4. /\ left \in Seq(Documents) /\ IsInjective(left) /\ ToSet(left) = ToSet(l) \ served
      /\ served \subseteq ToSet(l) /\ IsFiniteSet(served) /\ Cardinality(served) = n
      /\ left = <<>> <=> n = Len(l)
  BY <1>3a, <1>3c DEF served, left
<1>5. line' = left /\ holders' = [d \in Documents |->
         IF d \in served THEN [h[d] EXCEPT ![next[d]] = {"producer"}] ELSE h[d]]
  BY DEF Reassign, n, served, left
<1>6. Woken(l) = served
  BY <1>4, <1>5 DEF Woken
<1>7. ASSUME NEW d \in Documents PROVE Handed(h, l, d)
  BY <1>5, <1>6 DEF Handed
<1>7a. holders' \in [Documents -> [Pages -> SUBSET Owners]]
  BY <1>5 DEF Owners
<1>8. Occupied(holders') = Occupied(h) \cup given /\ Occupied(h) \cap given = {}
  <2>1. ASSUME NEW d \in Documents, NEW p \in Pages
        PROVE  holders'[d][p] # {} <=> h[d][p] # {} \/ (d \in served /\ p = next[d])
    BY <1>4, <1>5
  <2>2. given \subseteq Documents \X Pages /\ \A d \in served : h[d][next[d]] = {}
    BY <1>2, <1>4
  <2>3. \A d \in Documents, p \in Pages : <<d, p>> \in given <=> d \in served /\ p = next[d]
    OBVIOUS
  <2>4. /\ Occupied(holders') \subseteq Documents \X Pages /\ Occupied(h) \subseteq Documents \X Pages
        /\ \A d \in Documents, p \in Pages :
             /\ <<d, p>> \in Occupied(h) <=> h[d][p] # {}
             /\ <<d, p>> \in Occupied(holders') <=> holders'[d][p] # {}
    BY OccupiedFacts
  <2>. HIDE DEF given
  <2>4a. \A d \in Documents, p \in Pages :
           <<d, p>> \in Occupied(holders') <=> <<d, p>> \in Occupied(h) \cup given
    <3>. SUFFICES ASSUME NEW d \in Documents, NEW p \in Pages
                  PROVE  <<d, p>> \in Occupied(holders') <=> <<d, p>> \in Occupied(h) \cup given
      OBVIOUS
    <3>1. <<d, p>> \in Occupied(h) <=> h[d][p] # {}
      BY <2>4
    <3>2. <<d, p>> \in Occupied(holders') <=> holders'[d][p] # {}
      BY <2>4
    <3>3. <<d, p>> \in given <=> d \in served /\ p = next[d]
      BY <2>3
    <3> QED BY <2>1, <3>1, <3>2, <3>3
  <2>4b. Occupied(holders') \subseteq Documents \X Pages /\ Occupied(h) \cup given \subseteq Documents \X Pages
    BY <2>2, <2>4
  <2>5. Occupied(holders') = Occupied(h) \cup given
    BY <2>4a, <2>4b
  <2>6. Occupied(h) \cap given = {}
    <3>1. ASSUME NEW d \in Documents, NEW p \in Pages, <<d, p>> \in given PROVE <<d, p>> \notin Occupied(h)
      BY <2>2, <2>3, <2>4, <3>1
    <3> QED BY <2>2, <3>1
  <2> QED BY <2>5, <2>6
<1>9. IsFiniteSet(given) /\ Cardinality(given) = n
  <2>. DEFINE f == [d \in served |-> <<d, next[d]>>]
  <2>1. f \in Surjection(served, given) /\ f \in Injection(served, given)
    BY DEF Surjection, Injection, IsInjective
  <2> QED BY <1>4, <2>1, FS_Surjection
<1>10. /\ IsFiniteSet(Occupied(holders'))
       /\ Cardinality(Occupied(holders')) = Cardinality(Occupied(h)) + n
  <2>1. Cardinality(Occupied(h) \cap given) = 0
    BY <1>8, FS_EmptySet
  <2>. HIDE DEF given
  <2>2. /\ IsFiniteSet(Occupied(h) \cup given)
        /\ Cardinality(Occupied(h) \cup given) =
             Cardinality(Occupied(h)) + Cardinality(given) - Cardinality(Occupied(h) \cap given)
    BY <1>9, FS_Union
  <2> QED BY <1>3, <1>8, <1>9, <2>1, <2>2
<1>11. SlotsOK'
  BY <1>1, <1>3, <1>4, <1>5, <1>10 DEF SlotsOK
<1>12. LineOK' /\ ToSet(line') \subseteq ToSet(l)
  BY <1>4, <1>5 DEF LineOK
<1> QED BY <1>7, <1>7a, <1>11, <1>12

\* Owners only leave, or join a page that has some: nobody needs a new slot.
LEMMA Fewer ==
  ASSUME IInv, NEW h \in [Documents -> [Pages -> SUBSET Owners]],
         \A d \in Documents, p \in Pages : h[d][p] # {} => holders[d][p] # {},
         NEW l \in Seq(Documents), IsInjective(l), ToSet(l) \subseteq ToSet(line),
         Reassign(h, l)
  PROVE  /\ LineOK' /\ SlotsOK' /\ ToSet(line') \subseteq ToSet(l)
         /\ holders' \in [Documents -> [Pages -> SUBSET Owners]]
         /\ \A d \in Documents : Handed(h, l, d)
<1>1. Occupied(h) \subseteq Occupied(holders)
  <2>1. \A d \in Documents, p \in Pages : <<d, p>> \in Occupied(h) => <<d, p>> \in Occupied(holders)
    BY OccupiedFacts
  <2>2. Occupied(h) \subseteq Documents \X Pages
    BY OccupiedFacts
  <2> QED BY <2>1, <2>2
<1>2. IsFiniteSet(Occupied(h)) /\ Cardinality(Occupied(h)) <= Slots
  <2>1. IsFiniteSet(Occupied(holders)) /\ Cardinality(Occupied(holders)) <= Slots
    BY DEF IInv, SlotsOK
  <2>2. IsFiniteSet(Occupied(h)) /\ Cardinality(Occupied(h)) <= Cardinality(Occupied(holders))
    BY <1>1, <2>1, FS_Subset
  <2> QED BY <2>1, <2>2, FS_CardinalityType, PipelineAssumption
<1>3. ASSUME NEW d \in ToSet(l) PROVE next[d] \in Pages /\ h[d][next[d]] = {}
  <2>1. d \in Documents /\ producer[d] = "waiting" /\ Waits(d)
    BY DEF IInv, TypeOK, Waits
  <2> QED BY <2>1 DEF IInv, DocumentOK, OwnersOK, PlaceOK
<1> QED BY <1>2, <1>3, HandOver

\* What a step does to the slots of somebody it is not about: at most, one who waits
\* is given a slot.
Gains(d) == Waits(d) /\ d \notin ToSet(line')
KeepsSlots(d) ==
  /\ d \in ToSet(line') => Waits(d)
  /\ holders'[d] = IF Gains(d) THEN [holders[d] EXCEPT ![next[d]] = {"producer"}] ELSE holders[d]

SlotsInOrder ==
  LineOK' /\ SlotsOK' /\ holders' \in [Documents -> [Pages -> SUBSET Owners]]

\* What a page that changes hands does to the slots.
SlotPasses(d, p, from, to) ==
  /\ SlotsInOrder
  /\ \A e \in Documents \ {d} : KeepsSlots(e)
  /\ d \in ToSet(line') => Waits(d)
  /\ \A q \in Pages : holders'[d][q] =
       IF Gains(d) /\ q = next[d] THEN {"producer"}
       ELSE IF q = p THEN (holders[d][p] \ from) \cup to ELSE holders[d][q]

\* One page changes hands.
LEMMA PagePasses ==
  ASSUME IInv, NEW d \in Documents, NEW p \in Pages, NEW from, NEW to \in SUBSET Owners,
         holders[d][p] # {} \/ to = {}, Pass(d, p, from, to)
  PROVE  SlotPasses(d, p, from, to)
<1>. DEFINE h == [holders EXCEPT ![d][p] = (@ \ from) \cup to]
<1>1. holders \in [Documents -> [Pages -> SUBSET Owners]] /\ next[d] \in Int
  BY DEF IInv, TypeOK
<1>2. h \in [Documents -> [Pages -> SUBSET Owners]]
  BY <1>1
<1>3. \A e \in Documents, q \in Pages : h[e][q] # {} => holders[e][q] # {}
  OBVIOUS
<1>4. line \in Seq(Documents) /\ IsInjective(line)
  BY DEF IInv, LineOK
<1>5. Reassign(h, line)
  BY DEF Pass
<1>6. /\ \A e \in Documents \ {d} : h[e] = holders[e]
      /\ \A q \in Pages : h[d][q] = IF q = p THEN (holders[d][p] \ from) \cup to ELSE holders[d][q]
  BY <1>1
<1>. HIDE DEF h
<1>7. /\ SlotsInOrder /\ ToSet(line') \subseteq ToSet(line)
      /\ \A e \in Documents : Handed(h, line, e)
  BY <1>2, <1>3, <1>4, <1>5, Fewer DEF SlotsInOrder
<1>8. \A e \in Documents \ {d} : KeepsSlots(e)
  BY <1>6, <1>7 DEF Handed, Woken, KeepsSlots, Gains, Waits
<1>9. ASSUME NEW q \in Pages
      PROVE  holders'[d][q] = IF Gains(d) /\ q = next[d] THEN {"producer"} ELSE h[d][q]
  BY <1>2, <1>7 DEF Handed, Woken, Gains, Waits
<1> QED BY <1>6, <1>7, <1>8, <1>9 DEF Waits, SlotPasses

\* No slot changes hands.
LEMMA SlotsRest ==
  ASSUME IInv, UNCHANGED slotVars
  PROVE  SlotsInOrder /\ \A e \in Documents : KeepsSlots(e) /\ ~Gains(e)
  BY DEF IInv, TypeOK, LineOK, SlotsOK, slotVars, SlotsInOrder, KeepsSlots, Gains, Waits

\* The pages a document is in.
LEMMA Positions ==
  ASSUME IInv, NEW d \in Documents
  PROVE  /\ PageCount \in Int /\ PageCount >= 1 /\ next[d] \in Int /\ 1 <= next[d] /\ next[d] <= PageCount + 1
         /\ next[d] \in Pages <=> next[d] <= PageCount
         /\ channel[d] # 0 => channel[d] \in Pages
         /\ worker[d] # 0 => worker[d] \in Pages
         /\ 0 \notin Pages /\ \A p \in Pages : p \in Int /\ 1 <= p /\ p <= PageCount
<1>1. PageCount \in Nat /\ PageCount >= 1
  BY PipelineAssumption
<1>2. next[d] \in 1..(PageCount + 1) /\ worker[d] \in 0..PageCount /\ channel[d] \in 0..PageCount
  BY DEF IInv, TypeOK
<1> QED BY <1>1, <1>2 DEF Pages

\* The books of a document are left alone.
Rests(d) ==
  /\ driver'[d] = driver[d] /\ producer'[d] = producer[d] /\ next'[d] = next[d]
  /\ rendered'[d] = rendered[d] /\ worker'[d] = worker[d] /\ channel'[d] = channel[d]
  /\ extracted'[d] = extracted[d] /\ task'[d] = task[d] /\ results'[d] = results[d]
  /\ tolerant' = tolerant

LEMMA Bystander ==
  ASSUME IInv, NEW d \in Documents, Rests(d), KeepsSlots(d)
  PROVE  DocumentOK(d)'
<1>1. PlaceOK(d) /\ RenderedOK(d) /\ BooksOK(d) /\ \A p \in Pages : OwnersOK(d, p)
  BY DEF IInv, DocumentOK
<1>2. /\ Gains(d) => producer[d] = "waiting"
      /\ holders[d] \in [Pages -> SUBSET Owners]
  BY DEF IInv, TypeOK, Gains, Waits
<1>3. PlaceOK(d)' /\ RenderedOK(d)' /\ BooksOK(d)'
  BY <1>1 DEF Rests, PlaceOK, RenderedOK, BooksOK, Accepted, TimedOut
<1>4. ASSUME NEW q \in Pages PROVE OwnersOK(d, q)'
  <2>1. holders'[d] = IF Gains(d) THEN [holders[d] EXCEPT ![next[d]] = {"producer"}] ELSE holders[d]
    BY DEF KeepsSlots
  <2>2. holders'[d][q] = IF Gains(d) /\ q = next[d] THEN {"producer"} ELSE holders[d][q]
    <3>1. CASE Gains(d)
      BY <1>2, <2>1
    <3>2. CASE ~Gains(d)
      BY <2>1, <3>2
    <3> QED BY <3>1, <3>2
  <2>3. Waits(d)' <=> Waits(d) /\ ~Gains(d)
    BY DEF KeepsSlots, Gains, Waits
  <2>4. Gains(d) => Waits(d)
    BY DEF Gains
  <2>5. CASE Gains(d)
    <3>1. OwnersOK(d, q) /\ producer[d] = "waiting" /\ Waits(d) /\ ~Waits(d)'
      BY <1>1, <1>2, <2>3, <2>4, <2>5
    <3>2. CASE q = next[d]
      <4>1. holders[d][q] = {} /\ holders'[d][q] = {"producer"}
        BY <2>2, <2>5, <3>1, <3>2 DEF OwnersOK
      <4> QED BY <3>1, <3>2, <4>1, Positions DEF Rests, OwnersOK
    <3>3. CASE q # next[d]
      BY <2>2, <3>1, <3>3 DEF Rests, OwnersOK
    <3> QED BY <3>2, <3>3
  <2>6. CASE ~Gains(d)
    BY <1>1, <2>2, <2>3, <2>6 DEF Rests, OwnersOK
  <2> QED BY <2>5, <2>6
<1> QED BY <1>3, <1>4 DEF DocumentOK

\* Type correctness of everything but the slots.
BookTypes ==
  /\ tolerant \subseteq Documents
  /\ driver \in [Documents -> {"opening", "driving", "aborting", "recovering", "linking"} \cup Ended]
  /\ producer \in [Documents -> {"none", "reserve", "waiting", "rendering", "sending",
                                 "closing", "finished", "failed", "observed", "dropped"}]
  /\ next \in [Documents -> 1..(PageCount + 1)]
  /\ rendered \in [Documents -> [Pages -> {"none", "ok", "error", "fatal", "timeout"}]]
  /\ worker \in [Documents -> 0..PageCount] /\ channel \in [Documents -> 0..PageCount]
  /\ extracted \in [Documents -> SUBSET Pages]
  /\ task \in [Documents -> [Pages -> {"none", "running", "done", "error", "aborting"}]]
  /\ results \in [Documents -> [Pages -> 0..1]]

\* What is known before a step of a document.
LEMMA Before ==
  ASSUME IInv, NEW d \in Documents
  PROVE  /\ BookTypes /\ PlaceOK(d) /\ RenderedOK(d) /\ BooksOK(d)
         /\ \A p \in Pages : OwnersOK(d, p)
         /\ producer[d] # "waiting" => ~Waits(d)
  BY DEF IInv, TypeOK, BookTypes, DocumentOK, Waits

\* What a step about one document has to be shown to keep.
LEMMA OneDocument ==
  ASSUME IInv, NEW d \in Documents, BookTypes', SlotsInOrder,
         d \in ToSet(line') => producer'[d] = "waiting",
         PlaceOK(d)', RenderedOK(d)', BooksOK(d)', \A p \in Pages : OwnersOK(d, p)',
         \A e \in Documents \ {d} : Rests(e) /\ KeepsSlots(e)
  PROVE  IInv'
<1>1. ASSUME NEW e \in Documents PROVE DocumentOK(e)'
  BY Bystander DEF DocumentOK
<1>2. \A e \in Documents : e \in ToSet(line) => producer[e] = "waiting"
  BY DEF IInv, TypeOK
<1>3. ToSet(line') \subseteq Documents
  BY LineElements DEF SlotsInOrder, LineOK
<1>4. ASSUME NEW e \in ToSet(line') PROVE e \in Documents /\ producer'[e] = "waiting"
  <2>1. CASE e = d
    BY <2>1
  <2>2. CASE e # d
    <3>1. e \in Documents \ {d}
      BY <1>3, <2>2
    <3> QED BY <1>2, <3>1 DEF KeepsSlots, Waits, Rests
  <2> QED BY <2>2
<1>5. ToSet(line)' \subseteq {e \in Documents : producer'[e] = "waiting"}
  BY <1>4
<1>6. TypeOK'
  BY <1>5 DEF BookTypes, SlotsInOrder, TypeOK
<1> QED BY <1>1, <1>6 DEF SlotsInOrder, IInv

-----------------------------------------------------------------------------
(* The producer and the native worker. *)

\* A slot that nobody has is taken at once: then nobody waits either.
LEMMA SlotTaken ==
  ASSUME IInv, NEW d \in Documents, Reserve(d)
  PROVE  /\ SlotsInOrder
         /\ \A e \in Documents \ {d} : KeepsSlots(e)
         /\ ToSet(line') = {} /\ ~Gains(d)
         /\ \A q \in Pages : holders'[d][q] =
              IF q = next[d] THEN {"producer", "worker"} ELSE holders[d][q]
<1>. DEFINE h == [holders EXCEPT ![d][next[d]] = (@ \ {}) \cup {"producer", "worker"}]
            page == <<d, next[d]>>
<1>1. /\ holders \in [Documents -> [Pages -> SUBSET Owners]] /\ next[d] \in Pages
      /\ holders[d][next[d]] = {} /\ IsFiniteSet(Occupied(holders))
      /\ Cardinality(Occupied(holders)) < Slots
  BY DEF IInv, TypeOK, SlotsOK, DocumentOK, PlaceOK, OwnersOK, Reserve
<1>2. h \in [Documents -> [Pages -> SUBSET Owners]]
  BY <1>1 DEF Owners
<1>3. line = <<>> /\ ToSet(line) = {} /\ line \in Seq(Documents) /\ IsInjective(line)
  <2>1. line = <<>> /\ line \in Seq(Documents) /\ IsInjective(line)
    BY <1>1, PipelineAssumption DEF IInv, LineOK, SlotsOK
  <2> QED BY <2>1, LineElements
<1>4. /\ \A e \in Documents \ {d} : h[e] = holders[e]
      /\ \A q \in Pages : h[d][q] = IF q = next[d] THEN {"producer", "worker"} ELSE holders[d][q]
  BY <1>1
<1>5. Reassign(h, line)
  BY DEF Reserve, Pass
<1>. HIDE DEF h
<1>6. Occupied(h) = Occupied(holders) \cup {page} /\ page \notin Occupied(holders)
  <2>1. /\ Occupied(h) \subseteq Documents \X Pages
        /\ \A e \in Documents, p \in Pages : <<e, p>> \in Occupied(h) <=> h[e][p] # {}
    BY OccupiedFacts
  <2>2. /\ Occupied(holders) \subseteq Documents \X Pages
        /\ \A e \in Documents, p \in Pages : <<e, p>> \in Occupied(holders) <=> holders[e][p] # {}
    BY OccupiedFacts
  <2>3. ASSUME NEW e \in Documents, NEW p \in Pages
        PROVE  <<e, p>> \in Occupied(h) <=> <<e, p>> \in Occupied(holders) \cup {page}
    <3>1. (<<e, p>> \in Occupied(h) <=> h[e][p] # {})
          /\ (<<e, p>> \in Occupied(holders) <=> holders[e][p] # {})
      BY <2>1, <2>2
    <3>2. <<e, p>> = page <=> e = d /\ p = next[d]
      OBVIOUS
    <3> QED BY <1>1, <1>4, <3>1, <3>2
  <2>4. Occupied(holders) \cup {page} \subseteq Documents \X Pages
    BY <1>1, <2>2
  <2> QED BY <1>1, <2>1, <2>2, <2>3
<1>7. IsFiniteSet(Occupied(h)) /\ Cardinality(Occupied(h)) <= Slots
  <2>1. /\ IsFiniteSet(Occupied(holders) \cup {page})
        /\ Cardinality(Occupied(holders) \cup {page}) = Cardinality(Occupied(holders)) + 1
    BY <1>1, <1>6, FS_AddElement
  <2>2. Cardinality(Occupied(holders)) \in Nat /\ Slots \in Nat
    BY <1>1, FS_CardinalityType, PipelineAssumption
  <2> QED BY <1>1, <1>6, <2>1, <2>2
<1>8. /\ SlotsInOrder /\ ToSet(line') \subseteq ToSet(line)
      /\ \A e \in Documents : Handed(h, line, e)
  BY <1>2, <1>3, <1>5, <1>7, HandOver DEF SlotsInOrder
<1>9. \A e \in Documents : ~Waits(e) /\ e \notin ToSet(line') /\ ~Gains(e) /\ holders'[e] = h[e]
  BY <1>3, <1>8 DEF Handed, Woken, Gains, Waits
<1> QED BY <1>3, <1>4, <1>8, <1>9 DEF KeepsSlots

LEMMA ReserveKeeps ==
  ASSUME IInv, NEW d \in Documents, Reserve(d)
  PROVE  IInv'
<1>1. /\ BookTypes /\ PlaceOK(d) /\ RenderedOK(d) /\ BooksOK(d)
      /\ \A p \in Pages : OwnersOK(d, p)
      /\ producer[d] # "waiting" => ~Waits(d)
  BY Before
<1>2. /\ SlotsInOrder
      /\ \A e \in Documents \ {d} : KeepsSlots(e)
      /\ ToSet(line') = {} /\ ~Gains(d)
      /\ \A q \in Pages : holders'[d][q] =
           IF q = next[d] THEN {"producer", "worker"} ELSE holders[d][q]
  BY SlotTaken
<1>3. next[d] \in Pages
  BY <1>1 DEF PlaceOK, Reserve
<1>4. BookTypes'
  BY <1>1, <1>3, Positions DEF BookTypes, Reserve, StartRender, driverVars
<1>5. \A e \in Documents \ {d} : Rests(e)
  BY DEF Rests, Reserve, StartRender, driverVars
<1>6. PlaceOK(d)'
  BY <1>1 DEF BookTypes, PlaceOK, Reserve, StartRender
<1>7. RenderedOK(d)'
  BY <1>1 DEF RenderedOK, Reserve, StartRender
<1>8. BooksOK(d)'
  BY <1>1 DEF BooksOK, Accepted, Reserve, StartRender, driverVars
<1>9. ASSUME NEW q \in Pages PROVE OwnersOK(d, q)'
  <2>1. OwnersOK(d, q) /\ q \in Int /\ next[d] \in Int /\ ~Waits(d)'
    BY <1>1, <1>2, Positions DEF Waits
  <2>2. /\ producer[d] = "reserve" /\ producer'[d] = "rendering" /\ worker'[d] = next[d]
        /\ UNCHANGED <<next, rendered, channel, task>>
        /\ holders'[d][q] = IF q = next[d] THEN {"producer", "worker"} ELSE holders[d][q]
    BY <1>1, <1>2 DEF BookTypes, Reserve, StartRender, driverVars
  <2> QED BY <2>1, <2>2 DEF OwnersOK
<1> QED BY <1>2, <1>4, <1>5, <1>6, <1>7, <1>8, <1>9, OneDocument

LEMMA QueueKeeps ==
  ASSUME IInv, NEW d \in Documents, Queue(d)
  PROVE  IInv'
<1>1. /\ BookTypes /\ PlaceOK(d) /\ RenderedOK(d) /\ BooksOK(d)
      /\ \A p \in Pages : OwnersOK(d, p)
      /\ producer[d] # "waiting" => ~Waits(d)
  BY Before
<1>2. /\ line' \in Seq(Documents) /\ IsInjective(line') /\ ToSet(line') = ToSet(line) \cup {d}
  <2>1. line \in Seq(Documents) /\ IsInjective(line) /\ d \notin ToSet(line)
    BY <1>1 DEF IInv, LineOK, Queue, Waits
  <2> QED BY <2>1, Joined DEF Queue
<1>3. SlotsInOrder
  BY <1>2 DEF IInv, TypeOK, LineOK, SlotsOK, SlotsInOrder, Queue
<1>3a. \A e \in Documents \ {d} : KeepsSlots(e)
  BY <1>2 DEF KeepsSlots, Gains, Waits, Queue
<1>4. BookTypes'
  BY <1>1 DEF BookTypes, Queue, driverVars
<1>5. \A e \in Documents \ {d} : Rests(e)
  BY DEF Rests, Queue, driverVars
<1>6. PlaceOK(d)'
  BY <1>1 DEF PlaceOK, Queue
<1>7. RenderedOK(d)'
  BY <1>1 DEF RenderedOK, Queue
<1>8. BooksOK(d)'
  BY <1>1 DEF BooksOK, Accepted, Queue, driverVars
<1>9. ASSUME NEW q \in Pages PROVE OwnersOK(d, q)'
  <2>1. OwnersOK(d, q) /\ q \in Int /\ next[d] \in Int /\ Waits(d)'
    BY <1>1, <1>2, Positions DEF Waits
  <2>2. /\ producer[d] = "reserve" /\ producer'[d] = "waiting"
        /\ UNCHANGED <<holders, worker, next, rendered, channel, task>>
    BY <1>1 DEF BookTypes, Queue, driverVars
  <2> QED BY <2>1, <2>2 DEF OwnersOK
<1>10. d \in ToSet(line') => producer'[d] = "waiting"
  BY <1>1 DEF BookTypes, Queue
<1> QED BY <1>3, <1>3a, <1>4, <1>5, <1>6, <1>7, <1>8, <1>9, <1>10, OneDocument

LEMMA GrantedKeeps ==
  ASSUME IInv, NEW d \in Documents, Granted(d)
  PROVE  IInv'
<1>1. /\ BookTypes /\ PlaceOK(d) /\ RenderedOK(d) /\ BooksOK(d)
      /\ \A q \in Pages : OwnersOK(d, q)
      /\ producer[d] # "waiting" => ~Waits(d)
  BY Before
<1>1a. next[d] \in Pages
  BY <1>1 DEF PlaceOK, Granted
<1>1b. holders[d][next[d]] # {} /\ {"worker"} \in SUBSET Owners
  BY DEF Owners, Granted
<1>2. SlotPasses(d, next[d], {}, {"worker"})
  BY <1>1a, <1>1b, PagePasses DEF Granted
<1>3. SlotsInOrder /\ \A e \in Documents \ {d} : KeepsSlots(e)
  BY <1>2 DEF SlotPasses
<1>4. BookTypes'
  BY <1>1, <1>1a, Positions DEF BookTypes, Granted, StartRender, driverVars
<1>5. \A e \in Documents \ {d} : Rests(e)
  BY DEF Rests, Granted, StartRender, driverVars
<1>6. PlaceOK(d)'
  BY <1>1 DEF BookTypes, PlaceOK, Granted, StartRender
<1>7. RenderedOK(d)'
  BY <1>1 DEF RenderedOK, Granted, StartRender
<1>8. BooksOK(d)'
  BY <1>1 DEF BooksOK, Accepted, Granted, StartRender, driverVars
<1>9. ASSUME NEW q \in Pages PROVE OwnersOK(d, q)'
  <2>1. holders'[d][q] = IF Gains(d) /\ q = next[d] THEN {"producer"}
                          ELSE IF q = next[d] THEN (holders[d][next[d]] \ {}) \cup {"worker"}
                          ELSE holders[d][q]
    BY <1>2 DEF SlotPasses
  <2>2. Waits(d)' <=> Waits(d) /\ ~Gains(d)
    BY <1>2 DEF SlotPasses, Gains, Waits
  <2>3. Gains(d) => Waits(d)
    BY DEF Gains
  <2> QED BY <1>1, <2>1, <2>3 DEF BookTypes, OwnersOK, Granted, StartRender, driverVars
<1>10. d \in ToSet(line') => producer'[d] = "waiting"
  BY <1>1, <1>1a, <1>2 DEF Granted, OwnersOK, SlotPasses
<1> QED BY <1>3, <1>4, <1>5, <1>6, <1>7, <1>8, <1>9, <1>10, OneDocument

LEMMA RenderEndsKeeps ==
  ASSUME IInv, NEW d \in Documents, RenderEnds(d)
  PROVE  IInv'
<1>1. /\ BookTypes /\ PlaceOK(d) /\ RenderedOK(d) /\ BooksOK(d)
      /\ \A q \in Pages : OwnersOK(d, q)
      /\ producer[d] # "waiting" => ~Waits(d)
  BY Before
<1>1a. next[d] \in Pages
  BY Positions DEF RenderEnds
<1>1b. {} \in SUBSET Owners
  OBVIOUS
<1>2. SlotPasses(d, next[d], {"worker"}, {})
  BY <1>1a, PagePasses DEF RenderEnds
<1>3. SlotsInOrder /\ \A e \in Documents \ {d} : KeepsSlots(e)
  BY <1>2 DEF SlotPasses
<1>4. BookTypes'
  BY <1>1, Positions DEF BookTypes, RenderEnds, driverVars
<1>5. \A e \in Documents \ {d} : Rests(e)
  BY DEF Rests, RenderEnds, driverVars
<1>6. PlaceOK(d)'
  BY <1>1 DEF BookTypes, PlaceOK, RenderEnds
<1>7. RenderedOK(d)'
  BY <1>1, Positions DEF BookTypes, RenderedOK, RenderEnds
<1>8. BooksOK(d)'
  BY <1>1, Positions DEF BooksOK, Accepted, RenderEnds, driverVars
<1>9. ASSUME NEW q \in Pages PROVE OwnersOK(d, q)'
  <2>1. holders'[d][q] = IF Gains(d) /\ q = next[d] THEN {"producer"}
                          ELSE IF q = next[d] THEN (holders[d][next[d]] \ {"worker"}) \cup {}
                          ELSE holders[d][q]
    BY <1>2 DEF SlotPasses
  <2>2. Waits(d)' <=> Waits(d) /\ ~Gains(d)
    BY <1>2 DEF SlotPasses, Gains, Waits
  <2>3. Gains(d) => Waits(d)
    BY DEF Gains
  <2> QED BY <1>1, <2>1, <2>3, Positions DEF BookTypes, OwnersOK, RenderEnds, driverVars
<1>10. d \in ToSet(line') => producer'[d] = "waiting"
  BY <1>1, <1>2 DEF SlotPasses, RenderEnds
<1> QED BY <1>3, <1>4, <1>5, <1>6, <1>7, <1>8, <1>9, <1>10, OneDocument

LEMMA RenderTimesOutKeeps ==
  ASSUME IInv, NEW d \in Documents, RenderTimesOut(d)
  PROVE  IInv'
<1>1. /\ BookTypes /\ PlaceOK(d) /\ RenderedOK(d) /\ BooksOK(d)
      /\ \A q \in Pages : OwnersOK(d, q)
      /\ producer[d] # "waiting" => ~Waits(d)
  BY Before
<1>1a. next[d] \in Pages
  BY <1>1 DEF PlaceOK, RenderTimesOut
<1>1b. {} \in SUBSET Owners
  OBVIOUS
<1>2. SlotPasses(d, next[d], {"worker"}, {})
  BY <1>1a, PagePasses DEF RenderTimesOut
<1>3. SlotsInOrder /\ \A e \in Documents \ {d} : KeepsSlots(e)
  BY <1>2 DEF SlotPasses
<1>4. BookTypes'
  BY <1>1, Positions DEF BookTypes, Ended, RenderTimesOut, driverVars
<1>5. \A e \in Documents \ {d} : Rests(e)
  BY DEF Rests, RenderTimesOut, driverVars
<1>6. PlaceOK(d)'
  BY <1>1 DEF PlaceOK, RenderTimesOut
<1>7. RenderedOK(d)'
  BY <1>1, Positions DEF BookTypes, RenderedOK, RenderTimesOut
<1>8. BooksOK(d)'
  BY <1>1, Positions DEF BooksOK, Accepted, RenderTimesOut, driverVars
<1>9. ASSUME NEW q \in Pages PROVE OwnersOK(d, q)'
  <2>1. holders'[d][q] = IF Gains(d) /\ q = next[d] THEN {"producer"}
                          ELSE IF q = next[d] THEN (holders[d][next[d]] \ {"worker"}) \cup {}
                          ELSE holders[d][q]
    BY <1>2 DEF SlotPasses
  <2>2. Waits(d)' <=> Waits(d) /\ ~Gains(d)
    BY <1>2 DEF SlotPasses, Gains, Waits
  <2>3. Gains(d) => Waits(d)
    BY DEF Gains
  <2> QED BY <1>1, <2>1, <2>3 DEF BookTypes, OwnersOK, RenderTimesOut, driverVars
<1>10. d \in ToSet(line') => producer'[d] = "waiting"
  BY <1>1, <1>2 DEF SlotPasses, RenderTimesOut
<1> QED BY <1>3, <1>4, <1>5, <1>6, <1>7, <1>8, <1>9, <1>10, OneDocument

LEMMA WorkerReturnsKeeps ==
  ASSUME IInv, NEW d \in Documents, WorkerReturns(d)
  PROVE  IInv'
<1>1. /\ BookTypes /\ PlaceOK(d) /\ RenderedOK(d) /\ BooksOK(d)
      /\ \A q \in Pages : OwnersOK(d, q)
      /\ producer[d] # "waiting" => ~Waits(d)
  BY Before
<1>1a. worker[d] \in Pages
  BY Positions DEF WorkerReturns
<1>1b. {} \in SUBSET Owners
  OBVIOUS
<1>2. SlotPasses(d, worker[d], {"worker"}, {})
  BY <1>1a, PagePasses DEF WorkerReturns
<1>3. SlotsInOrder /\ \A e \in Documents \ {d} : KeepsSlots(e)
  BY <1>2 DEF SlotPasses
<1>4. BookTypes'
  BY <1>1, Positions DEF BookTypes, WorkerReturns, driverVars
<1>5. \A e \in Documents \ {d} : Rests(e)
  BY DEF Rests, WorkerReturns, driverVars
<1>6. PlaceOK(d)'
  BY <1>1 DEF PlaceOK, WorkerReturns
<1>7. RenderedOK(d)'
  BY <1>1 DEF RenderedOK, TimedOut, WorkerReturns
<1>8. BooksOK(d)'
  BY <1>1 DEF BooksOK, Accepted, WorkerReturns, driverVars
<1>9. ASSUME NEW q \in Pages PROVE OwnersOK(d, q)'
  <2>1. holders'[d][q] = IF Gains(d) /\ q = next[d] THEN {"producer"}
                          ELSE IF q = worker[d] THEN (holders[d][worker[d]] \ {"worker"}) \cup {}
                          ELSE holders[d][q]
    BY <1>2 DEF SlotPasses
  <2>2. Waits(d)' <=> Waits(d) /\ ~Gains(d)
    BY <1>2 DEF SlotPasses, Gains, Waits
  <2>3. Gains(d) => Waits(d)
    BY DEF Gains
  <2>4. CASE Gains(d)
    BY <1>1, <2>1, <2>2, <2>3, <2>4, Positions DEF BookTypes, OwnersOK, WorkerReturns, driverVars
  <2>5. CASE ~Gains(d)
    <3>1. /\ OwnersOK(d, q) /\ q # 0 /\ (Waits(d)' <=> Waits(d))
          /\ holders'[d][q] = IF q = worker[d] THEN holders[d][q] \ {"worker"} ELSE holders[d][q]
          /\ worker'[d] = 0 /\ producer[d] # "rendering"
      BY <1>1, <2>1, <2>2, <2>5, Positions DEF BookTypes, WorkerReturns
    <3>2. CASE producer[d] = "waiting" /\ q = next[d]
      <4>1. holders'[d][q] = holders[d][q]
        BY <3>1, <3>2 DEF OwnersOK
      <4> QED BY <3>1, <4>1 DEF OwnersOK, WorkerReturns, driverVars
    <3>3. CASE ~(producer[d] = "waiting" /\ q = next[d])
      BY <3>1, <3>3 DEF OwnersOK, WorkerReturns, driverVars
    <3> QED BY <3>2, <3>3
  <2> QED BY <2>4, <2>5
<1>10. d \in ToSet(line') => producer'[d] = "waiting"
  BY <1>1, <1>2 DEF SlotPasses, WorkerReturns
<1> QED BY <1>3, <1>4, <1>5, <1>6, <1>7, <1>8, <1>9, <1>10, OneDocument

LEMMA DeliverKeeps ==
  ASSUME IInv, NEW d \in Documents, Deliver(d)
  PROVE  IInv'
<1>1. /\ BookTypes /\ PlaceOK(d) /\ RenderedOK(d) /\ BooksOK(d)
      /\ \A q \in Pages : OwnersOK(d, q)
      /\ producer[d] # "waiting" => ~Waits(d)
  BY Before
<1>1a. next[d] \in Pages
  BY <1>1 DEF PlaceOK, Deliver
<1>1b. holders[d][next[d]] # {} /\ {"channel"} \in SUBSET Owners
  BY <1>1, <1>1a DEF OwnersOK, Owners, Deliver
<1>2. SlotPasses(d, next[d], {"producer"}, {"channel"})
  BY <1>1a, <1>1b, PagePasses DEF Deliver
<1>3. SlotsInOrder /\ \A e \in Documents \ {d} : KeepsSlots(e)
  BY <1>2 DEF SlotPasses
<1>4. BookTypes'
  BY <1>1, <1>1a, Positions DEF BookTypes, Deliver, driverVars
<1>5. \A e \in Documents \ {d} : Rests(e)
  BY DEF Rests, Deliver, driverVars
<1>6. PlaceOK(d)'
  <2>1. next'[d] = next[d] + 1 /\ producer'[d] \in {"closing", "reserve"}
        /\ (producer'[d] = "reserve" => next[d] # PageCount)
    BY <1>1 DEF BookTypes, Deliver
  <2> QED BY <1>1a, <2>1, Positions DEF PlaceOK, Pages
<1>7. RenderedOK(d)'
  BY <1>1, Positions DEF BookTypes, RenderedOK, PlaceOK, TimedOut, Deliver
<1>8. BooksOK(d)'
  <2>1. /\ next'[d] = next[d] + 1 /\ channel'[d] = next[d] /\ channel[d] = 0
        /\ producer'[d] \in {"closing", "reserve"} /\ producer[d] = "sending"
        /\ UNCHANGED <<driver, extracted, task, results, rendered, tolerant>>
    BY <1>1 DEF BookTypes, Deliver, driverVars
  <2>2. next[d] \in Pages /\ next[d] \in Int /\ \A p \in Pages : p \in Int
    BY <1>1a, Positions
  <2>3. driver[d] \notin {"opening", "recovering", "linking", "done"}
    BY <1>1, <2>1 DEF BooksOK
  <2>4. ASSUME driver[d] = "driving", NEW p \in Pages
        PROVE  p \in extracted[d] <=> p >= next'[d] \/ p = channel'[d]
    <3>1. /\ channel[d] \in {0, next[d] - 1} /\ (p \in extracted[d] <=> p >= next[d] \/ p = channel[d])
      BY <1>1, <2>4 DEF BooksOK
    <3>2. p # 0
      BY Positions
    <3> QED BY <2>1, <2>2, <3>1, <3>2
  <2> QED BY <1>1, <2>1, <2>2, <2>4 DEF BooksOK, Accepted
<1>9. ASSUME NEW q \in Pages PROVE OwnersOK(d, q)'
  <2>1. holders'[d][q] = IF Gains(d) /\ q = next[d] THEN {"producer"}
                          ELSE IF q = next[d] THEN (holders[d][next[d]] \ {"producer"}) \cup {"channel"}
                          ELSE holders[d][q]
    BY <1>2 DEF SlotPasses
  <2>2. Waits(d)' <=> Waits(d) /\ ~Gains(d)
    BY <1>2 DEF SlotPasses, Gains, Waits
  <2>3. Gains(d) => Waits(d)
    BY DEF Gains
  <2>4. CASE Gains(d)
    BY <1>1, <2>3, <2>4 DEF Deliver
  <2>5. CASE ~Gains(d)
    <3>1. /\ OwnersOK(d, q) /\ ~Waits(d) /\ ~Waits(d)'
          /\ holders'[d][q] = IF q = next[d] THEN (holders[d][q] \ {"producer"}) \cup {"channel"}
                             ELSE holders[d][q]
          /\ next'[d] = next[d] + 1 /\ producer'[d] \in {"closing", "reserve"}
          /\ channel'[d] = next[d] /\ producer[d] = "sending"
          /\ UNCHANGED <<rendered, worker, task>>
      BY <1>1, <2>1, <2>2, <2>5 DEF BookTypes, Deliver, driverVars
    <3>2. q \in Int /\ next[d] \in Int
      BY Positions
    <3> QED BY <3>1, <3>2 DEF OwnersOK
  <2> QED BY <2>4, <2>5
<1>10. d \in ToSet(line') => producer'[d] = "waiting"
  BY <1>1, <1>2 DEF SlotPasses, Deliver
<1> QED BY <1>3, <1>4, <1>5, <1>6, <1>7, <1>8, <1>9, <1>10, OneDocument

LEMMA CloseSessionKeeps ==
  ASSUME IInv, NEW d \in Documents, CloseSession(d)
  PROVE  IInv'
<1>1. /\ BookTypes /\ PlaceOK(d) /\ RenderedOK(d) /\ BooksOK(d)
      /\ \A q \in Pages : OwnersOK(d, q)
      /\ producer[d] # "waiting" => ~Waits(d)
  BY Before
<1>2. SlotsInOrder /\ \A e \in Documents : KeepsSlots(e) /\ ~Gains(e)
  BY SlotsRest DEF CloseSession
<1>3. SlotsInOrder /\ \A e \in Documents \ {d} : KeepsSlots(e)
  BY <1>2
<1>4. BookTypes'
  BY <1>1 DEF BookTypes, CloseSession, driverVars
<1>5. \A e \in Documents \ {d} : Rests(e)
  BY DEF Rests, CloseSession, driverVars
<1>6. PlaceOK(d)'
  BY DEF PlaceOK, CloseSession
<1>7. RenderedOK(d)'
  BY <1>1 DEF RenderedOK, TimedOut, CloseSession
<1>8. BooksOK(d)'
  BY <1>1 DEF BooksOK, Accepted, CloseSession, driverVars
<1>9. ASSUME NEW q \in Pages PROVE OwnersOK(d, q)'
  <2>1. holders'[d][q] = holders[d][q] /\ (Waits(d)' <=> Waits(d))
    BY DEF slotVars, Waits, CloseSession
  <2> QED BY <1>1, <2>1 DEF OwnersOK, CloseSession, driverVars
<1>10. d \in ToSet(line') => producer'[d] = "waiting"
  BY <1>1 DEF Waits, slotVars, CloseSession
<1> QED BY <1>3, <1>4, <1>5, <1>6, <1>7, <1>8, <1>9, <1>10, OneDocument

-----------------------------------------------------------------------------
(* Page tasks. *)

LEMMA TaskEndsKeeps ==
  ASSUME IInv, NEW d \in Documents, NEW p \in Pages, TaskEnds(d, p)
  PROVE  IInv'
<1>1. /\ BookTypes /\ PlaceOK(d) /\ RenderedOK(d) /\ BooksOK(d)
      /\ \A q \in Pages : OwnersOK(d, q)
      /\ producer[d] # "waiting" => ~Waits(d)
  BY Before
<1>1a. holders[d][p] # {}
  BY <1>1 DEF TaskEnds, OwnersOK
<1>1b. PICK left \in {{}, {"background"}} : Pass(d, p, {}, left)
  BY DEF TaskEnds
<1>1c. left \in SUBSET Owners
  BY DEF Owners
<1>2. SlotPasses(d, p, {}, left)
  BY <1>1a, <1>1b, <1>1c, PagePasses
<1>3. SlotsInOrder /\ \A e \in Documents \ {d} : KeepsSlots(e)
  BY <1>2 DEF SlotPasses
<1>4. BookTypes'
  BY <1>1 DEF BookTypes, TaskEnds, producerVars
<1>5. \A e \in Documents \ {d} : Rests(e)
  BY DEF Rests, TaskEnds, producerVars
<1>6. PlaceOK(d)'
  BY <1>1 DEF PlaceOK, TaskEnds, producerVars
<1>7. RenderedOK(d)'
  BY <1>1 DEF RenderedOK, TimedOut, TaskEnds, producerVars
<1>8. BooksOK(d)'
  BY <1>1 DEF BooksOK, Accepted, TaskEnds, producerVars
<1>9. ASSUME NEW q \in Pages PROVE OwnersOK(d, q)'
  <2>1. holders'[d][q] = IF Gains(d) /\ q = next[d] THEN {"producer"}
                          ELSE IF q = p THEN (holders[d][p] \ {}) \cup left
                          ELSE holders[d][q]
    BY <1>2 DEF SlotPasses
  <2>2. Waits(d)' <=> Waits(d) /\ ~Gains(d)
    BY <1>2 DEF SlotPasses, Gains, Waits
  <2>3. Gains(d) => Waits(d)
    BY DEF Gains
  <2> QED BY <1>1, <2>1, <2>2, <2>3, Positions DEF OwnersOK, TaskEnds, producerVars
<1>10. d \in ToSet(line') => producer'[d] = "waiting"
  BY <1>1, <1>2 DEF SlotPasses, TaskEnds, producerVars
<1> QED BY <1>3, <1>4, <1>5, <1>6, <1>7, <1>8, <1>9, <1>10, OneDocument

LEMMA TaskAbortedKeeps ==
  ASSUME IInv, NEW d \in Documents, NEW p \in Pages, TaskAborted(d, p)
  PROVE  IInv'
<1>1. /\ BookTypes /\ PlaceOK(d) /\ RenderedOK(d) /\ BooksOK(d)
      /\ \A q \in Pages : OwnersOK(d, q)
      /\ producer[d] # "waiting" => ~Waits(d)
  BY Before
<1>1a. holders[d][p] # {}
  BY <1>1 DEF TaskAborted, OwnersOK
<1>1b. PICK left \in {{}, {"background"}} : Pass(d, p, {"task"}, left)
  BY DEF TaskAborted
<1>1c. left \in SUBSET Owners
  BY DEF Owners
<1>2. SlotPasses(d, p, {"task"}, left)
  BY <1>1a, <1>1b, <1>1c, PagePasses
<1>3. SlotsInOrder /\ \A e \in Documents \ {d} : KeepsSlots(e)
  BY <1>2 DEF SlotPasses
<1>4. BookTypes'
  BY <1>1 DEF BookTypes, TaskAborted, producerVars
<1>5. \A e \in Documents \ {d} : Rests(e)
  BY DEF Rests, TaskAborted, producerVars
<1>6. PlaceOK(d)'
  BY <1>1 DEF PlaceOK, TaskAborted, producerVars
<1>7. RenderedOK(d)'
  BY <1>1 DEF RenderedOK, TimedOut, TaskAborted, producerVars
<1>8. BooksOK(d)'
  BY <1>1 DEF BooksOK, TaskAborted
<1>9. ASSUME NEW q \in Pages PROVE OwnersOK(d, q)'
  <2>1. holders'[d][q] = IF Gains(d) /\ q = next[d] THEN {"producer"}
                          ELSE IF q = p THEN (holders[d][p] \ {"task"}) \cup left
                          ELSE holders[d][q]
    BY <1>2 DEF SlotPasses
  <2>2. Waits(d)' <=> Waits(d) /\ ~Gains(d)
    BY <1>2 DEF SlotPasses, Gains, Waits
  <2>3. Gains(d) => Waits(d)
    BY DEF Gains
  <2> QED BY <1>1, <2>1, <2>2, <2>3 DEF BookTypes, OwnersOK, TaskAborted, producerVars
<1>10. d \in ToSet(line') => producer'[d] = "waiting"
  BY <1>1, <1>2 DEF SlotPasses, TaskAborted, producerVars
<1> QED BY <1>3, <1>4, <1>5, <1>6, <1>7, <1>8, <1>9, <1>10, OneDocument

LEMMA BackgroundEndsKeeps ==
  ASSUME IInv, NEW d \in Documents, NEW p \in Pages, BackgroundEnds(d, p)
  PROVE  IInv'
<1>1. /\ BookTypes /\ PlaceOK(d) /\ RenderedOK(d) /\ BooksOK(d)
      /\ \A q \in Pages : OwnersOK(d, q)
      /\ producer[d] # "waiting" => ~Waits(d)
  BY Before
<1>1a. {} \in SUBSET Owners
  OBVIOUS
<1>2. SlotPasses(d, p, {"background"}, {})
  BY PagePasses DEF BackgroundEnds
<1>3. SlotsInOrder /\ \A e \in Documents \ {d} : KeepsSlots(e)
  BY <1>2 DEF SlotPasses
<1>4. BookTypes'
  BY <1>1 DEF BookTypes, BackgroundEnds, producerVars, driverVars
<1>5. \A e \in Documents \ {d} : Rests(e)
  BY DEF Rests, BackgroundEnds, producerVars, driverVars
<1>6. PlaceOK(d)'
  BY <1>1 DEF PlaceOK, BackgroundEnds, producerVars
<1>7. RenderedOK(d)'
  BY <1>1 DEF RenderedOK, TimedOut, BackgroundEnds, producerVars
<1>8. BooksOK(d)'
  BY <1>1 DEF BooksOK, Accepted, BackgroundEnds, producerVars, driverVars
<1>9. ASSUME NEW q \in Pages PROVE OwnersOK(d, q)'
  <2>1. holders'[d][q] = IF Gains(d) /\ q = next[d] THEN {"producer"}
                          ELSE IF q = p THEN (holders[d][p] \ {"background"}) \cup {}
                          ELSE holders[d][q]
    BY <1>2 DEF SlotPasses
  <2>2. Waits(d)' <=> Waits(d) /\ ~Gains(d)
    BY <1>2 DEF SlotPasses, Gains, Waits
  <2>3. Gains(d) => Waits(d)
    BY DEF Gains
  <2> QED BY <1>1, <2>1, <2>2, <2>3, Positions
             DEF OwnersOK, BackgroundEnds, producerVars, driverVars
<1>10. d \in ToSet(line') => producer'[d] = "waiting"
  BY <1>1, <1>2 DEF SlotPasses, BackgroundEnds, producerVars
<1> QED BY <1>3, <1>4, <1>5, <1>6, <1>7, <1>8, <1>9, <1>10, OneDocument

-----------------------------------------------------------------------------
(* The driver. *)

LEMMA ReceiveKeeps ==
  ASSUME IInv, NEW d \in Documents, Receive(d)
  PROVE  IInv'
<1>1. /\ BookTypes /\ PlaceOK(d) /\ RenderedOK(d) /\ BooksOK(d)
      /\ \A q \in Pages : OwnersOK(d, q)
      /\ producer[d] # "waiting" => ~Waits(d)
  BY Before
<1>1a. channel[d] \in Pages
  BY Positions DEF Receive
<1>1b. holders[d][channel[d]] # {} /\ {"task"} \in SUBSET Owners
  BY <1>1, <1>1a DEF OwnersOK, Owners
<1>2. SlotPasses(d, channel[d], {"channel"}, {"task"})
  BY <1>1a, <1>1b, PagePasses DEF Receive
<1>3. SlotsInOrder /\ \A e \in Documents \ {d} : KeepsSlots(e)
  BY <1>2 DEF SlotPasses
<1>4. BookTypes'
  BY <1>1, Positions DEF BookTypes, Receive, producerVars
<1>5. \A e \in Documents \ {d} : Rests(e)
  BY DEF Rests, Receive, producerVars
<1>6. PlaceOK(d)'
  BY <1>1 DEF PlaceOK, Receive, producerVars
<1>7. RenderedOK(d)'
  BY <1>1 DEF RenderedOK, TimedOut, Receive, producerVars
<1>8. BooksOK(d)'
  BY <1>1, Positions DEF BookTypes, BooksOK, Accepted, Receive, producerVars
<1>9. ASSUME NEW q \in Pages PROVE OwnersOK(d, q)'
  <2>1. holders'[d][q] = IF Gains(d) /\ q = next[d] THEN {"producer"}
                          ELSE IF q = channel[d] THEN (holders[d][channel[d]] \ {"channel"}) \cup {"task"}
                          ELSE holders[d][q]
    BY <1>2 DEF SlotPasses
  <2>2. Waits(d)' <=> Waits(d) /\ ~Gains(d)
    BY <1>2 DEF SlotPasses, Gains, Waits
  <2>3. Gains(d) => Waits(d)
    BY DEF Gains
  <2> QED BY <1>1, <2>1, <2>2, <2>3, Positions DEF BookTypes, OwnersOK, Receive, producerVars
<1>10. d \in ToSet(line') => producer'[d] = "waiting"
  BY <1>1, <1>2 DEF SlotPasses, Receive, producerVars
<1> QED BY <1>3, <1>4, <1>5, <1>6, <1>7, <1>8, <1>9, <1>10, OneDocument

LEMMA CollectKeeps ==
  ASSUME IInv, NEW d \in Documents, NEW p \in Pages, Collect(d, p)
  PROVE  IInv'
<1>1. /\ BookTypes /\ PlaceOK(d) /\ RenderedOK(d) /\ BooksOK(d)
      /\ \A q \in Pages : OwnersOK(d, q)
      /\ producer[d] # "waiting" => ~Waits(d)
  BY Before
<1>1a. {} \in SUBSET Owners
  OBVIOUS
<1>2. SlotPasses(d, p, {"task"}, {})
  BY PagePasses DEF Collect
<1>3. SlotsInOrder /\ \A e \in Documents \ {d} : KeepsSlots(e)
  BY <1>2 DEF SlotPasses
<1>4. BookTypes'
  <2>1. UNCHANGED <<tolerant, driver, producer, next, rendered, worker, channel, extracted>>
    BY DEF Collect, producerVars
  <2>2. task' \in [Documents -> [Pages -> {"none", "running", "done", "error", "aborting"}]]
    BY <1>1 DEF BookTypes, Collect
  <2>3. results' \in [Documents -> [Pages -> 0..1]]
    <3>1. results[d][p] = 0
      BY <1>1, Positions DEF BookTypes, Collect, BooksOK
    <3> QED BY <1>1, <3>1 DEF BookTypes, Collect
  <2> QED BY <1>1, <2>1, <2>2, <2>3 DEF BookTypes
<1>5. \A e \in Documents \ {d} : Rests(e)
  BY DEF Rests, Collect, producerVars
<1>6. PlaceOK(d)'
  BY <1>1 DEF PlaceOK, Collect, producerVars
<1>7. RenderedOK(d)'
  BY <1>1 DEF RenderedOK, TimedOut, Collect, producerVars
<1>8. BooksOK(d)'
  BY <1>1 DEF BookTypes, BooksOK, Accepted, Collect, producerVars
<1>9. ASSUME NEW q \in Pages PROVE OwnersOK(d, q)'
  <2>1. holders'[d][q] = IF Gains(d) /\ q = next[d] THEN {"producer"}
                          ELSE IF q = p THEN (holders[d][p] \ {"task"}) \cup {}
                          ELSE holders[d][q]
    BY <1>2 DEF SlotPasses
  <2>2. Waits(d)' <=> Waits(d) /\ ~Gains(d)
    BY <1>2 DEF SlotPasses, Gains, Waits
  <2>3. Gains(d) => Waits(d)
    BY DEF Gains
  <2> QED BY <1>1, <2>1, <2>2, <2>3 DEF BookTypes, OwnersOK, Collect, producerVars
<1>10. d \in ToSet(line') => producer'[d] = "waiting"
  BY <1>1, <1>2 DEF SlotPasses, Collect, producerVars
<1> QED BY <1>3, <1>4, <1>5, <1>6, <1>7, <1>8, <1>9, <1>10, OneDocument

LEMMA ScanDocumentKeeps ==
  ASSUME IInv, NEW d \in Documents, ScanDocument(d)
  PROVE  IInv'
<1>1. /\ BookTypes /\ PlaceOK(d) /\ RenderedOK(d) /\ BooksOK(d)
      /\ \A q \in Pages : OwnersOK(d, q)
      /\ producer[d] # "waiting" => ~Waits(d)
  BY Before
<1>2. SlotsInOrder /\ \A e \in Documents : KeepsSlots(e) /\ ~Gains(e)
  BY SlotsRest DEF ScanDocument
<1>3. SlotsInOrder /\ \A e \in Documents \ {d} : KeepsSlots(e)
  BY <1>2
<1>4. BookTypes'
  <2>1. /\ driver' \in {[driver EXCEPT ![d] = "driving"], [driver EXCEPT ![d] = "failed"]}
        /\ producer' \in {[producer EXCEPT ![d] = "reserve"], producer}
        /\ extracted' \in {[extracted EXCEPT ![d] = Pages], extracted}
        /\ UNCHANGED <<tolerant, next, rendered, worker, channel, task, results>>
    BY DEF ScanDocument
  <2>2. driver' \in [Documents -> {"opening", "driving", "aborting", "recovering", "linking"} \cup Ended]
    BY <1>1, <2>1 DEF BookTypes, Ended
  <2>3. producer' \in [Documents -> {"none", "reserve", "waiting", "rendering", "sending",
                                    "closing", "finished", "failed", "observed", "dropped"}]
    BY <1>1, <2>1 DEF BookTypes
  <2>4. extracted' \in [Documents -> SUBSET Pages]
    BY <1>1, <2>1 DEF BookTypes
  <2> QED BY <1>1, <2>1, <2>2, <2>4 DEF BookTypes
<1>5. \A e \in Documents \ {d} : Rests(e)
  BY <1>1 DEF BookTypes, Rests, ScanDocument
<1>6. PlaceOK(d)'
  BY <1>1, Positions DEF BookTypes, PlaceOK, ScanDocument, BooksOK
<1>7. RenderedOK(d)'
  BY <1>1 DEF BookTypes, RenderedOK, ScanDocument, BooksOK
<1>8. BooksOK(d)'
  BY <1>1, Positions DEF BookTypes, BooksOK, ScanDocument
<1>9. ASSUME NEW q \in Pages PROVE OwnersOK(d, q)'
  <2>1. holders'[d][q] = holders[d][q] /\ (Waits(d)' <=> Waits(d))
    BY DEF slotVars, Waits, ScanDocument
  <2> QED BY <1>1, <2>1 DEF BookTypes, OwnersOK, ScanDocument, BooksOK
<1>10. d \in ToSet(line') => producer'[d] = "waiting"
  BY <1>1 DEF Waits, slotVars, ScanDocument, BooksOK
<1> QED BY <1>3, <1>4, <1>5, <1>6, <1>7, <1>8, <1>9, <1>10, OneDocument

LEMMA ObserveCloseKeeps ==
  ASSUME IInv, NEW d \in Documents, ObserveClose(d)
  PROVE  IInv'
<1>1. /\ BookTypes /\ PlaceOK(d) /\ RenderedOK(d) /\ BooksOK(d)
      /\ \A q \in Pages : OwnersOK(d, q)
      /\ producer[d] # "waiting" => ~Waits(d)
  BY Before
<1>2. SlotsInOrder /\ \A e \in Documents : KeepsSlots(e) /\ ~Gains(e)
  BY SlotsRest DEF ObserveClose
<1>3. SlotsInOrder /\ \A e \in Documents \ {d} : KeepsSlots(e)
  BY <1>2
<1>4. BookTypes'
  BY <1>1 DEF BookTypes, ObserveClose, driverVars
<1>5. \A e \in Documents \ {d} : Rests(e)
  BY DEF Rests, ObserveClose, driverVars
<1>6. PlaceOK(d)'
  BY DEF PlaceOK, ObserveClose
<1>7. RenderedOK(d)'
  BY <1>1 DEF RenderedOK, TimedOut, ObserveClose
<1>8. BooksOK(d)'
  BY <1>1 DEF BooksOK, Accepted, ObserveClose, driverVars
<1>9. ASSUME NEW q \in Pages PROVE OwnersOK(d, q)'
  <2>1. holders'[d][q] = holders[d][q] /\ (Waits(d)' <=> Waits(d))
    BY DEF slotVars, Waits, ObserveClose
  <2> QED BY <1>1, <2>1 DEF OwnersOK, ObserveClose, driverVars
<1>10. d \in ToSet(line') => producer'[d] = "waiting"
  BY <1>1 DEF Waits, slotVars, ObserveClose
<1> QED BY <1>3, <1>4, <1>5, <1>6, <1>7, <1>8, <1>9, <1>10, OneDocument

LEMMA DrainedKeeps ==
  ASSUME IInv, NEW d \in Documents, Drained(d)
  PROVE  IInv'
<1>1. /\ BookTypes /\ PlaceOK(d) /\ RenderedOK(d) /\ BooksOK(d)
      /\ \A q \in Pages : OwnersOK(d, q)
      /\ producer[d] # "waiting" => ~Waits(d)
  BY Before
<1>2. SlotsInOrder /\ \A e \in Documents : KeepsSlots(e) /\ ~Gains(e)
  BY SlotsRest DEF Drained
<1>3. SlotsInOrder /\ \A e \in Documents \ {d} : KeepsSlots(e)
  BY <1>2
<1>4. BookTypes'
  BY <1>1 DEF BookTypes, Ended, Drained, producerVars
<1>5. \A e \in Documents \ {d} : Rests(e)
  BY DEF Rests, Drained, producerVars
<1>6. PlaceOK(d)'
  BY <1>1 DEF PlaceOK, Drained, producerVars
<1>7. RenderedOK(d)'
  BY <1>1 DEF RenderedOK, TimedOut, Drained, producerVars
<1>8. BooksOK(d)'
  BY DEF BooksOK, Drained
<1>9. ASSUME NEW q \in Pages PROVE OwnersOK(d, q)'
  <2>1. holders'[d][q] = holders[d][q] /\ (Waits(d)' <=> Waits(d))
    BY DEF slotVars, Waits, Drained
  <2> QED BY <1>1, <2>1 DEF OwnersOK, Drained, producerVars
<1>10. d \in ToSet(line') => producer'[d] = "waiting"
  BY <1>1 DEF Waits, slotVars, Drained, producerVars
<1> QED BY <1>3, <1>4, <1>5, <1>6, <1>7, <1>8, <1>9, <1>10, OneDocument

LEMMA LeaveLoopKeeps ==
  ASSUME IInv, NEW d \in Documents, LeaveLoop(d)
  PROVE  IInv'
<1>1. /\ BookTypes /\ PlaceOK(d) /\ RenderedOK(d) /\ BooksOK(d)
      /\ \A q \in Pages : OwnersOK(d, q)
      /\ producer[d] # "waiting" => ~Waits(d)
  BY Before
<1>2. SlotsInOrder /\ \A e \in Documents : KeepsSlots(e) /\ ~Gains(e)
  BY SlotsRest DEF LeaveLoop
<1>3. SlotsInOrder /\ \A e \in Documents \ {d} : KeepsSlots(e)
  BY <1>2
<1>4. BookTypes'
  BY <1>1 DEF BookTypes, LeaveLoop, producerVars
<1>5. \A e \in Documents \ {d} : Rests(e)
  BY DEF Rests, LeaveLoop, producerVars
<1>6. PlaceOK(d)'
  BY DEF PlaceOK, LeaveLoop, producerVars
<1>7. RenderedOK(d)'
  BY <1>1 DEF RenderedOK, TimedOut, LeaveLoop, producerVars
<1>8. BooksOK(d)'
  <2>1. /\ driver[d] = "driving" /\ producer[d] = "observed" /\ channel[d] = 0
        /\ \A p \in Pages : task[d][p] = "none"
        /\ driver'[d] = IF TimedOut(d) THEN "recovering" ELSE "linking"
        /\ UNCHANGED <<tolerant, producer, rendered, channel, extracted, task, results>>
    BY <1>1 DEF BookTypes, LeaveLoop, producerVars
  <2>2. \A p \in Pages :
          /\ p \in extracted[d] <=> p >= next[d]
          /\ results[d][p] = IF p \in extracted[d] THEN 0 ELSE 1
          /\ results[d][p] = 1 => Accepted(d, p)
    BY <1>1, <2>1, Positions DEF BooksOK
  <2>3. CASE TimedOut(d)
    <3>1. PICK q \in Pages : rendered[d][q] = "timeout"
      BY <2>3 DEF TimedOut
    <3>2. d \in tolerant
      BY <1>1, <2>1, <2>2, <3>1 DEF RenderedOK, Accepted
    <3> QED BY <2>1, <2>2, <2>3, <3>2 DEF BooksOK, Accepted
  <2>4. CASE ~TimedOut(d)
    <3>1. next[d] = PageCount + 1
      BY <1>1, <2>1, <2>4 DEF RenderedOK
    <3>2. \A p \in Pages : p \notin extracted[d]
      BY <2>2, <3>1, Positions
    <3> QED BY <2>1, <2>2, <2>4, <3>2 DEF BooksOK, Accepted
  <2> QED BY <2>3, <2>4
<1>9. ASSUME NEW q \in Pages PROVE OwnersOK(d, q)'
  <2>1. holders'[d][q] = holders[d][q] /\ (Waits(d)' <=> Waits(d))
    BY DEF slotVars, Waits, LeaveLoop
  <2> QED BY <1>1, <2>1 DEF OwnersOK, LeaveLoop, producerVars
<1>10. d \in ToSet(line') => producer'[d] = "waiting"
  BY <1>1 DEF Waits, slotVars, LeaveLoop
<1> QED BY <1>3, <1>4, <1>5, <1>6, <1>7, <1>8, <1>9, <1>10, OneDocument

LEMMA RecoverKeeps ==
  ASSUME IInv, NEW d \in Documents, Recover(d)
  PROVE  IInv'
<1>1. /\ BookTypes /\ PlaceOK(d) /\ RenderedOK(d) /\ BooksOK(d)
      /\ \A q \in Pages : OwnersOK(d, q)
      /\ producer[d] # "waiting" => ~Waits(d)
  BY Before
<1>2. SlotsInOrder /\ \A e \in Documents : KeepsSlots(e) /\ ~Gains(e)
  BY SlotsRest DEF Recover
<1>3. SlotsInOrder /\ \A e \in Documents \ {d} : KeepsSlots(e)
  BY <1>2
<1>4. BookTypes'
  <2>1. CASE \E p \in extracted[d] : /\ extracted' = [extracted EXCEPT ![d] = @ \ {p}]
                                    /\ results' = [results EXCEPT ![d][p] = @ + 1]
                                    /\ UNCHANGED driver
    <3>1. PICK p \in extracted[d] : /\ extracted' = [extracted EXCEPT ![d] = @ \ {p}]
                                   /\ results' = [results EXCEPT ![d][p] = @ + 1]
                                   /\ UNCHANGED driver
      BY <2>1
    <3>2. p \in Pages /\ results[d][p] = 0
      BY <1>1 DEF BookTypes, BooksOK, Recover
    <3>3. results' \in [Documents -> [Pages -> 0..1]] /\ extracted' \in [Documents -> SUBSET Pages]
      BY <1>1, <3>1, <3>2 DEF BookTypes
    <3> QED BY <1>1, <3>1, <3>3 DEF BookTypes, Recover, producerVars
  <2>2. CASE UNCHANGED <<extracted, results>> /\ driver' \in {[driver EXCEPT ![d] = "failed"],
                                                                [driver EXCEPT ![d] = "linking"]}
    BY <1>1, <2>2 DEF BookTypes, Ended, Recover, producerVars
  <2> QED BY <2>1, <2>2 DEF Recover
<1>5. \A e \in Documents \ {d} : Rests(e)
  BY <1>1 DEF BookTypes, Rests, Recover, producerVars
<1>6. PlaceOK(d)'
  BY <1>1 DEF PlaceOK, Recover, producerVars
<1>7. RenderedOK(d)'
  BY <1>1 DEF RenderedOK, TimedOut, Recover, producerVars
<1>8. BooksOK(d)'
  BY <1>1 DEF BookTypes, BooksOK, Accepted, Recover, producerVars
<1>9. ASSUME NEW q \in Pages PROVE OwnersOK(d, q)'
  <2>1. holders'[d][q] = holders[d][q] /\ (Waits(d)' <=> Waits(d))
    BY DEF slotVars, Waits, Recover
  <2> QED BY <1>1, <2>1 DEF OwnersOK, Recover, producerVars
<1>10. d \in ToSet(line') => producer'[d] = "waiting"
  BY <1>1 DEF Waits, slotVars, Recover, BooksOK
<1> QED BY <1>3, <1>4, <1>5, <1>6, <1>7, <1>8, <1>9, <1>10, OneDocument

LEMMA FinishKeeps ==
  ASSUME IInv, NEW d \in Documents, Finish(d)
  PROVE  IInv'
<1>1. /\ BookTypes /\ PlaceOK(d) /\ RenderedOK(d) /\ BooksOK(d)
      /\ \A q \in Pages : OwnersOK(d, q)
      /\ producer[d] # "waiting" => ~Waits(d)
  BY Before
<1>2. SlotsInOrder /\ \A e \in Documents : KeepsSlots(e) /\ ~Gains(e)
  BY SlotsRest DEF Finish
<1>3. SlotsInOrder /\ \A e \in Documents \ {d} : KeepsSlots(e)
  BY <1>2
<1>4. BookTypes'
  BY <1>1 DEF BookTypes, Ended, Finish, producerVars
<1>5. \A e \in Documents \ {d} : Rests(e)
  BY DEF Rests, Finish, producerVars
<1>6. PlaceOK(d)'
  BY <1>1 DEF PlaceOK, Finish, producerVars
<1>7. RenderedOK(d)'
  BY <1>1 DEF RenderedOK, TimedOut, Finish, producerVars
<1>8. BooksOK(d)'
  BY <1>1 DEF BooksOK, Accepted, Finish, producerVars
<1>9. ASSUME NEW q \in Pages PROVE OwnersOK(d, q)'
  <2>1. holders'[d][q] = holders[d][q] /\ (Waits(d)' <=> Waits(d))
    BY DEF slotVars, Waits, Finish
  <2> QED BY <1>1, <2>1 DEF OwnersOK, Finish, producerVars
<1>10. d \in ToSet(line') => producer'[d] = "waiting"
  BY <1>1 DEF Waits, slotVars, Finish, producerVars
<1> QED BY <1>3, <1>4, <1>5, <1>6, <1>7, <1>8, <1>9, <1>10, OneDocument

\* A parse that is torn down gives up what only the producer, the delivery and tasks
\* that have ended held, and leaves the line.
LEMMA TornDown ==
  ASSUME IInv, NEW d \in Documents, NEW to, TearDown(d, to)
  PROVE  /\ SlotsInOrder
         /\ \A e \in Documents \ {d} : KeepsSlots(e)
         /\ d \notin ToSet(line')
         /\ \A q \in Pages : holders'[d][q] = holders[d][q] \cap
              (CASE task[d][q] = "aborting" -> Owners
                 [] task[d][q] = "running" -> {"worker", "background", "task"}
                 [] OTHER -> {"worker", "background"})
<1>. DEFINE left(p) == IF task[d][p] = "running" THEN {"worker", "background", "task"}
                       ELSE {"worker", "background"}
            h == [holders EXCEPT ![d] = [p \in Pages |-> @[p] \cap
                    (IF task[d][p] = "aborting" THEN Owners ELSE left(p))]]
            l == Without(line, {d})
<1>1. holders \in [Documents -> [Pages -> SUBSET Owners]]
  BY DEF IInv, TypeOK
<1>2. h \in [Documents -> [Pages -> SUBSET Owners]]
  BY <1>1
<1>3. /\ \A e \in Documents \ {d} : h[e] = holders[e]
      /\ \A q \in Pages : h[d][q] = holders[d][q] \cap
           (IF task[d][q] = "aborting" THEN Owners ELSE left(q))
  BY <1>1
<1>4. \A e \in Documents, q \in Pages : h[e][q] # {} => holders[e][q] # {}
  OBVIOUS
<1>5. Reassign(h, l)
  BY DEF TearDown
<1>6. l \in Seq(Documents) /\ IsInjective(l) /\ ToSet(l) = ToSet(line) \ {d}
  BY LeftLine DEF IInv, LineOK
<1>. HIDE DEF h, l
<1>7. /\ SlotsInOrder /\ ToSet(line') \subseteq ToSet(l)
      /\ \A e \in Documents : Handed(h, l, e)
  BY <1>2, <1>4, <1>5, <1>6, Fewer DEF SlotsInOrder
<1>8. \A e \in Documents \ {d} : KeepsSlots(e)
  BY <1>3, <1>6, <1>7 DEF Handed, Woken, KeepsSlots, Gains, Waits
<1>9. holders'[d] = h[d]
  BY <1>6, <1>7 DEF Handed, Woken
<1>10. ASSUME NEW q \in Pages
       PROVE  holders'[d][q] = holders[d][q] \cap
                (CASE task[d][q] = "aborting" -> Owners
                   [] task[d][q] = "running" -> {"worker", "background", "task"}
                   [] OTHER -> {"worker", "background"})
  BY <1>3, <1>9
<1> QED BY <1>6, <1>7, <1>8, <1>10

LEMMA TearDownKeeps ==
  ASSUME IInv, NEW d \in Documents, NEW to \in {"aborting", "cancelled"}, TearDown(d, to)
  PROVE  IInv'
<1>1. /\ BookTypes /\ PlaceOK(d) /\ RenderedOK(d) /\ BooksOK(d)
      /\ \A p \in Pages : OwnersOK(d, p)
      /\ producer[d] # "waiting" => ~Waits(d)
  BY Before
<1>2. /\ SlotsInOrder
      /\ \A e \in Documents \ {d} : KeepsSlots(e)
      /\ d \notin ToSet(line')
      /\ \A q \in Pages : holders'[d][q] = holders[d][q] \cap
           (CASE task[d][q] = "aborting" -> Owners
              [] task[d][q] = "running" -> {"worker", "background", "task"}
              [] OTHER -> {"worker", "background"})
  BY TornDown
<1>3. /\ driver' = [driver EXCEPT ![d] = to] /\ producer' = [producer EXCEPT ![d] = "dropped"]
      /\ channel' = [channel EXCEPT ![d] = 0]
      /\ task' = [task EXCEPT ![d] =
           [p \in Pages |-> IF @[p] \in {"running", "aborting"} THEN "aborting" ELSE "none"]]
      /\ UNCHANGED <<tolerant, next, rendered, worker, extracted, results>>
  BY DEF TearDown
<1>4. BookTypes'
  BY <1>1, <1>3, PipelineAssumption DEF BookTypes, Ended
<1>5. \A e \in Documents \ {d} : Rests(e)
  BY <1>3 DEF Rests
<1>6. PlaceOK(d)' /\ RenderedOK(d)' /\ BooksOK(d)'
  BY <1>1, <1>3 DEF BookTypes, PlaceOK, RenderedOK, BooksOK
<1>7. ASSUME NEW q \in Pages PROVE OwnersOK(d, q)'
  BY <1>1, <1>2, <1>3, Positions DEF BookTypes, OwnersOK, Owners
<1> QED BY <1>2, <1>4, <1>5, <1>6, <1>7, OneDocument

-----------------------------------------------------------------------------
(* The theorems. *)

LEMMA InitHolds == Init => IInv
<1>. SUFFICES ASSUME Init PROVE IInv
  OBVIOUS
<1>1. ToSet(line) = {} /\ line \in Seq(Documents) /\ IsInjective(line)
  <2>1. line = <<>> /\ line \in Seq(Documents)
    BY DEF Init
  <2>2. ToSet(line) = {} /\ DOMAIN line = {}
    <3>1. /\ Len(line) \in Nat /\ DOMAIN line = 1..Len(line)
          /\ line = <<>> <=> ToSet(line) = {}
          /\ line = <<>> <=> Len(line) = 0
      BY <2>1, LineElements
    <3>2. Len(line) = 0 /\ ToSet(line) = {}
      BY <2>1, <3>1
    <3> QED BY <3>2
  <2> QED BY <2>2 DEF IsInjective
<1>2. SlotsOK
  <2>1. Occupied(holders) = {}
    BY DEF Init, Occupied
  <2>2. IsFiniteSet(Occupied(holders)) /\ Cardinality(Occupied(holders)) = 0
    BY <2>1, FS_EmptySet
  <2>3. Slots \in Nat /\ line = <<>>
    BY PipelineAssumption DEF Init
  <2> QED BY <2>2, <2>3 DEF SlotsOK
<1>3. TypeOK
  BY <1>1, PipelineAssumption DEF Init, TypeOK
<1>4. ASSUME NEW d \in Documents PROVE DocumentOK(d)
  BY <1>1, PipelineAssumption
    DEF Init, DocumentOK, PlaceOK, RenderedOK, BooksOK, OwnersOK, Pages, Waits
<1> QED BY <1>1, <1>2, <1>3, <1>4 DEF IInv, LineOK

LEMMA StutterKeeps ==
  ASSUME IInv, UNCHANGED vars
  PROVE  IInv'
<1>1. UNCHANGED <<tolerant, driver, producer, next, rendered, worker, channel, extracted, task,
                  results, holders, line>>
  BY DEF vars, slotVars, producerVars, driverVars
<1> QED BY <1>1 DEF IInv, TypeOK, LineOK, SlotsOK, Occupied, DocumentOK, PlaceOK, RenderedOK,
                    BooksOK, Accepted, OwnersOK, Waits, TimedOut

LEMMA StepKeeps == IInv /\ [Next]_vars => IInv'
<1>. SUFFICES ASSUME IInv, [Next]_vars PROVE IInv'
  OBVIOUS
<1>1. CASE UNCHANGED vars
  BY <1>1, StutterKeeps
<1>2. CASE Next
  <2>1. PICK d \in Documents :
          \/ ProducerStep(d) \/ DriverStep(d) \/ Receive(d) \/ WorkerReturns(d) \/ Cancel(d)
          \/ \E p \in Pages : TaskStep(d, p) \/ Collect(d, p)
    BY <1>2 DEF Next
  <2>2. CASE ProducerStep(d)
    BY <2>2, ReserveKeeps, QueueKeeps, GrantedKeeps, RenderEndsKeeps, RenderTimesOutKeeps,
       DeliverKeeps, CloseSessionKeeps DEF ProducerStep
  <2>3. CASE DriverStep(d)
    BY <2>3, ScanDocumentKeeps, ObserveCloseKeeps, TearDownKeeps, DrainedKeeps, LeaveLoopKeeps,
       RecoverKeeps, FinishKeeps DEF DriverStep, Abort
  <2>4. CASE Receive(d) \/ WorkerReturns(d) \/ Cancel(d)
    BY <2>4, ReceiveKeeps, WorkerReturnsKeeps, TearDownKeeps DEF Cancel
  <2>5. ASSUME NEW p \in Pages, TaskStep(d, p) \/ Collect(d, p) PROVE IInv'
    BY <2>5, TaskEndsKeeps, TaskAbortedKeeps, BackgroundEndsKeeps, CollectKeeps DEF TaskStep
  <2> QED BY <2>1, <2>2, <2>3, <2>4, <2>5
<1> QED BY <1>1, <1>2

\* Whatever the documents, their pages and the slots: IInv is an invariant.
THEOREM PipelineInvariant == Spec => []IInv
  BY InitHolds, StepKeeps, PTL DEF Spec

\* No more pages have pixels than the render queue has slots, and no producer waits for a
\* slot that is free: whoever has pixels is among the owners of the page's slot.
THEOREM PixelsAreBounded == Spec => []PixelsHaveSlots
<1>1. IInv => PixelsHaveSlots
  <2>. SUFFICES ASSUME IInv PROVE PixelsHaveSlots
    OBVIOUS
  <2>1. ASSUME NEW d \in Documents, NEW p \in Pages, <<d, p>> \in Pixels
        PROVE  <<d, p>> \in Occupied(holders)
    <3>1. OwnersOK(d, p)
      BY DEF IInv, DocumentOK
    <3>2. holders[d][p] # {}
      BY <2>1, <3>1 DEF Pixels, OwnersOK
    <3> QED BY <3>2, OccupiedFacts
  <2>2. Pixels \subseteq Occupied(holders)
    BY <2>1 DEF Pixels
  <2>3. /\ IsFiniteSet(Occupied(holders)) /\ Cardinality(Occupied(holders)) <= Slots
        /\ line # <<>> => Cardinality(Occupied(holders)) = Slots /\ TypeOK
        /\ TypeOK /\ Slots \in Int
    BY PipelineAssumption DEF IInv, SlotsOK
  <2>4. /\ IsFiniteSet(Pixels) /\ Cardinality(Pixels) <= Cardinality(Occupied(holders))
        /\ Cardinality(Pixels) \in Int /\ Cardinality(Occupied(holders)) \in Int
    BY <2>2, <2>3, FS_Subset, FS_CardinalityType
  <2> QED BY <2>3, <2>4 DEF PixelsHaveSlots
<1> QED BY <1>1, PipelineInvariant, PTL

\* A document that is linked has exactly one result for every page, and a strict parse
\* none that fell back to its native text.
THEOREM PagesAreCountedOnce == Spec => []EveryPageOnce
<1>1. IInv => EveryPageOnce
  BY DEF IInv, DocumentOK, BooksOK, Accepted, EveryPageOnce
<1> QED BY <1>1, PipelineInvariant, PTL

-----------------------------------------------------------------------------
(* The stages of page tasks. *)

Active(r) == phase[r] \notin {"idle", "done"}

\* The owners of a crop's unit of the budget, and where a region that is worked on is.
RegionOK(r) ==
  /\ "cpu" \in lease[r] <=> r \in cpu
  /\ "model" \in lease[r] <=> r \in model
  /\ "caller" \in lease[r] <=> phase[r] \in {"cropping", "inferring", "finishing"}
  /\ phase[r] = "probing" => KindOf(r) = "table"
  /\ phase[r] \in {"cropping", "finishing"} => r \in cpu
  /\ phase[r] = "inferring" => r \in model
  /\ r \in cpu => phase[r] \in {"cropping", "finishing", "done"}
  /\ r \in model => phase[r] \in {"inferring", "done"}
  /\ Active(r) => stage[PageOf(r)] = KindOf(r) /\ r \in Todo(PageOf(r), KindOf(r))

\* A region is answered once, when it is done; whoever has a good answer holds nothing.
AnswerOK(r) ==
  /\ phase[r] # "done" => answer[r] = "none"
  /\ answer[r] = "kept" <=> r \in warned
  /\ answer[r] \notin {"none", "kept"} => lease[r] = {}
  /\ phase[r] = "done" /\ KindOf(r) \notin Recognizing /\ stage[PageOf(r)] # "failed" =>
       answer[r] # "none"

\* A page leaves a stage when the regions of the stage are done.
TasksDone(p, k) == \A r \in Todo(p, k) : phase[r] = "done"
PageOK(p) ==
  /\ stage[p] \in {"formula", "done"} => TasksDone(p, "table")
  /\ stage[p] = "done" => TasksDone(p, "formula")

BudgetOK(k) == IsFiniteSet(Admitted(k)) /\ Cardinality(Admitted(k)) <= Capacity[k]

\* The parts of StagesTypeOK: the queues, and everything else.
QueuesOK ==
  /\ queue \in [Kinds -> Seq(Regions)]
  /\ \A k \in Kinds :
       /\ ToSet(queue[k]) = {r \in Regions : KindOf(r) = k /\ phase[r] = "queued"}
       /\ IsInjective(queue[k])
StatesOK ==
  /\ stage \in [PageTasks -> {"layout"} \cup Kinds \cup Over] /\ plain \subseteq PageTasks
  /\ text \in [PageTasks -> {"native", "recognized", "failed"}]
  /\ phase \in [Regions -> {"idle", "probing", "queued", "cropping", "inferring",
                            "finishing", "done"}]
  /\ answer \in [Regions -> {"none", "model", "rules", "kept"}]
  /\ warned \subseteq Regions /\ cpu \subseteq Regions /\ model \subseteq Regions
  /\ lease \in [Regions -> SUBSET {"caller", "cpu", "model"}]

StagesInv ==
  /\ StatesOK /\ QueuesOK
  /\ \A r \in Regions : RegionOK(r) /\ AnswerOK(r)
  /\ \A p \in PageTasks : PageOK(p)
  /\ \A k \in Kinds : BudgetOK(k)

LEMMA Parts == \A r \in Regions : PageOf(r) \in PageTasks /\ KindOf(r) \in Kinds
  BY StagesAssumption DEF PageOf, KindOf

-----------------------------------------------------------------------------
(* The queues and the budgets. *)

LEMMA QueuesStay ==
  ASSUME QueuesOK, queue' = queue, \A r \in Regions : phase'[r] = "queued" <=> phase[r] = "queued"
  PROVE  QueuesOK'
  BY DEF QueuesOK

LEMMA QueuesLeft ==
  ASSUME QueuesOK, NEW S, queue' = [k \in Kinds |-> Without(queue[k], S)],
         \A r \in Regions : phase'[r] = "queued" <=> phase[r] = "queued" /\ r \notin S
  PROVE  QueuesOK'
<1>1. ASSUME NEW k \in Kinds
      PROVE  /\ queue'[k] \in Seq(Regions) /\ IsInjective(queue'[k])
             /\ ToSet(queue'[k]) = ToSet(queue[k]) \ S
  BY LeftLine DEF QueuesOK
<1>2. queue' \in [Kinds -> Seq(Regions)]
  BY <1>1
<1> QED BY <1>1 DEF QueuesOK

LEMMA QueuesJoined ==
  ASSUME QueuesOK, NEW k \in Kinds, NEW r \in Regions, KindOf(r) = k, phase[r] # "queued",
         queue' = [queue EXCEPT ![k] = Append(@, r)],
         \A s \in Regions : phase'[s] = "queued" <=> phase[s] = "queued" \/ s = r
  PROVE  QueuesOK'
<1>1. queue[k] \in Seq(Regions) /\ IsInjective(queue[k]) /\ r \notin ToSet(queue[k])
  BY DEF QueuesOK
<1>2. /\ Append(queue[k], r) \in Seq(Regions) /\ IsInjective(Append(queue[k], r))
      /\ ToSet(Append(queue[k], r)) = ToSet(queue[k]) \cup {r}
  BY <1>1, Joined
<1>3. /\ queue' \in [Kinds -> Seq(Regions)] /\ queue'[k] = Append(queue[k], r)
      /\ \A j \in Kinds : j # k => queue'[j] = queue[j]
  BY DEF QueuesOK
<1>4. ASSUME NEW j \in Kinds
      PROVE  /\ ToSet(queue'[j]) = {s \in Regions : KindOf(s) = j /\ phase'[s] = "queued"}
             /\ IsInjective(queue'[j])
  BY <1>2 DEF QueuesOK
<1> QED BY <1>4 DEF QueuesOK

LEMMA QueuesServed ==
  ASSUME QueuesOK, NEW k \in Kinds, NEW r \in Regions, KindOf(r) = k, phase[r] = "queued",
         Head(queue[k]) = r, queue' = [queue EXCEPT ![k] = Tail(@)],
         \A s \in Regions : phase'[s] = "queued" <=> phase[s] = "queued" /\ s # r
  PROVE  QueuesOK'
<1>1. PICK before \in Seq(Regions) : before = queue[k] /\ IsInjective(before) /\ r \in ToSet(before)
  BY DEF QueuesOK
<1>2. Len(before) \in Nat /\ before # <<>> /\ Len(before) # 0
  BY <1>1, LineElements
<1>3. PICK n \in 0..Len(before) : n = 1
  BY <1>2
<1>4. before \in Seq(Regions) /\ IsInjective(before)
  BY <1>1
<1>5. LET rest == SubSeq(before, n + 1, Len(before))
          first == {before[j] : j \in 1..n} IN
      /\ rest \in Seq(Regions) /\ IsInjective(rest)
      /\ ToSet(rest) = ToSet(before) \ first
      /\ first \subseteq ToSet(before) /\ IsFiniteSet(first) /\ Cardinality(first) = n
      /\ rest = <<>> <=> n = Len(before)
  BY <1>4, Served
<1>6. n + 1 = 2 /\ {before[j] : j \in 1..n} = {before[1]}
  BY <1>3
<1>7. Tail(before) = SubSeq(before, 2, Len(before)) /\ before[1] = r
  BY <1>1
<1>8. /\ Tail(queue[k]) \in Seq(Regions) /\ IsInjective(Tail(queue[k]))
      /\ ToSet(Tail(queue[k])) = ToSet(queue[k]) \ {r}
  BY <1>1, <1>5, <1>6, <1>7
<1>9. /\ queue' \in [Kinds -> Seq(Regions)] /\ queue'[k] = Tail(queue[k])
      /\ \A j \in Kinds : j # k => queue'[j] = queue[j]
  BY <1>8 DEF QueuesOK
<1>10. ASSUME NEW j \in Kinds
      PROVE  /\ ToSet(queue'[j]) = {s \in Regions : KindOf(s) = j /\ phase'[s] = "queued"}
             /\ IsInjective(queue'[j])
  BY <1>8 DEF QueuesOK
<1> QED BY <1>9, <1>10 DEF QueuesOK

\* Nobody is admitted: the budgets keep what they have.
LEMMA BudgetsFall ==
  ASSUME \A k \in Kinds : BudgetOK(k), \A r \in Regions : lease[r] = {} => lease'[r] = {}
  PROVE  \A k \in Kinds : BudgetOK(k)'
<1> SUFFICES ASSUME NEW k \in Kinds PROVE BudgetOK(k)'
  OBVIOUS
<1>1. Admitted(k)' \subseteq Admitted(k)
  BY DEF Admitted
<1> DEFINE A == Admitted(k)
           B == Admitted(k)'
<1>2. IsFiniteSet(A) /\ Cardinality(A) <= Capacity[k] /\ Capacity[k] \in Nat
  BY StagesAssumption DEF BudgetOK
<1>3. BudgetOK(k)' <=> IsFiniteSet(B) /\ Cardinality(B) <= Capacity[k]
  BY DEF BudgetOK
<1>4. B \subseteq A
  BY <1>1
<1> HIDE DEF A, B
<1>5. IsFiniteSet(B) /\ Cardinality(B) <= Cardinality(A)
  BY <1>2, <1>4, FS_Subset
<1>6. Cardinality(B) \in Nat /\ Cardinality(A) \in Nat
  BY <1>2, <1>5, FS_CardinalityType
<1> QED BY <1>2, <1>3, <1>5, <1>6

-----------------------------------------------------------------------------
(* The steps. *)

LEMMA LayoutKeepsStages ==
  ASSUME StagesInv, NEW p \in PageTasks, Layout(p)
  PROVE  StagesInv'
<1>1. StatesOK'
  BY DEF StagesInv, StatesOK, Kinds, Over, Layout, cropVars
<1>2. QueuesOK'
  BY QueuesStay DEF StagesInv, Layout, cropVars
<1>3. \A s \in Regions : RegionOK(s)'
  BY Parts DEF StagesInv, Kinds, RegionOK, Active, Todo, Layout, cropVars
<1>4. \A s \in Regions : AnswerOK(s)'
  BY DEF StagesInv, AnswerOK, Layout, cropVars
<1>5. \A q \in PageTasks : PageOK(q)'
  BY DEF StagesInv, PageOK, Todo, TasksDone, Layout, cropVars
<1>6. \A k \in Kinds : BudgetOK(k)'
  BY BudgetsFall DEF StagesInv, Layout, cropVars
<1> QED BY <1>1, <1>2, <1>3, <1>4, <1>5, <1>6 DEF StagesInv

LEMMA NextStageKeepsStages ==
  ASSUME StagesInv, NEW p \in PageTasks, NextStage(p)
  PROVE  StagesInv'
<1>1. StatesOK'
  BY DEF StagesInv, StatesOK, Kinds, Over, NextStage, cropVars
<1>2. QueuesOK'
  BY QueuesStay DEF StagesInv, NextStage, cropVars
<1>3. \A s \in Regions : RegionOK(s)'
  BY DEF StagesInv, RegionOK, Active, Todo, NextStage, cropVars
<1>4. \A s \in Regions : AnswerOK(s)'
  BY DEF StagesInv, Kinds, AnswerOK, NextStage, cropVars
<1>5. \A q \in PageTasks : PageOK(q)'
  BY DEF StagesInv, Kinds, PageOK, Todo, TasksDone, NextStage, cropVars
<1>6. \A k \in Kinds : BudgetOK(k)'
  BY BudgetsFall DEF StagesInv, NextStage, cropVars
<1> QED BY <1>1, <1>2, <1>3, <1>4, <1>5, <1>6 DEF StagesInv

LEMMA TextDeadlineKeepsStages ==
  ASSUME StagesInv, NEW p \in PageTasks, TextDeadline(p)
  PROVE  StagesInv'
<1>1. StatesOK'
  BY DEF StagesInv, StatesOK, Kinds, TextDeadline, FailText, Drop, LetGo
<1>2. QueuesOK'
  BY QueuesLeft DEF StagesInv, Kinds, TextDeadline, FailText, Drop, LetGo
<1>3. \A s \in Regions : RegionOK(s)'
  BY DEF StagesInv, RegionOK, Active, Todo, TextDeadline, FailText, Drop, LetGo
<1>4. \A s \in Regions : AnswerOK(s)'
  BY DEF StagesInv, Recognizing, AnswerOK, TextDeadline, FailText, Drop, LetGo
<1>5. \A q \in PageTasks : PageOK(q)'
  BY DEF StagesInv, PageOK, Todo, TasksDone, TextDeadline, FailText, Drop
<1>6. \A k \in Kinds : BudgetOK(k)'
  BY BudgetsFall DEF StagesInv, TextDeadline, LetGo
<1> QED BY <1>1, <1>2, <1>3, <1>4, <1>5, <1>6 DEF StagesInv

LEMMA AbortPageKeepsStages ==
  ASSUME StagesInv, NEW p \in PageTasks, AbortPage(p)
  PROVE  StagesInv'
<1>1. StatesOK'
  BY DEF StagesInv, StatesOK, Over, AbortPage, FailPage, Drop, LetGo
<1>2. QueuesOK'
  BY QueuesLeft DEF StagesInv, Kinds, AbortPage, FailPage, Drop, LetGo
<1>3. \A s \in Regions : RegionOK(s)'
  BY DEF StagesInv, RegionOK, Active, Todo, AbortPage, FailPage, Drop, LetGo
<1>4. \A s \in Regions : AnswerOK(s)'
  BY DEF StagesInv, StatesOK, AnswerOK, AbortPage, FailPage, Drop, LetGo
<1>5. \A q \in PageTasks : PageOK(q)'
  BY DEF StagesInv, PageOK, Todo, TasksDone, AbortPage, FailPage, Drop
<1>6. \A k \in Kinds : BudgetOK(k)'
  BY BudgetsFall DEF StagesInv, AbortPage, LetGo
<1> QED BY <1>1, <1>2, <1>3, <1>4, <1>5, <1>6 DEF StagesInv

LEMMA BeginKeepsStages ==
  ASSUME StagesInv, NEW r \in Regions, Begin(r)
  PROVE  StagesInv'
<1>1. StatesOK'
  BY DEF StagesInv, StatesOK, Begin, pageVars
<1>2. QueuesOK'
  <2> DEFINE k == KindOf(r)
  <2>1. StatesOK /\ QueuesOK /\ k \in Kinds /\ phase[r] = "idle"
    BY Parts DEF StagesInv, Begin
  <2>2. CASE k = "table"
    BY <2>1, <2>2, QueuesStay DEF Begin
  <2>3. CASE k # "table"
    BY <2>1, <2>3, QueuesJoined DEF StatesOK, Begin
  <2> QED BY <2>2, <2>3
<1>3. \A s \in Regions : RegionOK(s)'
  BY DEF StagesInv, RegionOK, Active, Todo, Begin, pageVars
<1>4. \A s \in Regions : AnswerOK(s)'
  BY DEF StagesInv, AnswerOK, Begin, pageVars
<1>5. \A q \in PageTasks : PageOK(q)'
  BY DEF StagesInv, PageOK, Todo, TasksDone, Begin, pageVars
<1>6. \A k \in Kinds : BudgetOK(k)'
  BY BudgetsFall DEF StagesInv, Begin
<1> QED BY <1>1, <1>2, <1>3, <1>4, <1>5, <1>6 DEF StagesInv

LEMMA ProbeKeepsStages ==
  ASSUME StagesInv, NEW r \in Regions, Probe(r)
  PROVE  StagesInv'
<1>1. StatesOK'
  BY DEF StagesInv, StatesOK, Over, Probe, Settle, FailPage, Drop, LetGo, pageVars
<1>2. QueuesOK'
  <2>1. StatesOK /\ QueuesOK /\ KindOf(r) = "table" /\ "table" \in Kinds /\ phase[r] = "probing"
    BY DEF StagesInv, RegionOK, Probe, Kinds
  <2>2. CASE Settle(r, "rules") /\ UNCHANGED queue
    BY <2>1, <2>2, QueuesStay DEF Settle
  <2>3. CASE /\ phase' = [phase EXCEPT ![r] = "queued"]
             /\ queue' = [queue EXCEPT !["table"] = Append(@, r)]
    BY <2>1, <2>3, QueuesJoined DEF StatesOK
  <2>4. CASE FailPage(PageOf(r)) /\ LetGo({s \in Regions : PageOf(s) = PageOf(r)})
    BY <2>1, <2>4, QueuesLeft DEF StatesOK, FailPage, Drop, LetGo
  <2> QED BY <2>2, <2>3, <2>4 DEF Probe
<1>3. \A s \in Regions : RegionOK(s)'
  BY Parts
     DEF StagesInv, StatesOK, RegionOK, Active, Todo, Probe, Settle, FailPage, Drop, LetGo,
         pageVars
<1>4. \A s \in Regions : AnswerOK(s)'
  BY Parts
     DEF StagesInv, StatesOK, RegionOK, AnswerOK, Probe, Settle, FailPage, Drop, LetGo, pageVars
<1>5. \A q \in PageTasks : PageOK(q)'
  BY DEF StagesInv, StatesOK, PageOK, Todo, TasksDone, Probe, Settle, FailPage, Drop, pageVars
<1>6. \A k \in Kinds : BudgetOK(k)'
  BY BudgetsFall DEF StagesInv, Probe, LetGo
<1> QED BY <1>1, <1>2, <1>3, <1>4, <1>5, <1>6 DEF StagesInv

LEMMA AdmitKeepsStages ==
  ASSUME StagesInv, NEW r \in Regions, Admit(r)
  PROVE  StagesInv'
<1>1. StatesOK'
  BY DEF StagesInv, StatesOK, Admit, pageVars
<1>2. QueuesOK'
  <2>1. StatesOK /\ QueuesOK /\ KindOf(r) \in Kinds
    BY Parts DEF StagesInv
  <2> QED BY <2>1, QueuesServed DEF StatesOK, Admit
<1>3. \A s \in Regions : RegionOK(s)'
  BY DEF StagesInv, StatesOK, RegionOK, Active, Todo, Admit, pageVars
<1>4. \A s \in Regions : AnswerOK(s)'
  BY DEF StagesInv, AnswerOK, Admit, pageVars
<1>5. \A q \in PageTasks : PageOK(q)'
  BY DEF StagesInv, PageOK, Todo, TasksDone, Admit, pageVars
<1>6. \A k \in Kinds : BudgetOK(k)'
  <2> SUFFICES ASSUME NEW k \in Kinds PROVE BudgetOK(k)'
    OBVIOUS
  <2>1. /\ \A s \in Regions : s # r => lease'[s] = lease[s]
        /\ lease'[r] = {"caller", "cpu"}
    BY DEF StagesInv, StatesOK, Admit
  <2> DEFINE A == Admitted(k)
             B == Admitted(k)'
  <2>2. IsFiniteSet(A) /\ Cardinality(A) <= Capacity[k] /\ Capacity[k] \in Nat
    BY StagesAssumption DEF StagesInv, BudgetOK
  <2>3. BudgetOK(k)' <=> IsFiniteSet(B) /\ Cardinality(B) <= Capacity[k]
    BY DEF BudgetOK
  <2>4. CASE KindOf(r) # k
    <3>1. B = A
      BY <2>1, <2>4 DEF Admitted
    <3> QED BY <2>2, <2>3, <3>1
  <2>5. CASE KindOf(r) = k
    <3>1. B = A \cup {r} /\ Cardinality(A) < Capacity[k]
      BY <2>1, <2>5 DEF Admitted, Admit
    <3> HIDE DEF A, B
    <3>2. /\ IsFiniteSet(B) /\ Cardinality(A) \in Nat
          /\ Cardinality(B) = Cardinality(A) \/ Cardinality(B) = Cardinality(A) + 1
      BY <2>2, <3>1, FS_AddElement, FS_CardinalityType
    <3> QED BY <2>2, <2>3, <3>1, <3>2
  <2> QED BY <2>4, <2>5
<1> QED BY <1>1, <1>2, <1>3, <1>4, <1>5, <1>6 DEF StagesInv

LEMMA CropUnwantedKeepsStages ==
  ASSUME StagesInv, NEW r \in Regions, CropUnwanted(r)
  PROVE  StagesInv'
<1>1. StatesOK'
  BY DEF StagesInv, StatesOK, CropUnwanted, pageVars
<1>2. QueuesOK'
  BY QueuesStay DEF StagesInv, CropUnwanted
<1>3. \A s \in Regions : RegionOK(s)'
  BY DEF StagesInv, StatesOK, RegionOK, Active, Todo, CropUnwanted, pageVars
<1>4. \A s \in Regions : AnswerOK(s)'
  BY DEF StagesInv, AnswerOK, CropUnwanted, pageVars
<1>5. \A q \in PageTasks : PageOK(q)'
  BY DEF StagesInv, PageOK, Todo, TasksDone, CropUnwanted, pageVars
<1>6. \A k \in Kinds : BudgetOK(k)'
  BY BudgetsFall DEF StagesInv, CropUnwanted
<1> QED BY <1>1, <1>2, <1>3, <1>4, <1>5, <1>6 DEF StagesInv

LEMMA CropReadyKeepsStages ==
  ASSUME StagesInv, NEW r \in Regions, CropReady(r)
  PROVE  StagesInv'
<1>1. StatesOK'
  BY DEF StagesInv, StatesOK, CropReady, pageVars
<1>2. QueuesOK'
  BY QueuesStay DEF StagesInv, CropReady
<1>3. \A s \in Regions : RegionOK(s)'
  BY DEF StagesInv, StatesOK, RegionOK, Active, Todo, CropReady, pageVars
<1>4. \A s \in Regions : AnswerOK(s)'
  BY DEF StagesInv, AnswerOK, CropReady, pageVars
<1>5. \A q \in PageTasks : PageOK(q)'
  BY DEF StagesInv, PageOK, Todo, TasksDone, CropReady, pageVars
<1>6. \A k \in Kinds : BudgetOK(k)'
  BY BudgetsFall DEF StagesInv, RegionOK, CropReady
<1> QED BY <1>1, <1>2, <1>3, <1>4, <1>5, <1>6 DEF StagesInv

LEMMA CpuFailsKeepsStages ==
  ASSUME StagesInv, NEW r \in Regions, CpuFails(r)
  PROVE  StagesInv'
<1>1. StatesOK'
  BY DEF StagesInv, StatesOK, Kinds, Over, CpuFails, Settle, Fail, FailText, FailPage, Drop,
         pageVars
<1>2. QueuesOK'
  <2>1. StatesOK /\ QueuesOK
    BY DEF StagesInv
  <2>2. CASE /\ FailPage(PageOf(r))
             /\ queue' = [k \in Kinds |-> Without(queue[k], {s \in Regions : PageOf(s) = PageOf(r)})]
    BY <2>1, <2>2, QueuesLeft DEF StatesOK, FailPage, Drop
  <2>3. CASE Fail(r) /\ queue' = [k \in Kinds |-> Without(queue[k], Peers(r))]
    <3>1. \A s \in Regions : phase'[s] = "queued" <=> phase[s] = "queued" /\ s \notin Peers(r)
      BY <2>1, <2>3 DEF StatesOK, Fail, FailText, Settle, Drop, Peers
    <3> QED BY <2>1, <2>3, <3>1, QueuesLeft
  <2> QED BY <2>2, <2>3 DEF CpuFails
<1>3. \A s \in Regions : RegionOK(s)'
  BY Parts
     DEF StagesInv, StatesOK, RegionOK, Active, Todo, CpuFails, Settle, Fail, Peers, FailText,
         FailPage, Drop, pageVars
<1>4. \A s \in Regions : AnswerOK(s)'
  BY Parts
     DEF StagesInv, StatesOK, Recognizing, RegionOK, AnswerOK, Active, CpuFails, Settle, Fail,
         FailText, FailPage, Drop, pageVars
<1>5. \A q \in PageTasks : PageOK(q)'
  BY DEF StagesInv, StatesOK, PageOK, Todo, TasksDone, CpuFails, Settle, Fail, FailText, FailPage,
         Drop, pageVars
<1>6. \A k \in Kinds : BudgetOK(k)'
  BY BudgetsFall DEF StagesInv, CpuFails
<1> QED BY <1>1, <1>2, <1>3, <1>4, <1>5, <1>6 DEF StagesInv

LEMMA DeadlineKeepsStages ==
  ASSUME StagesInv, NEW r \in Regions, Deadline(r)
  PROVE  StagesInv'
<1>1. StatesOK'
  BY DEF StagesInv, StatesOK, Deadline, Settle, LetGo, pageVars
<1>2. QueuesOK'
  BY QueuesLeft DEF StagesInv, StatesOK, Deadline, Settle, LetGo
<1>3. \A s \in Regions : RegionOK(s)'
  BY DEF StagesInv, StatesOK, RegionOK, Active, Todo, Deadline, Settle, LetGo, pageVars
<1>4. \A s \in Regions : AnswerOK(s)'
  BY DEF StagesInv, StatesOK, AnswerOK, Deadline, Settle, LetGo, pageVars
<1>5. \A q \in PageTasks : PageOK(q)'
  BY DEF StagesInv, PageOK, Todo, TasksDone, Deadline, Settle, pageVars
<1>6. \A k \in Kinds : BudgetOK(k)'
  BY BudgetsFall DEF StagesInv, Deadline, LetGo
<1> QED BY <1>1, <1>2, <1>3, <1>4, <1>5, <1>6 DEF StagesInv

LEMMA AnswerKeepsStages ==
  ASSUME StagesInv, NEW r \in Regions, Answer(r)
  PROVE  StagesInv'
<1>1. StatesOK'
  BY DEF StagesInv, StatesOK, Kinds, Answer, Settle, Fail, FailText, Drop, pageVars
<1>2. QueuesOK'
  BY QueuesStay, QueuesLeft
     DEF StagesInv, StatesOK, Kinds, Answer, Settle, Fail, Peers, FailText, Drop
<1>3. \A s \in Regions : RegionOK(s)'
  BY Parts
     DEF StagesInv, StatesOK, RegionOK, Active, Todo, Answer, Settle, Fail, Peers, FailText, Drop,
         pageVars
<1>4. \A s \in Regions : AnswerOK(s)'
  BY Parts
     DEF StagesInv, StatesOK, Recognizing, RegionOK, AnswerOK, Active, Answer, Settle, Fail,
         FailText, Drop, pageVars
<1>5. \A q \in PageTasks : PageOK(q)'
  BY DEF StagesInv, StatesOK, PageOK, Todo, TasksDone, Answer, Settle, Fail, FailText, Drop,
         pageVars
<1>6. \A k \in Kinds : BudgetOK(k)'
  BY BudgetsFall DEF StagesInv, StatesOK, RegionOK, Answer
<1> QED BY <1>1, <1>2, <1>3, <1>4, <1>5, <1>6 DEF StagesInv

LEMMA FinishCropKeepsStages ==
  ASSUME StagesInv, NEW r \in Regions, FinishCrop(r)
  PROVE  StagesInv'
<1>1. StatesOK'
  BY DEF StagesInv, StatesOK, FinishCrop, Settle, pageVars
<1>2. QueuesOK'
  BY QueuesStay DEF StagesInv, FinishCrop, Settle
<1>3. \A s \in Regions : RegionOK(s)'
  BY DEF StagesInv, StatesOK, RegionOK, Active, Todo, FinishCrop, Settle, pageVars
<1>4. \A s \in Regions : AnswerOK(s)'
  BY DEF StagesInv, StatesOK, AnswerOK, FinishCrop, Settle, pageVars
<1>5. \A q \in PageTasks : PageOK(q)'
  BY DEF StagesInv, PageOK, Todo, TasksDone, FinishCrop, Settle, pageVars
<1>6. \A k \in Kinds : BudgetOK(k)'
  BY BudgetsFall DEF StagesInv, FinishCrop
<1> QED BY <1>1, <1>2, <1>3, <1>4, <1>5, <1>6 DEF StagesInv

-----------------------------------------------------------------------------
LEMMA StagesStart == StagesInit => StagesInv
<1> SUFFICES ASSUME StagesInit PROVE StagesInv
  OBVIOUS
<1>1. StatesOK
  BY DEF StagesInit, StatesOK
<1>2. QueuesOK
  <2>1. <<>> \in Seq(Regions) /\ ToSet(<<>>) = {} /\ IsInjective(<<>>)
    BY DEF ToSet, IsInjective
  <2> QED BY <2>1 DEF StagesInit, QueuesOK
<1>3. ASSUME NEW r \in Regions PROVE RegionOK(r) /\ AnswerOK(r)
  BY DEF StagesInit, RegionOK, AnswerOK, Active
<1>4. ASSUME NEW p \in PageTasks PROVE PageOK(p)
  BY DEF StagesInit, PageOK
<1>5. ASSUME NEW k \in Kinds PROVE BudgetOK(k)
  <2>1. Admitted(k) = {}
    BY DEF StagesInit, Admitted
  <2> QED BY <2>1, StagesAssumption, FS_EmptySet DEF BudgetOK
<1> QED BY <1>1, <1>2, <1>3, <1>4, <1>5 DEF StagesInv

LEMMA StagesKeep == StagesInv /\ [StagesNext]_stagesVars => StagesInv'
<1> SUFFICES ASSUME StagesInv, [StagesNext]_stagesVars PROVE StagesInv'
  OBVIOUS
<1>1. ASSUME NEW p \in PageTasks, PageStep(p) \/ AbortPage(p)
      PROVE  StagesInv'
  BY <1>1, LayoutKeepsStages, NextStageKeepsStages, TextDeadlineKeepsStages, AbortPageKeepsStages
     DEF PageStep
<1>2. ASSUME NEW r \in Regions, RegionStep(r) \/ CpuStep(r) \/ Answer(r)
      PROVE  StagesInv'
  BY <1>2, BeginKeepsStages, AdmitKeepsStages, DeadlineKeepsStages, ProbeKeepsStages,
     CropUnwantedKeepsStages, CropReadyKeepsStages, CpuFailsKeepsStages, FinishCropKeepsStages,
     AnswerKeepsStages DEF RegionStep, CpuStep
<1>3. CASE UNCHANGED stagesVars
  <2>1. StatesOK' /\ QueuesOK'
    BY <1>3, QueuesStay DEF StagesInv, StatesOK, stagesVars, pageVars, cropVars
  <2>2. \A r \in Regions : RegionOK(r)' /\ AnswerOK(r)'
    BY <1>3 DEF StagesInv, RegionOK, AnswerOK, Active, Todo, stagesVars, pageVars, cropVars
  <2>3. \A p \in PageTasks : PageOK(p)'
    BY <1>3 DEF StagesInv, PageOK, TasksDone, Todo, stagesVars, pageVars, cropVars
  <2>4. \A k \in Kinds : BudgetOK(k)'
    BY <1>3, BudgetsFall DEF StagesInv, stagesVars, cropVars
  <2> QED BY <2>1, <2>2, <2>3, <2>4 DEF StagesInv
<1> QED BY <1>1, <1>2, <1>3 DEF StagesNext

\* ocr, tables and formulas, over common lease.rs: however pages time out, fail or are aborted,
\* the crops that have pixels keep to the budget of their kind, and no unit of it is lost.
THEOREM PixelsAdmittedTheorem == StagesSpec => []PixelsAdmitted
<1>1. StagesInv => PixelsAdmitted
  <2> SUFFICES ASSUME StagesInv PROVE PixelsAdmitted
    OBVIOUS
  <2>1. StagesTypeOK
    BY DEF StagesInv, StatesOK, QueuesOK, StagesTypeOK
  <2>2. ASSUME NEW r \in Regions
        PROVE  lease[r] # {} <=>
                 r \in cpu \/ r \in model \/ phase[r] \in {"cropping", "inferring", "finishing"}
    BY DEF StagesInv, StatesOK, RegionOK
  <2>3. ASSUME NEW k \in Kinds PROVE Admitted(k) = CropPixels(k)
    BY <2>2 DEF Admitted, CropPixels
  <2> QED BY <2>1, <2>3 DEF PixelsAdmitted, StagesInv, BudgetOK
<1> QED BY <1>1, StagesStart, StagesKeep, PTL DEF StagesSpec

\* stages.rs, table.rs, formula.rs: a page that is done has exactly one answer for each of its
\* tables and formulas, its own or its source text with a warning, and keeps no crop.
THEOREM PagesAreWhole == StagesSpec => []PageIsWhole
<1>1. StagesInv => PageIsWhole
  <2> SUFFICES ASSUME StagesInv, NEW p \in PageTasks, stage[p] = "done",
                      NEW r \in Todo(p, "table") \cup Todo(p, "formula")
               PROVE  /\ answer[r] # "none" /\ (answer[r] = "kept" <=> r \in warned)
                      /\ "caller" \notin lease[r] /\ (answer[r] # "kept" => lease[r] = {})
    BY DEF PageIsWhole
  <2>1. r \in Regions /\ PageOf(r) = p /\ KindOf(r) \notin Recognizing
    BY DEF Todo, Recognizing
  <2>2. phase[r] = "done"
    BY DEF StagesInv, PageOK, TasksDone
  <2> QED BY <2>1, <2>2 DEF StagesInv, RegionOK, AnswerOK
<1> QED BY <1>1, StagesStart, StagesKeep, PTL DEF StagesSpec
=============================================================================
