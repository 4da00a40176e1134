------------------------- MODULE PageAssemblyProofs -------------------------
(***************************************************************************)
(* Proofs about the assembly of any page, for any model order, any captions *)
(* and any confidences: merging leaves proper boxes and keeps each line,    *)
(* structural constraints never form a cycle, the sort places every block,  *)
(* and it respects all constraints that are left.                           *)
(***************************************************************************)
EXTENDS PageAssembly, FiniteSetTheorems, SequenceTheorems, WellFoundedInduction, TLAPS

(* Orders of finite sets. *)

\* A nonempty set of numbers has a least one.
LEMMA LeastNumber ==
  ASSUME NEW T \in SUBSET Nat, T # {}
  PROVE  \E m \in T : \A k \in T : m <= k
<1>1. PICK m \in T : \A k \in T : ~(<<k, m>> \in OpToRel(<, Nat))
  BY NatLessThanWellFounded, WFMin
<1>2. \A k \in T : ~(k < m)
  BY <1>1 DEF OpToRel
<1> QED BY <1>2

\* A finite set has an element that nothing in it precedes.
LEMMA FirstElement ==
  ASSUME NEW S, IsFiniteSet(S), S # {}, NEW R,
         \A x \in S : <<x, x>> \notin R,
         \A x, y, z \in S : <<x, y>> \in R /\ <<y, z>> \in R => <<x, z>> \in R
  PROVE  \E x \in S : \A y \in S : <<y, x>> \notin R
<1> DEFINE Less(x) == {y \in S : <<y, x>> \in R}
           sizes == {Cardinality(Less(x)) : x \in S}
<1>1. ASSUME NEW x \in S PROVE IsFiniteSet(Less(x)) /\ Cardinality(Less(x)) \in Nat
  <2>1. IsFiniteSet(Less(x))
    BY FS_Subset
  <2> QED BY <2>1, FS_CardinalityType
<1> HIDE DEF Less
<1>2. sizes \in SUBSET Nat /\ sizes # {}
  BY <1>1
<1>3. PICK m \in sizes : \A k \in sizes : m <= k
  <2> HIDE DEF sizes
  <2> QED BY <1>2, LeastNumber
<1>4. PICK x \in S : m = Cardinality(Less(x))
  OBVIOUS
<1>5. ASSUME NEW y \in S, <<y, x>> \in R PROVE FALSE
  <2>1. Less(y) \subseteq Less(x) /\ y \in Less(x) /\ y \notin Less(y)
    BY <1>5 DEF Less
  <2>2. IsFiniteSet(Less(x)) /\ Cardinality(Less(x)) \in Nat /\ Cardinality(Less(y)) \in Nat
    BY <1>1
  <2>3. Cardinality(Less(y)) \in sizes
    OBVIOUS
  <2>4. Cardinality(Less(y)) <= Cardinality(Less(x)) /\ Cardinality(Less(y)) # Cardinality(Less(x))
    BY <2>1, <2>2, FS_Subset
  <2> QED BY <1>3, <1>4, <2>2, <2>4
<1> QED BY <1>5

\* Finite sets of integers have a least and a greatest member.
LEMMA Extremes ==
  ASSUME NEW T \in SUBSET Int, IsFiniteSet(T), T # {}
  PROVE  (\E v \in T : \A w \in T : v <= w) /\ (\E v \in T : \A w \in T : v >= w)
<1> DEFINE R == {p \in Int \X Int : p[1] < p[2]}
           Q == {p \in Int \X Int : p[2] < p[1]}
<1>1. /\ \A x \in T : <<x, x>> \notin R
      /\ \A x, y, z \in T : <<x, y>> \in R /\ <<y, z>> \in R => <<x, z>> \in R
  OBVIOUS
<1>2. /\ \A x \in T : <<x, x>> \notin Q
      /\ \A x, y, z \in T : <<x, y>> \in Q /\ <<y, z>> \in Q => <<x, z>> \in Q
  OBVIOUS
<1>3. \A x, y \in T : (<<y, x>> \notin R => x <= y) /\ (<<y, x>> \notin Q => x >= y)
  OBVIOUS
<1> HIDE DEF R, Q
<1>4. (\E x \in T : \A y \in T : <<y, x>> \notin R)
  BY <1>1, FirstElement
<1>5. (\E x \in T : \A y \in T : <<y, x>> \notin Q)
  BY <1>2, FirstElement
<1> QED BY <1>3, <1>4, <1>5

\* The values of a function with a finite domain.
LEMMA FiniteRange ==
  ASSUME NEW S, IsFiniteSet(S), NEW f, f = [x \in S |-> f[x]]
  PROVE  IsFiniteSet({f[x] : x \in S})
<1> DEFINE T == {f[x] : x \in S}
<1>1. f \in Surjection(S, T)
  BY DEF Surjection
<1> QED BY <1>1, FS_Surjection

\* Counting what precedes each element of a finite set numbers the set.
LEMMA Ranked ==
  ASSUME NEW S, IsFiniteSet(S), NEW less \in [S -> SUBSET S],
         \A x \in S : x \notin less[x],
         \A x, y, z \in S : x \in less[y] /\ y \in less[z] => x \in less[z],
         \A x, y \in S : x # y => x \in less[y] \/ y \in less[x]
  PROVE  /\ \A x \in S :
              Cardinality(less[x]) + 1 \in 1..Cardinality(S) /\ Cardinality(less[x]) \in Nat
         /\ \A x, y \in S : Cardinality(less[x]) = Cardinality(less[y]) => x = y
         /\ \A n \in 1..Cardinality(S) : \E x \in S : Cardinality(less[x]) = n - 1
<1> DEFINE N == Cardinality(S)
<1>1. N \in Nat
  BY FS_CardinalityType
<1>2. ASSUME NEW x \in S
      PROVE  IsFiniteSet(less[x]) /\ Cardinality(less[x]) \in 0..(N - 1)
  <2> DEFINE D == less[x]
             E == S \ {x}
  <2>1. D \in SUBSET E /\ D \in SUBSET S
    OBVIOUS
  <2>2. IsFiniteSet(E) /\ Cardinality(E) = N - 1
    BY FS_RemoveElement
  <2> HIDE DEF D, E
  <2>3. IsFiniteSet(D) /\ Cardinality(D) <= Cardinality(E)
    BY <2>1, <2>2, FS_Subset
  <2>4. Cardinality(D) \in Nat
    BY <2>3, FS_CardinalityType
  <2>5. IsFiniteSet(D) /\ Cardinality(D) \in 0..(N - 1)
    <3> HIDE DEF N
    <3> QED BY <2>2, <2>3, <2>4
  <2> QED BY <2>5 DEF D
<1>3. ASSUME NEW x \in S, NEW y \in S, x \in less[y]
      PROVE  Cardinality(less[x]) < Cardinality(less[y])
  <2> DEFINE D == less[x]
             E == less[y]
  <2>1. D \in SUBSET E /\ x \in E /\ x \notin D
    BY <1>3
  <2>2. /\ IsFiniteSet(E) /\ Cardinality(D) \in Nat /\ Cardinality(E) \in Nat
    <3>1. IsFiniteSet(less[y]) /\ Cardinality(less[x]) \in 0..(N - 1)
          /\ Cardinality(less[y]) \in 0..(N - 1)
      BY <1>2
    <3> HIDE DEF N
    <3> QED BY <3>1
  <2> HIDE DEF D, E
  <2>3. Cardinality(D) <= Cardinality(E) /\ Cardinality(D) # Cardinality(E)
    BY <2>1, <2>2, FS_Subset
  <2>4. Cardinality(D) < Cardinality(E)
    BY <2>2, <2>3
  <2> QED BY <2>4 DEF D, E
<1> HIDE DEF N
<1> DEFINE rank == [x \in S |-> Cardinality(less[x]) + 1]
<1>4. \A x \in S : rank[x] \in 1..N /\ Cardinality(less[x]) = rank[x] - 1
  BY <1>1, <1>2
<1>5. \A x, y \in S : rank[x] = rank[y] => x = y
  <2>1. \A x, y \in S : x \in less[y] => rank[x] # rank[y]
    BY <1>3, <1>4
  <2> HIDE DEF rank
  <2> QED BY <2>1
<1>6. \A n \in 1..N : \E x \in S : rank[x] = n
  <2>1. IsFiniteSet(1..N) /\ Cardinality(1..N) = N
    BY <1>1, FS_Interval
  <2>2. rank \in Injection(S, 1..N)
    <3>1. rank \in [S -> 1..N]
      BY <1>4
    <3> HIDE DEF rank
    <3> QED BY <1>5, <3>1 DEF Injection, IsInjective
  <2> HIDE DEF rank
  <2>3. rank \in Surjection(S, 1..N)
    BY <2>1, <2>2, FS_Injection DEF N
  <2> QED BY <2>3 DEF Surjection
<1>7. \A n \in 1..N : \E x \in S : Cardinality(less[x]) = n - 1
  BY <1>4, <1>6
<1>8. \A x, y \in S : Cardinality(less[x]) = Cardinality(less[y]) => x = y
  <2>1. \A x, y \in S : Cardinality(less[x]) = Cardinality(less[y]) => rank[x] = rank[y]
    OBVIOUS
  <2> HIDE DEF rank
  <2> QED BY <1>5, <2>1
<1>9. \A x \in S : Cardinality(less[x]) + 1 \in 1..N /\ Cardinality(less[x]) \in Nat
  BY <1>1, <1>2
<1> QED BY <1>7, <1>8, <1>9 DEF N

-----------------------------------------------------------------------------
(* Merging: boxes of groups. *)

\* Bounds that are numbers, whatever their order.
Numbers == [left : Int, top : Int, right : Int, bottom : Int]

\* The smallest box around proper boxes is proper.
LEMMA EnvelopeProper ==
  ASSUME NEW boxes, IsFiniteSet(boxes), boxes # {}, \A x \in boxes : Proper(x)
  PROVE  Proper(Envelope(boxes))
<1> DEFINE L == {x.left : x \in boxes}
           T == {x.top : x \in boxes}
           Q == {x.right : x \in boxes}
           B == {x.bottom : x \in boxes}
<1>1. IsFiniteSet(L) /\ IsFiniteSet(T) /\ IsFiniteSet(Q) /\ IsFiniteSet(B)
  <2> DEFINE l == [x \in boxes |-> x.left]
             t == [x \in boxes |-> x.top]
             q == [x \in boxes |-> x.right]
             b == [x \in boxes |-> x.bottom]
  <2>1. L = {l[x] : x \in boxes} /\ IsFiniteSet({l[x] : x \in boxes})
    BY FiniteRange
  <2>2. T = {t[x] : x \in boxes} /\ IsFiniteSet({t[x] : x \in boxes})
    BY FiniteRange
  <2>3. Q = {q[x] : x \in boxes} /\ IsFiniteSet({q[x] : x \in boxes})
    BY FiniteRange
  <2>4. B = {b[x] : x \in boxes} /\ IsFiniteSet({b[x] : x \in boxes})
    BY FiniteRange
  <2> QED BY <2>1, <2>2, <2>3, <2>4
<1>2. L \in SUBSET Int /\ T \in SUBSET Int /\ Q \in SUBSET Int /\ B \in SUBSET Int
  BY DEF Proper
<1>3. L # {} /\ T # {} /\ Q # {} /\ B # {}
  OBVIOUS
<1>4. /\ \E v \in L : \A w \in L : v <= w
      /\ \E v \in T : \A w \in T : v <= w
      /\ \E v \in Q : \A w \in Q : v >= w
      /\ \E v \in B : \A w \in B : v >= w
  <2> HIDE DEF L, T, Q, B
  <2> QED BY <1>1, <1>2, <1>3, Extremes
<1>5. /\ \E v \in L : \A x \in boxes : v <= x.left
      /\ \E v \in T : \A x \in boxes : v <= x.top
      /\ \E v \in Q : \A x \in boxes : v >= x.right
      /\ \E v \in B : \A x \in boxes : v >= x.bottom
  BY <1>4
<1> DEFINE l == CHOOSE v \in L : \A x \in boxes : v <= x.left
           t == CHOOSE v \in T : \A x \in boxes : v <= x.top
           r == CHOOSE v \in Q : \A x \in boxes : v >= x.right
           b == CHOOSE v \in B : \A x \in boxes : v >= x.bottom
<1>6. Envelope(boxes) = [left |-> l, top |-> t, right |-> r, bottom |-> b]
  BY DEF Envelope
<1>7. l \in Int /\ t \in Int /\ r \in Int /\ b \in Int
  <2> HIDE DEF L, T, Q, B
  <2> QED BY <1>2, <1>5
<1>8. \A x \in boxes : l <= x.left /\ t <= x.top /\ r >= x.right /\ b >= x.bottom
  <2> HIDE DEF L, T, Q, B
  <2> QED BY <1>5
<1> HIDE DEF l, t, r, b
<1>9. PICK x \in boxes : Proper(x)
  OBVIOUS
<1>10. l < r /\ t < b
  BY <1>7, <1>8 DEF Proper
<1> QED BY <1>6, <1>7, <1>10 DEF Proper

\* Preference is a strict order of blocks, and total: ids decide in the end.
LEMMA PrefersOrders ==
  ASSUME Ids \subseteq Nat, \A b \in Ids : Assigned(blocks[b]),
         NEW a \in Ids, NEW b \in Ids, NEW c \in Ids
  PROVE  /\ ~Prefers(a, a)
         /\ Prefers(a, b) /\ Prefers(b, c) => Prefers(a, c)
         /\ a # b => Prefers(a, b) \/ Prefers(b, a)
<1> DEFINE rank(i) == <<IF Owning(blocks[i]) THEN 0 ELSE 1, IF blocks[i].lines # <<>> THEN 0 ELSE 1,
                   IF Fallback(blocks[i]) THEN 1 ELSE 0,
                   IF Fallback(blocks[i]) THEN 100 ELSE -blocks[i].confidence, i>>
           lower(u, v) == \E k \in 1..5 : u[k] < v[k] /\ \A j \in 1..(k - 1) : u[j] = v[j]
<1>1. \A i \in {a, b, c} : /\ rank(i)[1] \in Int /\ rank(i)[2] \in Int /\ rank(i)[3] \in Int
                           /\ rank(i)[4] \in Int /\ rank(i)[5] \in Int /\ rank(i)[5] = i
  <2>1. \A i \in {a, b, c} : blocks[i].confidence \in Int /\ i \in Nat
    BY DEF Assigned
  <2> QED BY <2>1
<1>2. \A i, j \in {a, b, c} : Prefers(i, j) <=> lower(rank(i), rank(j))
  BY DEF Prefers
<1> HIDE DEF rank
<1>3. \A u, v : lower(u, v) <=>
        \/ u[1] < v[1]
        \/ u[1] = v[1] /\ u[2] < v[2]
        \/ u[1] = v[1] /\ u[2] = v[2] /\ u[3] < v[3]
        \/ u[1] = v[1] /\ u[2] = v[2] /\ u[3] = v[3] /\ u[4] < v[4]
        \/ u[1] = v[1] /\ u[2] = v[2] /\ u[3] = v[3] /\ u[4] = v[4] /\ u[5] < v[5]
  <2> TAKE u, v
  <2>1. /\ 1..0 = {} /\ 1..1 = {1} /\ 1..2 = {1, 2} /\ 1..3 = {1, 2, 3}
        /\ 1..4 = {1, 2, 3, 4} /\ 1..5 = {1, 2, 3, 4, 5}
    OBVIOUS
  <2> QED OBVIOUS
<1> HIDE DEF lower
<1>4. a \in Nat /\ b \in Nat
  OBVIOUS
<1> QED BY <1>1, <1>2, <1>3, <1>4

\* A group has exactly one member that is preferred to all others.
LEMMA PrimaryMember ==
  ASSUME Ids \subseteq Nat, \A b \in Ids : Assigned(blocks[b]),
         NEW g \in SUBSET Ids, IsFiniteSet(g), g # {}
  PROVE  Primary(g) \in g
<1> DEFINE R == {p \in Ids \X Ids : Prefers(p[1], p[2])}
<1>1. /\ \A x \in g : <<x, x>> \notin R
      /\ \A x, y, z \in g : <<x, y>> \in R /\ <<y, z>> \in R => <<x, z>> \in R
  BY PrefersOrders
<1>2. PICK a \in g : \A b \in g : <<b, a>> \notin R
  <2> HIDE DEF R
  <2> QED BY <1>1, FirstElement
<1>3. \A b \in g \ {a} : Prefers(a, b)
  BY <1>2, PrefersOrders
<1> QED BY <1>3 DEF Primary

\* The block that a group becomes has a proper box.
LEMMA MergedProper ==
  ASSUME IsFiniteSet(Ids), Ids \subseteq Nat, \A b \in Ids : Assigned(blocks[b]),
         NEW g \in SUBSET Ids, g # {}
  PROVE  Proper(Merged(g).box) /\ Merged(g).figure \in Numbers
<1>1. IsFiniteSet(g)
  BY FS_Subset
<1>2. Primary(g) \in Ids /\ Assigned(blocks[Primary(g)])
  BY <1>1, PrimaryMember
<1> DEFINE content == {b \in g : ~EmptyAside(blocks[b])}
           part == IF content = {} THEN g ELSE content
           final == Extent(part)
<1>3. Proper(final)
  <2>1. part \in SUBSET Ids /\ part # {} /\ IsFiniteSet(part)
    BY <1>1, FS_Subset
  <2> HIDE DEF part
  <2> DEFINE boxes == {blocks[b].box : b \in part}
  <2>2. IsFiniteSet(boxes) /\ boxes # {}
    <3> DEFINE f == [b \in part |-> blocks[b].box]
    <3>1. boxes = {f[b] : b \in part} /\ IsFiniteSet({f[b] : b \in part})
      BY <2>1, FiniteRange
    <3> QED BY <2>1, <3>1
  <2>3. \A x \in boxes : Proper(x)
    BY <2>1 DEF Assigned
  <2> HIDE DEF boxes
  <2>4. Proper(Envelope(boxes))
    BY <2>2, <2>3, EnvelopeProper
  <2> QED BY <2>4 DEF Extent, boxes
<1>4. CASE Cardinality(g) = 1
  BY <1>2, <1>4 DEF Merged, Assigned, Numbers
<1>5. CASE Cardinality(g) # 1
  <2> HIDE DEF final
  <2>1. /\ Merged(g).box = final
        /\ Merged(g).figure = blocks[Primary(g)].figure
    BY <1>5 DEF Merged, final
  <2> QED BY <1>2, <1>3, <2>1 DEF Assigned, Numbers
<1> QED BY <1>4, <1>5

\* A box that grows to its figure stays proper.
LEMMA PlaceProper ==
  ASSUME NEW bs, NEW b \in DOMAIN bs, Proper(bs[b].box), bs[b].figure \in Numbers,
         "box" \in DOMAIN bs[b]
  PROVE  Proper(Place(bs)[b].box)
<1> DEFINE grown == Union(bs[b].figure, bs[b].box)
<1>1. Proper(grown)
  BY DEF Union, Least, Most, Proper, Numbers
<1>2. Place(bs)[b] = bs[b] \/ Place(bs)[b] = [bs[b] EXCEPT !.box = grown]
  BY DEF Place
<1> HIDE DEF grown
<1> QED BY <1>1, <1>2

-----------------------------------------------------------------------------
(* Merging: lines of groups. *)

LinesIn(g) == UNION {{blocks[b].lines[i] : i \in DOMAIN blocks[b].lines} : b \in g}

\* Lines of blocks with the same id are the same line of the same block.
LEMMA LineIds ==
  ASSUME OwnedOnce(blocks), NEW g \in SUBSET Ids, NEW h \in SUBSET Ids,
         NEW x \in LinesIn(g), NEW y \in LinesIn(h), x.id = y.id
  PROVE  x = y /\ g \cap h # {}
<1>1. PICK a \in g : \E i \in DOMAIN blocks[a].lines : x = blocks[a].lines[i]
  BY DEF LinesIn
<1>2. PICK b \in h : \E j \in DOMAIN blocks[b].lines : y = blocks[b].lines[j]
  BY DEF LinesIn
<1>3. PICK i \in DOMAIN blocks[a].lines : x = blocks[a].lines[i]
  BY <1>1
<1>4. PICK j \in DOMAIN blocks[b].lines : y = blocks[b].lines[j]
  BY <1>2
<1>5. a = b /\ i = j
  BY <1>3, <1>4 DEF OwnedOnce, Ids
<1> QED BY <1>3, <1>4, <1>5

\* Reassembly lists each line of a group, once.
LEMMA ReassembledLines ==
  ASSUME IsFiniteSet(Ids), \A b \in Ids : Assigned(blocks[b]), OwnedOnce(blocks),
         NEW g \in SUBSET Ids
  PROVE  LET s == Reassembled(g) IN
         /\ {s[n] : n \in DOMAIN s} = LinesIn(g)
         /\ \A m, n \in DOMAIN s : s[m] = s[n] => m = n
<1> DEFINE S == LinesIn(g)
           less == [x \in S |-> {y \in S : Above(y, x)}]
           s == Reassembled(g)
<1>1. IsFiniteSet(S)
  <2> DEFINE f == [b \in g |-> {blocks[b].lines[i] : i \in DOMAIN blocks[b].lines}]
             F == {f[b] : b \in g}
  <2>1. IsFiniteSet(F)
    <3>1. IsFiniteSet(g)
      BY FS_Subset
    <3> QED BY <3>1, FiniteRange
  <2>2. \A b \in g : IsFiniteSet(f[b])
    <3> TAKE b \in g
    <3> DEFINE l == [i \in DOMAIN blocks[b].lines |-> blocks[b].lines[i]]
    <3>1. IsFiniteSet(DOMAIN blocks[b].lines)
      BY FS_Interval DEF Assigned
    <3>2. IsFiniteSet({l[i] : i \in DOMAIN blocks[b].lines})
      <4> DEFINE D == DOMAIN blocks[b].lines
      <4>1. IsFiniteSet(D) /\ l = [i \in D |-> l[i]]
        BY <3>1
      <4> HIDE DEF D, l
      <4>2. IsFiniteSet({l[i] : i \in D})
        BY <4>1, FiniteRange
      <4> QED BY <4>2 DEF D
    <3> QED BY <3>2
  <2>3. S = UNION F
    BY DEF LinesIn
  <2>4. \A T \in F : IsFiniteSet(T)
    BY <2>2
  <2> HIDE DEF F, S
  <2> QED BY <2>1, <2>3, <2>4, FS_UNION
<1>2. \A x \in S : x.id \in Int /\ x.box.left \in Int /\ x.box.top \in Int
  BY DEF LinesIn, Assigned
<1>3. \A x, y \in S : x.id = y.id => x = y
  BY LineIds
<1> HIDE DEF S
<1>4. \A x, y, z \in S :
        /\ ~Above(x, x)
        /\ Above(x, y) /\ Above(y, z) => Above(x, z)
        /\ x # y => Above(x, y) \/ Above(y, x)
  BY <1>2, <1>3 DEF Above
<1>5. /\ less \in [S -> SUBSET S]
      /\ \A x, y \in S : y \in less[x] <=> Above(y, x)
  OBVIOUS
<1>6. /\ \A x \in S :
           Cardinality(less[x]) + 1 \in 1..Cardinality(S) /\ Cardinality(less[x]) \in Nat
      /\ \A x, y \in S : Cardinality(less[x]) = Cardinality(less[y]) => x = y
      /\ \A n \in 1..Cardinality(S) : \E x \in S : Cardinality(less[x]) = n - 1
  <2> HIDE DEF less
  <2> QED BY <1>1, <1>4, <1>5, Ranked
<1>7. \A x \in S : less[x] = {y \in S : Above(y, x)}
  OBVIOUS
<1> HIDE DEF less
<1>8. /\ DOMAIN s = 1..Cardinality(S)
      /\ \A n \in 1..Cardinality(S) :
           s[n] = CHOOSE x \in S : Cardinality({y \in S : Above(y, x)}) = n - 1
  BY DEF Reassembled, LinesIn, S
<1> HIDE DEF s
<1>9. \A n \in DOMAIN s : s[n] \in S /\ Cardinality(less[s[n]]) = n - 1
  <2> TAKE n \in DOMAIN s
  <2> DEFINE Good(x) == Cardinality({y \in S : Above(y, x)}) = n - 1
  <2>1. \E x \in S : Good(x)
    BY <1>6, <1>7, <1>8
  <2>2. s[n] = CHOOSE x \in S : Good(x)
    BY <1>8
  <2> HIDE DEF Good
  <2>3. s[n] \in S /\ Good(s[n])
    BY <2>1, <2>2
  <2> QED BY <1>7, <2>3 DEF Good
<1>10. \A x \in S : x = s[Cardinality(less[x]) + 1] /\ Cardinality(less[x]) + 1 \in DOMAIN s
  BY <1>6, <1>8, <1>9
<1>11. {s[n] : n \in DOMAIN s} = S
  <2>1. {s[n] : n \in DOMAIN s} \subseteq S
    BY <1>9
  <2>2. S \subseteq {s[n] : n \in DOMAIN s}
    BY <1>10
  <2> QED BY <2>1, <2>2
<1>12. \A m, n \in DOMAIN s : s[m] = s[n] => m = n
  BY <1>8, <1>9
<1> QED BY <1>11, <1>12 DEF S, s

\* The block that a group becomes has each line of its members, once.
LEMMA MergedLines ==
  ASSUME IsFiniteSet(Ids), Ids \subseteq Nat, \A b \in Ids : Assigned(blocks[b]),
         OwnedOnce(blocks), NEW g \in SUBSET Ids, g # {}
  PROVE  LET s == Merged(g).lines IN
         /\ {s[n] : n \in DOMAIN s} = LinesIn(g)
         /\ \A m, n \in DOMAIN s : s[m] = s[n] => m = n
<1> DEFINE a == Primary(g)
<1>1. IsFiniteSet(g)
  BY FS_Subset
<1>2. a \in g /\ a \in Ids /\ Assigned(blocks[a])
  BY <1>1, PrimaryMember
<1> HIDE DEF a
<1>3. CASE Cardinality(g) = 1
  <2>1. Merged(g) = blocks[a]
    BY <1>3 DEF Merged, a
  <2>2. g = {a}
    BY <1>1, <1>2, <1>3, FS_Singleton
  <2>3. LinesIn(g) = {blocks[a].lines[i] : i \in DOMAIN blocks[a].lines}
    BY <2>2 DEF LinesIn
  <2>4. \A m, n \in DOMAIN blocks[a].lines : blocks[a].lines[m] = blocks[a].lines[n] => m = n
    BY <1>2 DEF OwnedOnce, Ids
  <2> QED BY <2>1, <2>3, <2>4
<1>4. CASE Cardinality(g) # 1
  <2>1. Merged(g).lines = Reassembled(g)
    BY <1>4 DEF Merged
  <2> QED BY <2>1, ReassembledLines
<1> QED BY <1>3, <1>4

-----------------------------------------------------------------------------
(* Constraints. *)

\* The order that structural constraints follow: the main flow downwards, then the
\* margin from top to bottom.
Before(a, b) ==
  \/ ~Marginal(a) /\ Marginal(b)
  \/ ~Marginal(a) /\ ~Marginal(b) /\ Box(a).top < Box(b).top
  \/ Marginal(a) /\ Marginal(b) /\ TopLeft(a, b)

Sound == Ids \subseteq Nat /\ \A b \in Ids : Proper(Box(b))
Descending == \A e \in active : Strong(e) => Before(e.from, e.to)

LEMMA BeforeIrreflexive ==
  ASSUME Sound, NEW a \in Ids
  PROVE  ~Before(a, a)
BY DEF Sound, Proper, Before, TopLeft

LEMMA BeforeTransitive ==
  ASSUME Sound, NEW a \in Ids, NEW b \in Ids, NEW c \in Ids, Before(a, b), Before(b, c)
  PROVE  Before(a, c)
<1>1. a \in Nat /\ b \in Nat /\ c \in Nat
  BY DEF Sound
<1>2. \A x \in {a, b, c} : Box(x).top \in Int /\ Box(x).left \in Int
  BY DEF Sound, Proper
<1>3. TopLeft(a, b) /\ TopLeft(b, c) => TopLeft(a, c)
  BY <1>1, <1>2 DEF TopLeft
<1> QED
  BY <1>2, <1>3 DEF Before

\* Each kind of structural constraint descends.
LEMMA ConstraintsDescend ==
  ASSUME Sound, NEW e \in Constraints, Strong(e)
  PROVE  Before(e.from, e.to)
<1>1. e \notin ModelEdges
  BY DEF ModelEdges, Adjacent, Edge, Strong
<1>2. e \notin XyCutEdges
  BY DEF XyCutEdges, Adjacent, Edge, Strong
<1>3. e \notin InsertionEdges
  BY DEF InsertionEdges, Edge, Strong
<1>4. e \notin CaptionEdges
  BY DEF CaptionEdges, Smallest, Edge, Strong
<1>5. CASE e \in MarginalEdges
  <2>1. CASE \E p \in Smallest(Ids \ Marginals, Lowest) \X Smallest(Marginals, TopLeft) :
               e = Edge(p[1], p[2], "vertical", 0)
    BY <2>1 DEF Smallest, Marginals, Before, Edge
  <2>2. CASE \E p \in Adjacent(Marginals, TopLeft) : e = Edge(p[1], p[2], "region", 0)
    BY <2>2 DEF Adjacent, Marginals, Before, Edge
  <2> QED
    BY <1>5, <2>1, <2>2 DEF MarginalEdges, Adjacent, Smallest
<1>6. CASE e \in GeometryEdges
  <2>1. PICK a \in MainFlow : \E b \in Below(a) : e = Edge(a, b, "vertical", 0)
    <3>1. e \notin UNION {{Edge(a, b, "horizontal", 0) : b \in RightOf(a)} : a \in MainFlow}
      BY DEF Strong, Edge
    <3>2. e \in UNION {{Edge(a, b, "vertical", 0) : b \in Below(a)} : a \in MainFlow}
      BY <1>6, <3>1 DEF GeometryEdges
    <3>3. PICK a \in MainFlow : e \in {Edge(a, b, "vertical", 0) : b \in Below(a)}
      BY <3>2
    <3> QED
      BY <3>3
  <2>2. PICK b \in Below(a) : e = Edge(a, b, "vertical", 0)
    BY <2>1
  <2>3. b \in MainFlow /\ Box(a).bottom <= Box(b).top
    BY DEF Below, Smallest
  <2>4. Box(a).top < Box(b).top
    BY <2>3 DEF Sound, Proper, MainFlow
  <2> QED
    BY <2>2, <2>4 DEF MainFlow, Marginals, Before, Edge
<1> QED
  BY <1>1, <1>2, <1>3, <1>4, <1>5, <1>6 DEF Constraints

Within == \A e \in active : e.from \in Ids /\ e.to \in Ids

\* Constraints relate blocks of the page.
LEMMA ConstraintsWithin ==
  ASSUME NEW e \in Constraints
  PROVE  e.from \in Ids /\ e.to \in Ids
<1> USE DEF MainFlow, Marginals, Adjacent, Smallest, Edge
<1>1. CASE e \in ModelEdges
  BY <1>1 DEF ModelEdges
<1>2. CASE e \in MarginalEdges
  BY <1>2 DEF MarginalEdges
<1>3. CASE e \in XyCutEdges
  BY <1>3 DEF XyCutEdges
<1>4. CASE e \in GeometryEdges
  BY <1>4 DEF GeometryEdges, Below, RightOf
<1>5. CASE e \in CaptionEdges
  BY <1>5 DEF CaptionEdges
<1>6. CASE e \in InsertionEdges
  BY <1>6 DEF InsertionEdges
<1> QED BY <1>1, <1>2, <1>3, <1>4, <1>5, <1>6 DEF Constraints

\* What reaches a reaches what a's followers are.
LEMMA ReachesStep ==
  ASSUME NEW E, NEW a \in Ids, NEW b \in Ids, NEW c \in Ids,
         Reaches(E, a, b), c \in Followers(E, b)
  PROVE  Reaches(E, a, c)
BY DEF Reaches

LEMMA ReachesTransitive ==
  ASSUME NEW E, NEW a \in Ids, NEW b \in Ids, NEW c \in Ids,
         Reaches(E, a, b), Reaches(E, b, c)
  PROVE  Reaches(E, a, c)
BY DEF Reaches

\* In a component without removable constraints all steps descend, so nothing in it
\* can reach itself.
LEMMA ComponentsCanBeCut ==
  ASSUME Sound, Descending, NEW C \in Components
  PROVE  Removable(C) # {}
<1> SUFFICES ASSUME Removable(C) = {} PROVE FALSE
  OBVIOUS
<1>1. PICK a \in Ids : C = Component(a) /\ Reaches(active, a, a)
  BY DEF Components
<1>2. \A c \in C, d \in C : d \in Followers(active, c) => Before(c, d)
  BY DEF Removable, Followers, Descending
<1>3. C \subseteq Ids /\ a \in C
  BY <1>1 DEF Component
<1> DEFINE S == {b \in Ids : Reaches(active, a, b) /\ (b \in C => Before(a, b))}
<1>4. ASSUME NEW d \in Ids, d \in Followers(active, a) PROVE d \in S
  <2>1. Reaches(active, a, d)
    BY <1>4 DEF Reaches
  <2> QED
    BY <1>2, <1>3, <1>4, <2>1
<1>5. ASSUME NEW c \in S, NEW d \in Ids, d \in Followers(active, c) PROVE d \in S
  <2>1. Reaches(active, a, d)
    BY <1>5, ReachesStep
  <2>2. ASSUME d \in C PROVE Before(a, d)
    <3>1. Reaches(active, c, d)
      BY <1>5 DEF Reaches
    <3>2. Reaches(active, c, a)
      BY <1>1, <2>2, <3>1, ReachesTransitive DEF Component
    <3>3. c \in C
      BY <1>1, <3>2 DEF Component
    <3>4. Before(a, c) /\ Before(c, d)
      BY <1>2, <1>5, <2>2, <3>3
    <3> QED
      BY <3>4, BeforeTransitive
  <2> QED
    BY <2>1, <2>2
<1>6. a \in S
  <2>1. S \in SUBSET Ids /\ Followers(active, a) \subseteq S
    BY <1>4 DEF Followers
  <2>2. \A c \in S : Followers(active, c) \subseteq S
    BY <1>5 DEF Followers
  <2> HIDE DEF S
  <2> QED
    BY <1>1, <2>1, <2>2 DEF Reaches
<1> QED
  BY <1>3, <1>6, BeforeIrreflexive

\* Without cycles, whatever is not placed yet has a first one that is ready.
LEMMA SomethingIsReady ==
  ASSUME IsFiniteSet(Ids), Within, Components = {}, Ids \ Placed # {}
  PROVE  Ready # {}
<1> DEFINE U == Ids \ Placed
           R == {p \in Ids \X Ids : Reaches(active, p[1], p[2])}
<1>1. IsFiniteSet(U) /\ U # {}
  BY FS_Subset
<1>2. \A x \in U : <<x, x>> \notin R
  BY DEF Components
<1>3. \A x, y, z \in U : <<x, y>> \in R /\ <<y, z>> \in R => <<x, z>> \in R
  BY ReachesTransitive
<1>4. PICK b \in U : \A a \in U : <<a, b>> \notin R
  <2> HIDE DEF U, R
  <2> QED BY <1>1, <1>2, <1>3, FirstElement
<1>5. ASSUME NEW e \in active, e.to = b PROVE e.from \in Placed
  <2>1. e.from \in Ids /\ b \in Followers(active, e.from)
    BY <1>5 DEF Within, Followers
  <2>2. Reaches(active, e.from, b)
    BY <2>1 DEF Reaches
  <2> QED BY <1>4, <2>1, <2>2
<1> QED BY <1>5 DEF Ready

-----------------------------------------------------------------------------
(* The sort. *)

\* Before sorting nothing is placed, and only the sort appends.
Sorted ==
  /\ phase \in {"aligning", "merging", "composed", "resolving"} => ordered = <<>>
  /\ phase \in {"aligning", "merging"} => edges = {}
  /\ ordered \in Seq(Ids)
  /\ OrderRespectsEvidence

LEMMA SortedInit == Init => Sorted
<1>1. Init => ordered = <<>> /\ edges = {} /\ active = {}
  BY DEF Init, OrderInit
<1>2. ordered = <<>> => ordered \in Seq(Ids) /\ DOMAIN ordered = {}
  OBVIOUS
<1> QED
  BY <1>1 DEF Sorted, OrderRespectsEvidence

LEMMA SortedPop ==
  ASSUME Sorted, Pop
  PROVE  Sorted'
<1>1. PICK b \in Ready : ordered' = Append(ordered, b)
  BY DEF Pop, Smallest
<1>2. /\ b \in Ids /\ b \notin Placed /\ ordered \in Seq(Ids)
      /\ \A e \in active : e.to = b => e.from \in Placed
  BY DEF Ready, Sorted
<1>3. /\ ordered' \in Seq(Ids) /\ Len(ordered') = Len(ordered) + 1
      /\ \A i \in 1..Len(ordered) : ordered'[i] = ordered[i]
      /\ ordered'[Len(ordered) + 1] = b
  BY <1>1, <1>2
<1>4. UNCHANGED <<phase, blocks, edges, active>> /\ phase = "sorting"
  BY DEF Pop
<1>5. \A i \in 1..Len(ordered) : ordered[i] # b
  BY <1>2 DEF Placed
<1>6. \A i, j \in DOMAIN ordered' : i # j => ordered'[i] # ordered'[j]
  BY <1>3, <1>5 DEF Sorted, OrderRespectsEvidence
<1>7. ASSUME NEW e \in active, NEW j \in DOMAIN ordered', ordered'[j] = e.to
      PROVE  \E i \in 1..(j - 1) : ordered'[i] = e.from
  <2>1. CASE j = Len(ordered) + 1
    <3>1. PICK i \in DOMAIN ordered : ordered[i] = e.from
      BY <1>2, <1>3, <1>7, <2>1 DEF Placed
    <3> QED
      BY <1>3, <2>1, <3>1
  <2>2. CASE j \in 1..Len(ordered)
    <3>1. PICK i \in 1..(j - 1) : ordered[i] = e.from
      BY <1>3, <1>7, <2>2 DEF Sorted, OrderRespectsEvidence
    <3> QED
      BY <1>3, <3>1
  <2> QED
    BY <1>3, <2>1, <2>2
<1> QED
  BY <1>3, <1>4, <1>6, <1>7 DEF Sorted, OrderRespectsEvidence, Ids

LEMMA SortedStep == Sorted /\ [Next]_vars => Sorted'
<1> SUFFICES ASSUME Sorted, [Next]_vars PROVE Sorted'
  OBVIOUS
<1>1. CASE Merging /\ UNCHANGED <<orderVars, expected, page>>
  <2>1. /\ ordered = <<>> /\ ordered' = <<>> /\ edges' = {}
        /\ phase' \in {"aligning", "merging", "composed", "refused"}
    BY <1>1 DEF Merging, Align, Group, Absorb, Advance, Compose, orderVars, Sorted
  <2> QED
    BY <2>1 DEF Sorted, OrderRespectsEvidence
<1>2. CASE Connect
  BY <1>2 DEF Connect, Sorted, OrderRespectsEvidence
<1>3. CASE Cut
  <2>1. ordered = <<>> /\ ordered' = ordered /\ edges' = edges /\ phase = "resolving"
        /\ blocks' = blocks
    BY <1>3 DEF Cut, Sorted
  <2>2. \A e \in active : Strong(e) => e \in active'
    BY <1>3 DEF Cut, Removable, Smallest
  <2> QED
    BY <1>3, <2>2 DEF Cut, Sorted, OrderRespectsEvidence
<1>4. CASE Pop
  BY <1>4, SortedPop
<1>5. CASE Resolved \/ Complete \/ Validate \/ UNCHANGED vars
  BY <1>5 DEF Resolved, Complete, Validate, vars, orderVars, Sorted, OrderRespectsEvidence, Ids,
              Strong
<1> QED
  BY <1>1, <1>2, <1>3, <1>4, <1>5 DEF Next, Ordering

\* Every constraint that is left, and every structural one, is respected by the order.
THEOREM OrderIsSorted == Spec => []OrderRespectsEvidence
<1>1. Sorted => OrderRespectsEvidence
  BY DEF Sorted
<1> QED
  BY <1>1, SortedInit, SortedStep, PTL DEF Spec

-----------------------------------------------------------------------------
(* The whole assembly. *)

Disjoint(G) == \A g, h \in G : g # h => g \cap h = {}
OnceEach ==
  OwnedOnce(blocks) /\ expected = UNION {LinesOf(blocks[b]) : b \in Ids}

\* While blocks are merged, they are as they were assigned.
BlocksOK == IsFiniteSet(Ids) /\ Ids \subseteq Nat /\ \A b \in Ids : Assigned(blocks[b])

\* No block is in two lists, and none is empty, because runs have rows.
ListsOK ==
  /\ lists \subseteq (SUBSET Ids) \ {{}} /\ Disjoint(lists)
  /\ \A c \in runs : Cardinality(c.rows) \in Nat \ {0}

\* Every block is in exactly one group.
GroupsOK ==
  /\ groups \subseteq (SUBSET Ids) \ {{}} /\ Disjoint(groups)
  /\ UNION groups = Ids

\* Lines keep one owner; boxes are proper once merging is over, constraints relate blocks of
\* the page, structural ones descend for as long as cycles are looked for, and no cycle is
\* left for the sort.
Assembling ==
  /\ phase \notin {"conflict", "refused"} /\ OnceEach
  /\ phase \in {"aligning", "merging"} => BlocksOK
  /\ phase = "aligning" => ListsOK
  /\ phase = "merging" => GroupsOK
  /\ phase \in {"composed", "resolving"} => Sound
  /\ phase = "resolving" => Descending
  /\ phase \in {"composed", "resolving", "sorting"} => IsFiniteSet(Ids)
  /\ phase \in {"resolving", "sorting"} => Within
  /\ phase = "sorting" => Components = {}

LEMMA AssemblingStart == Init => Assembling
<1> SUFFICES ASSUME Init PROVE Assembling
  OBVIOUS
<1>1. phase = "aligning" /\ BlocksOK /\ OnceEach
  BY PagesAssumption DEF Init, MergeInit, BlocksOK, OnceEach, Ids
<1>2. \A c \in runs : Cardinality(c.rows) \in Nat \ {0}
  <2> TAKE c \in runs
  <2>1. c \in AlignedRuns
    BY DEF Init, MergeInit
  <2>2. c.rows \in SUBSET (Ids \X Ids) /\ Cardinality(c.rows) >= 5
    BY <2>1 DEF AlignedRuns, Run, Rows, Ids
  <2>3. IsFiniteSet(Ids \X Ids)
    BY <1>1, FS_Product DEF BlocksOK
  <2>4. Cardinality(c.rows) \in Nat
    BY <2>2, <2>3, FS_Subset, FS_CardinalityType
  <2> QED BY <2>2, <2>4
<1> QED BY <1>1, <1>2 DEF Init, MergeInit, Assembling, ListsOK, Disjoint

\* A run of rows that becomes a list has members, none of them in another list.
LEMMA AlignKeeps ==
  ASSUME ListsOK, Align
  PROVE  ListsOK' /\ Ids' = Ids /\ blocks' = blocks
<1>1. PICK c \in runs :
        /\ runs' = runs \ {c}
        /\ lists' = IF Cardinality(Members(c)) >= 2 * Cardinality(c.rows)
                    THEN lists \cup {Members(c)} ELSE lists
  BY DEF Align
<1>2. Members(c) \in SUBSET Ids /\ Members(c) \cap UNION lists = {}
  BY DEF Members, Ids
<1>3. Cardinality(Members(c)) >= 2 * Cardinality(c.rows) => Members(c) # {}
  <2>1. Cardinality({}) = 0
    BY FS_EmptySet
  <2> QED BY <2>1 DEF ListsOK
<1> DEFINE m == Members(c)
<1> HIDE DEF m
<1>4. lists' = lists \/ (lists' = lists \cup {m} /\ m \in (SUBSET Ids) \ {{}})
  BY <1>1, <1>2, <1>3 DEF m
<1>5. \A g \in lists : g \cap m = {}
  BY <1>2 DEF m
<1>6. Ids' = Ids /\ blocks' = blocks
  BY DEF Align, Ids
<1>7. Disjoint(lists')
  BY <1>4, <1>5 DEF Disjoint, ListsOK
<1> QED BY <1>1, <1>4, <1>6, <1>7 DEF ListsOK, Disjoint

\* Blocks outside the lists become groups of their own.
LEMMA GroupKeeps ==
  ASSUME ListsOK, Group
  PROVE  GroupsOK' /\ Ids' = Ids /\ blocks' = blocks
<1> DEFINE alone == {{b} : b \in Ids \ UNION lists}
<1>1. groups' = lists \cup alone /\ blocks' = blocks /\ Ids' = Ids
  BY DEF Group, Ids
<1>2. alone \subseteq (SUBSET Ids) \ {{}} /\ UNION alone = Ids \ UNION lists
  OBVIOUS
<1>3. UNION lists \subseteq Ids
  BY DEF ListsOK
<1>4. \A g \in alone : \A h \in lists \cup alone : g # h => g \cap h = {}
  OBVIOUS
<1> HIDE DEF alone
<1>5. UNION (lists \cup alone) = Ids
  BY <1>2, <1>3
<1>6. Disjoint(lists \cup alone)
  BY <1>4 DEF Disjoint, ListsOK
<1>7. lists \cup alone \subseteq (SUBSET Ids) \ {{}}
  BY <1>2 DEF ListsOK
<1> QED BY <1>1, <1>5, <1>6, <1>7 DEF GroupsOK

\* A merge replaces two groups by their union.
LEMMA AbsorbKeeps ==
  ASSUME GroupsOK, Absorb
  PROVE  GroupsOK' /\ Ids' = Ids /\ blocks' = blocks
<1>1. PICK g \in groups, h \in groups : groups' = (groups \ {g, h}) \cup {g \cup h}
  BY DEF Absorb, Current, Candidates
<1>2. Ids' = Ids /\ blocks' = blocks
  BY DEF Absorb, Ids
<1>3. groups' \subseteq (SUBSET Ids) \ {{}}
  BY <1>1 DEF GroupsOK
<1>4. UNION (groups') = Ids
  <2>1. UNION (groups') = UNION groups
    BY <1>1, Zenon
  <2> QED BY <2>1 DEF GroupsOK
<1>5. \A k \in groups \ {g, h} : k \cap (g \cup h) = {}
  BY DEF GroupsOK, Disjoint
<1>6. Disjoint(groups')
  BY <1>1, <1>5 DEF GroupsOK, Disjoint
<1> QED BY <1>2, <1>3, <1>4, <1>6 DEF GroupsOK

\* Every group becomes a block with a proper box and all lines of its members.
LEMMA ComposeKeeps ==
  ASSUME BlocksOK, GroupsOK, OnceEach, Compose, expected' = expected
  PROVE  phase' = "composed" /\ Sound' /\ IsFiniteSet(Ids)' /\ OnceEach'
<1> DEFINE owners == {b \in DOMAIN blocks : \E g \in groups : b = Primary(g)}
           owned(b) == CHOOSE g \in groups : b \in g
           merged == [b \in owners |-> Merged(owned(b))]
           composed == Place(merged)
<1>1. IsFiniteSet(Ids) /\ Ids \subseteq Nat /\ \A b \in Ids : Assigned(blocks[b])
  BY DEF BlocksOK
<1>2. ASSUME NEW g \in groups
      PROVE  /\ g \in SUBSET Ids /\ g # {}
             /\ Primary(g) \in g /\ Proper(Merged(g).box) /\ Merged(g).figure \in Numbers
             /\ {"box", "lines"} \subseteq DOMAIN Merged(g)
  <2>1. g \in SUBSET Ids /\ g # {} /\ IsFiniteSet(g)
    BY <1>1, FS_Subset DEF GroupsOK
  <2>2. Primary(g) \in g
    BY <1>1, <2>1, PrimaryMember
  <2>3. {"box", "lines"} \subseteq DOMAIN Merged(g)
    BY <1>1, <2>1, <2>2 DEF Merged, Assigned
  <2> QED BY <1>1, <2>1, <2>2, <2>3, MergedProper
<1>3. ASSUME NEW b \in owners PROVE owned(b) \in groups /\ Primary(owned(b)) = b
  <2>1. PICK g \in groups : b = Primary(g)
    OBVIOUS
  <2>2. b \in g
    BY <1>2, <2>1
  <2>3. owned(b) \in groups /\ b \in owned(b)
    BY <2>2
  <2> HIDE DEF owned
  <2>4. owned(b) = g
    BY <2>2, <2>3 DEF GroupsOK, Disjoint
  <2> QED BY <2>1, <2>4
<1>4. ASSUME NEW g \in groups PROVE Primary(g) \in owners /\ owned(Primary(g)) = g
  <2>1. Primary(g) \in owners
    BY <1>2 DEF Ids
  <2>2. Primary(g) \in g
    BY <1>2
  <2>3. owned(Primary(g)) \in groups /\ Primary(g) \in owned(Primary(g))
    BY <2>2
  <2> HIDE DEF owned
  <2>4. owned(Primary(g)) = g
    BY <2>2, <2>3 DEF GroupsOK, Disjoint
  <2> QED BY <2>1, <2>4
<1> HIDE DEF owned
<1>5. ASSUME NEW b \in owners
      PROVE  Proper(composed[b].box) /\ composed[b].lines = Merged(owned(b)).lines
  <2>1. merged[b] = Merged(owned(b)) /\ b \in DOMAIN merged
    OBVIOUS
  <2>2. Proper(composed[b].box)
    BY <1>2, <1>3, PlaceProper
  <2>3. {"box", "lines"} \subseteq DOMAIN merged[b]
    BY <1>2, <1>3
  <2> HIDE DEF merged
  <2>4. composed[b].lines = merged[b].lines
    BY <2>1 DEF Place
  <2> QED BY <2>1, <2>2, <2>4
<1>6. /\ blocks' = composed
      /\ phase' = IF \A b \in owners : Proper(composed[b].box) THEN "composed" ELSE "refused"
  BY DEF Compose, owned
<1>7. DOMAIN composed = owners /\ owners \subseteq Ids
  BY DEF Place, Ids
<1> HIDE DEF owners, composed
<1>8. phase' = "composed" /\ Ids' = owners /\ \A b \in owners : Proper(Box(b)')
  BY <1>5, <1>6, <1>7 DEF Ids, Box
<1>9. IsFiniteSet(owners)
  BY <1>1, <1>7, FS_Subset
<1>10. ASSUME NEW b \in owners
       PROVE  LET s == blocks'[b].lines IN
              /\ {s[n] : n \in DOMAIN s} = LinesIn(owned(b))
              /\ \A m, n \in DOMAIN s : s[m] = s[n] => m = n
  <2>1. owned(b) \in SUBSET Ids /\ owned(b) # {}
    BY <1>2, <1>3
  <2>2. blocks'[b].lines = Merged(owned(b)).lines
    BY <1>5, <1>6
  <2> QED BY <1>1, <2>1, <2>2, MergedLines DEF OnceEach
<1>11. OwnedOnce(blocks')
  <2> SUFFICES ASSUME NEW a \in owners, NEW b \in owners,
                      NEW i \in DOMAIN blocks'[a].lines, NEW j \in DOMAIN blocks'[b].lines,
                      blocks'[a].lines[i].id = blocks'[b].lines[j].id
               PROVE  a = b /\ i = j
    BY <1>6, <1>7 DEF OwnedOnce
  <2> DEFINE x == blocks'[a].lines[i]
             y == blocks'[b].lines[j]
  <2>1. x \in LinesIn(owned(a)) /\ y \in LinesIn(owned(b))
    BY <1>10
  <2>2. owned(a) \in SUBSET Ids /\ owned(b) \in SUBSET Ids
    BY <1>2, <1>3
  <2>3. x = y /\ owned(a) \cap owned(b) # {}
    BY <2>1, <2>2, LineIds DEF OnceEach
  <2>4. owned(a) = owned(b)
    BY <1>3, <2>3 DEF GroupsOK, Disjoint
  <2>5. a = b
    BY <1>3, <2>4
  <2> QED BY <1>10, <2>3, <2>5
<1>12. UNION {LinesOf(blocks'[b]) : b \in owners} = UNION {LinesOf(blocks[b]) : b \in Ids}
  <2>1. \A b \in owners : LinesOf(blocks'[b]) = {x.id : x \in LinesIn(owned(b))}
    <3> TAKE b \in owners
    <3>1. LinesIn(owned(b)) = {blocks'[b].lines[n] : n \in DOMAIN blocks'[b].lines}
      BY <1>10
    <3> QED BY <3>1 DEF LinesOf
  <2>2. \A g \in groups : {x.id : x \in LinesIn(g)} = UNION {LinesOf(blocks[b]) : b \in g}
    BY DEF LinesIn, LinesOf
  <2>3. ASSUME NEW b \in owners
        PROVE  LinesOf(blocks'[b]) \subseteq UNION {LinesOf(blocks[c]) : c \in Ids}
    <3>1. LinesOf(blocks'[b]) = UNION {LinesOf(blocks[c]) : c \in owned(b)}
      BY <1>3, <2>1, <2>2
    <3> QED BY <1>2, <1>3, <3>1
  <2>4. ASSUME NEW c \in Ids
        PROVE  LinesOf(blocks[c]) \subseteq UNION {LinesOf(blocks'[b]) : b \in owners}
    <3>1. PICK g \in groups : c \in g
      BY DEF GroupsOK
    <3>2. Primary(g) \in owners /\ owned(Primary(g)) = g
      BY <1>4
    <3>3. LinesOf(blocks[c]) \subseteq {x.id : x \in LinesIn(g)}
      BY <2>2, <3>1
    <3>4. LinesOf(blocks'[Primary(g)]) = {x.id : x \in LinesIn(g)}
      BY <2>1, <3>2
    <3> QED BY <3>2, <3>3, <3>4
  <2> QED BY <2>3, <2>4
<1>13. OnceEach'
  BY <1>8, <1>11, <1>12 DEF OnceEach
<1> QED BY <1>1, <1>7, <1>8, <1>9, <1>13 DEF Sound

LEMMA AssemblingStep == Assembling /\ Sorted /\ [Next]_vars => Assembling'
<1> SUFFICES ASSUME Assembling, Sorted, [Next]_vars PROVE Assembling'
  OBVIOUS
<1> DEFINE kept == /\ BlocksOK => BlocksOK'
                   /\ OnceEach /\ expected' = expected => OnceEach'
<1>1. Ids' = Ids /\ blocks' = blocks => kept
  BY DEF BlocksOK, OnceEach
<1> HIDE DEF kept
<1>2. CASE Merging /\ UNCHANGED <<orderVars, expected, page>>
  <2> USE <1>2
  <2>1. CASE Align
    <3>1. phase = "aligning" /\ phase' = "aligning" /\ expected' = expected
      BY <2>1 DEF Align
    <3>2. ListsOK' /\ kept
      BY <1>1, <2>1, <3>1, AlignKeeps DEF Assembling
    <3> QED BY <3>1, <3>2 DEF Assembling, kept
  <2>2. CASE Group
    <3>1. phase = "aligning" /\ phase' = "merging" /\ expected' = expected
      BY <2>2 DEF Group
    <3>2. GroupsOK' /\ kept
      BY <1>1, <2>2, <3>1, GroupKeeps DEF Assembling
    <3> QED BY <3>1, <3>2 DEF Assembling, kept
  <2>3. CASE Absorb
    <3>1. phase = "merging" /\ phase' = "merging" /\ expected' = expected
      BY <2>3 DEF Absorb
    <3>2. GroupsOK' /\ kept
      BY <1>1, <2>3, <3>1, AbsorbKeeps DEF Assembling
    <3> QED BY <3>1, <3>2 DEF Assembling, kept
  <2>4. CASE Advance
    <3>1. /\ phase = "merging" /\ phase' = "merging" /\ expected' = expected
          /\ groups' = groups /\ blocks' = blocks /\ Ids' = Ids
      BY <2>4 DEF Advance, Ids
    <3>2. GroupsOK' /\ kept
      BY <1>1, <3>1 DEF Assembling, GroupsOK
    <3> QED BY <3>1, <3>2 DEF Assembling, kept
  <2>5. CASE Compose
    <3>1. phase = "merging" /\ expected' = expected
      BY <2>5 DEF Compose
    <3>2. phase' = "composed" /\ Sound' /\ IsFiniteSet(Ids)' /\ OnceEach'
      BY <2>5, <3>1, ComposeKeeps DEF Assembling
    <3> QED BY <3>2 DEF Assembling
  <2> QED BY <2>1, <2>2, <2>3, <2>4, <2>5 DEF Merging
<1>3. CASE Connect /\ expected' = expected
  <2>1. /\ Sound /\ IsFiniteSet(Ids) /\ blocks' = blocks /\ Ids' = Ids
        /\ active' = Constraints /\ phase' = "resolving"
    BY <1>3 DEF Connect, Assembling, Ids
  <2>2. \A e \in Constraints : (Strong(e) => Before(e.from, e.to)) /\ e.from \in Ids /\ e.to \in Ids
    BY <2>1, ConstraintsDescend, ConstraintsWithin
  <2>3. Sound'
    BY <2>1 DEF Sound, Box
  <2>4. Descending' /\ Within'
    BY <2>1, <2>2 DEF Descending, Within, Before, Marginal, Box, TopLeft
  <2>5. OnceEach'
    BY <1>1, <1>3, <2>1 DEF Assembling, kept
  <2> QED BY <2>1, <2>3, <2>4, <2>5 DEF Assembling
<1>4. CASE Cut /\ expected' = expected
  <2>1. /\ Sound /\ Descending /\ Within /\ IsFiniteSet(Ids)
        /\ phase = "resolving" /\ blocks' = blocks /\ Ids' = Ids
    BY <1>4 DEF Cut, Assembling, Ids
  <2>2. \A C \in Components : Removable(C) # {}
    BY <2>1, ComponentsCanBeCut
  <2>3. phase' = phase /\ active' \subseteq active
    BY <1>4, <2>2 DEF Cut
  <2>4. Sound'
    BY <2>1 DEF Sound, Box
  <2>5. Descending' /\ Within'
    BY <2>1, <2>3 DEF Descending, Within, Strong, Before, Marginal, Box, TopLeft
  <2>6. OnceEach'
    BY <1>1, <1>4, <2>1 DEF Assembling, kept
  <2> QED BY <2>1, <2>3, <2>4, <2>5, <2>6 DEF Assembling
<1>5. CASE (Resolved \/ Pop) /\ expected' = expected
  <2>1. /\ phase \in {"resolving", "sorting"} /\ phase' = "sorting"
        /\ Components = {} /\ Within /\ IsFiniteSet(Ids)
        /\ blocks' = blocks /\ active' = active
    BY <1>5 DEF Resolved, Pop, Assembling, orderVars
  <2>2. Components' = Components /\ (Within => Within') /\ Ids' = Ids
    BY <2>1 DEF Components, Component, Reaches, Followers, Within, Ids
  <2>3. OnceEach'
    BY <1>1, <1>5, <2>1, <2>2 DEF Assembling, kept
  <2> QED BY <2>1, <2>2, <2>3 DEF Assembling
<1>6. CASE Complete
  <2>1. Placed \subseteq Ids
    BY DEF Placed, Sorted
  <2>2. Placed = Ids
    BY <1>6, <2>1, SomethingIsReady DEF Complete, Assembling
  <2>3. phase' = "complete" /\ OnceEach'
    BY <1>1, <1>6, <2>2 DEF Complete, Assembling, kept, Ids
  <2> QED BY <2>3 DEF Assembling
<1>7. CASE Validate
  <2>1. phase' \in {"accepted", "rejected"} /\ OnceEach'
    BY <1>1, <1>7 DEF Validate, Assembling, kept, Ids
  <2> QED BY <2>1 DEF Assembling
<1>8. CASE UNCHANGED vars
  <2>1. UNCHANGED <<phase, blocks, active, runs, lists, groups, expected>>
    BY <1>8 DEF vars, mergeVars, orderVars
  <2>2. /\ Ids' = Ids /\ Components' = Components /\ (Within => Within')
        /\ (Sound => Sound') /\ (Descending => Descending')
        /\ (ListsOK => ListsOK') /\ (GroupsOK => GroupsOK')
    BY <2>1
       DEF Ids, Components, Component, Reaches, Followers, Within, Sound, Box, Descending, Before,
                Marginal, TopLeft, ListsOK, GroupsOK, Disjoint
  <2>3. kept
    BY <1>1, <2>1, <2>2
  <2> QED BY <2>1, <2>2, <2>3 DEF Assembling, kept
<1> QED
  BY <1>2, <1>3, <1>4, <1>5, <1>6, <1>7, <1>8 DEF Next, Ordering

\* Whatever the layout model, the residual cut and the captions say, neither the boxes of
\* merged blocks nor `InternalOrderConflict`, from the removal of cycles or from the sort,
\* end a page; and merging moves each line into exactly one block.
THEOREM PagesAreAssembled == Spec => []PageIsAssembled
<1>1. Assembling => PageIsAssembled
  BY DEF Assembling, OnceEach, PageIsAssembled
<1> QED
  BY <1>1, AssemblingStart, AssemblingStep, SortedInit, SortedStep, PTL DEF Spec
=============================================================================
