----------------------------- MODULE LineProofs -----------------------------
(***************************************************************************)
(* Lemmas about Lines: who stands in a line after somebody joins its end,   *)
(* the first ones are served, or some leave it.                             *)
(***************************************************************************)
EXTENDS Lines, FiniteSetTheorems, SequenceTheorems, TLAPS

\* Who stands in a line.
LEMMA LineElements ==
  ASSUME NEW S, NEW line \in Seq(S)
  PROVE  /\ Len(line) \in Nat /\ DOMAIN line = 1..Len(line)
         /\ ToSet(line) = {line[j] : j \in 1..Len(line)} /\ ToSet(line) \subseteq S
         /\ line = <<>> <=> ToSet(line) = {}
         /\ line = <<>> <=> Len(line) = 0
<1>1. Len(line) \in Nat /\ DOMAIN line = 1..Len(line)
  BY LenProperties
<1>2. \A j \in 1..Len(line) : line[j] \in S
  BY ElementOfSeq
<1>3. line = <<>> <=> Len(line) = 0
  BY <1>1, EmptySeq
<1>4. ToSet(line) = {line[j] : j \in 1..Len(line)}
  BY <1>1 DEF ToSet
<1>5. Len(line) = 0 <=> ToSet(line) = {}
  <2>1. Len(line) # 0 => line[1] \in ToSet(line)
    BY <1>1, <1>4
  <2>2. Len(line) = 0 => 1..Len(line) = {}
    BY <1>1
  <2> QED BY <1>4, <2>1, <2>2
<1> QED BY <1>1, <1>2, <1>3, <1>4, <1>5

\* Joining the end of a line.
LEMMA Joined ==
  ASSUME NEW S, NEW line \in Seq(S), IsInjective(line), NEW r \in S, r \notin ToSet(line)
  PROVE  /\ Append(line, r) \in Seq(S) /\ IsInjective(Append(line, r))
         /\ ToSet(Append(line, r)) = ToSet(line) \cup {r}
<1>. DEFINE n == Len(line)
<1>1. n \in Nat /\ DOMAIN line = 1..n /\ ToSet(line) = {line[j] : j \in 1..n}
  BY LineElements
<1>2. /\ Append(line, r) \in Seq(S) /\ DOMAIN Append(line, r) = 1..(n + 1)
      /\ \A j \in 1..n : Append(line, r)[j] = line[j]
      /\ Append(line, r)[n + 1] = r
  BY AppendProperties, LenProperties
<1>3. IsInjective(Append(line, r))
  BY <1>1, <1>2 DEF IsInjective
<1>4. ToSet(Append(line, r)) = ToSet(line) \cup {r}
  BY <1>1, <1>2 DEF ToSet
<1> QED BY <1>2, <1>3, <1>4

\* The first n of a line leave it.
LEMMA Served ==
  ASSUME NEW S, NEW line \in Seq(S), IsInjective(line), NEW n \in 0..Len(line)
  PROVE  LET rest == SubSeq(line, n + 1, Len(line))
             first == {line[j] : j \in 1..n} IN
         /\ rest \in Seq(S) /\ IsInjective(rest)
         /\ ToSet(rest) = ToSet(line) \ first
         /\ first \subseteq ToSet(line) /\ IsFiniteSet(first) /\ Cardinality(first) = n
         /\ rest = <<>> <=> n = Len(line)
<1>. DEFINE m == Len(line)
            rest == SubSeq(line, n + 1, m)
            first == {line[j] : j \in 1..n}
<1>1. /\ m \in Nat /\ n \in Nat /\ n <= m /\ DOMAIN line = 1..m
      /\ ToSet(line) = {line[j] : j \in 1..m} /\ \A j \in 1..m : line[j] \in S
  BY LineElements, ElementOfSeq
<1>2. /\ rest \in Seq(S) /\ Len(rest) = m - n
      /\ \A j \in 1..(m - n) : rest[j] = line[n + j]
  <2>1. \A j \in (n + 1)..m : line[j] \in S
    BY <1>1
  <2>2. /\ rest \in Seq(S) /\ Len(rest) = IF n + 1 <= m THEN m - (n + 1) + 1 ELSE 0
        /\ \A j \in 1..(m - (n + 1) + 1) : rest[j] = line[(n + 1) + j - 1]
    BY <1>1, <2>1, SubSeqProperties
  <2>3. Len(rest) = m - n
    <3>1. CASE n + 1 <= m
      BY <1>1, <2>2, <3>1
    <3>2. CASE n = m
      BY <1>1, <2>2, <3>2
    <3>3. m \in Int /\ n \in Int /\ n <= m
      BY <1>1
    <3>. HIDE DEF m, rest
    <3>4. n + 1 <= m \/ n = m
      BY <3>3
    <3> QED BY <3>1, <3>2, <3>4
  <2>4. ASSUME NEW j \in 1..(m - n) PROVE rest[j] = line[n + j]
    BY <1>1, <2>2
  <2> QED BY <2>2, <2>3, <2>4
<1>. HIDE DEF m, rest
<1>3. DOMAIN rest = 1..(m - n) /\ (rest = <<>> <=> n = m)
  BY <1>1, <1>2, LineElements
<1>4. \A j, k \in 1..m : line[j] = line[k] => j = k
  BY <1>1 DEF IsInjective
<1>5. IsInjective(rest)
  <2>. SUFFICES ASSUME NEW j \in 1..(m - n), NEW k \in 1..(m - n), rest[j] = rest[k] PROVE j = k
    BY <1>3 DEF IsInjective
  <2>1. n + j \in 1..m /\ n + k \in 1..m /\ line[n + j] = line[n + k]
    BY <1>1, <1>2
  <2>2. n + j = n + k
    BY <1>4, <2>1
  <2> QED BY <1>1, <2>2
<1>6. ToSet(rest) = ToSet(line) \ first
  <2>1. ASSUME NEW x \in ToSet(rest) PROVE x \in ToSet(line) \ first
    <3>1. PICK j \in 1..(m - n) : x = line[n + j]
      BY <1>2, <1>3 DEF ToSet
    <3>2. n + j \in 1..m /\ n + j \notin 1..n
      BY <1>1
    <3> QED BY <1>1, <1>4, <3>1, <3>2
  <2>2. ASSUME NEW x \in ToSet(line) \ first PROVE x \in ToSet(rest)
    <3>1. PICK j \in 1..m : x = line[j] /\ j \notin 1..n
      BY <1>1
    <3>2. j - n \in 1..(m - n) /\ rest[j - n] = line[j]
      BY <1>1, <1>2, <3>1
    <3> QED BY <1>3, <3>1, <3>2 DEF ToSet
  <2> QED BY <2>1, <2>2
<1>7. first \subseteq ToSet(line)
  BY <1>1
<1>8. IsFiniteSet(first) /\ Cardinality(first) = n
  <2>. DEFINE f == [j \in 1..n |-> line[j]]
  <2>1. IsFiniteSet(1..n) /\ Cardinality(1..n) = n
    BY <1>1, FS_Interval
  <2>2. f \in Surjection(1..n, first)
    BY DEF Surjection
  <2>3. f \in Injection(1..n, first)
    BY <1>1, <1>4 DEF Injection, IsInjective
  <2> QED BY <2>1, <2>2, <2>3, FS_Surjection
<1> QED BY <1>2, <1>3, <1>5, <1>6, <1>7, <1>8 DEF m, rest

LEMMA LineSize ==
  ASSUME NEW S, NEW line \in Seq(S), IsInjective(line)
  PROVE  IsFiniteSet(ToSet(line)) /\ Cardinality(ToSet(line)) = Len(line) /\ Len(line) \in Nat
<1>1. Len(line) \in 0..Len(line) /\ ToSet(line) = {line[j] : j \in 1..Len(line)}
  BY LineElements
<1>. DEFINE n == Len(line)
<1>2. LET first == {line[j] : j \in 1..n} IN IsFiniteSet(first) /\ Cardinality(first) = n
  BY <1>1, Served
<1> QED BY <1>1, <1>2, LineElements

\* Members of S leave a line.
LEMMA LeftLine ==
  ASSUME NEW T, NEW line \in Seq(T), IsInjective(line), NEW S
  PROVE  /\ Without(line, S) \in Seq(T) /\ IsInjective(Without(line, S))
         /\ ToSet(Without(line, S)) = ToSet(line) \ S
<1>. DEFINE m == Len(line)
            kept == {j \in DOMAIN line : line[j] \notin S}
            place(j) == Cardinality({i \in kept : i <= j})
            size == Cardinality(kept)
            w == [n \in 1..size |-> line[CHOOSE j \in kept : place(j) = n]]
<1>1. /\ m \in Nat /\ DOMAIN line = 1..m
      /\ ToSet(line) = {line[j] : j \in 1..m} /\ \A j \in 1..m : line[j] \in T
  BY LineElements, ElementOfSeq
<1>2. Without(line, S) = w
  BY <1>1 DEF Without
<1>3. IsFiniteSet(kept) /\ size \in Nat
  <2>1. IsFiniteSet(1..m)
    BY <1>1, FS_Interval
  <2> QED BY <2>1, FS_Subset, FS_CardinalityType
<1>4. ASSUME NEW j \in kept PROVE place(j) \in 1..size
  <2>. DEFINE upTo == {i \in kept : i <= j}
  <2>1. IsFiniteSet(upTo) /\ Cardinality(upTo) <= size
    BY <1>3, FS_Subset
  <2>2. Cardinality(upTo) \in Nat
    BY <2>1, FS_CardinalityType
  <2>3. j \in upTo
    BY <1>1
  <2>4. Cardinality(upTo) # 0
    BY <2>1, <2>3, FS_EmptySet
  <2> QED BY <1>3, <2>1, <2>2, <2>4
<1>5. ASSUME NEW j \in kept, NEW k \in kept, j < k PROVE place(j) < place(k)
  <2>. DEFINE J == {i \in kept : i <= j}
              K == {i \in kept : i <= k}
  <2>1. IsFiniteSet(K) /\ IsFiniteSet(J) /\ place(j) = Cardinality(J) /\ place(k) = Cardinality(K)
    BY <1>3, FS_Subset
  <2>2. J \subseteq K /\ k \in K /\ k \notin J
    BY <1>1, <1>5
  <2>. HIDE DEF J, K
  <2>3. Cardinality(J) <= Cardinality(K) /\ (Cardinality(J) = Cardinality(K) => J = K)
    BY <2>1, <2>2, FS_Subset
  <2>4. Cardinality(J) \in Nat /\ Cardinality(K) \in Nat
    BY <2>1, FS_CardinalityType
  <2> QED BY <2>1, <2>2, <2>3, <2>4
<1>6. kept \subseteq 1..m /\ \A j \in 1..m : j \in kept <=> line[j] \notin S
  BY <1>1
<1>. HIDE DEF place, size, kept, m
<1>7. \A j, k \in kept : place(j) = place(k) => j = k
  <2>. SUFFICES ASSUME NEW j \in kept, NEW k \in kept, place(j) = place(k), j # k PROVE FALSE
    OBVIOUS
  <2>1. j \in Int /\ k \in Int
    BY <1>1, <1>6
  <2>4. place(j) \in Int /\ place(k) \in Int
    BY <1>3, <1>4
  <2>2. CASE j < k
    BY <1>5, <2>4, <2>2
  <2>3. CASE k < j
    BY <1>5, <2>4, <2>3
  <2> QED BY <2>1, <2>2, <2>3
<1>8. ASSUME NEW n \in 1..size PROVE \E j \in kept : place(j) = n
  <2>. DEFINE places == {place(j) : j \in kept}
              f == [j \in kept |-> place(j)]
  <2>1. f \in Surjection(kept, places) /\ f \in Injection(kept, places)
    BY <1>7 DEF Surjection, Injection, IsInjective
  <2>2. IsFiniteSet(places) /\ Cardinality(places) = size
    BY <1>3, <2>1, FS_Surjection DEF size
  <2>3. IsFiniteSet(1..size) /\ Cardinality(1..size) = size /\ places \subseteq 1..size
    BY <1>3, <1>4, FS_Interval
  <2>4. places = 1..size
    BY <2>2, <2>3, FS_Subset
  <2> QED BY <2>4
<1>. DEFINE at(n) == CHOOSE j \in kept : place(j) = n
<1>9. \A n \in 1..size : at(n) \in kept /\ place(at(n)) = n /\ w[n] = line[at(n)]
  BY <1>8
<1>10. \A j \in kept : at(place(j)) = j
  BY <1>4, <1>7, <1>9
<1>. HIDE DEF at, w
<1>11. w \in Seq(T) /\ DOMAIN w = 1..size
  <2>1. w = [n \in 1..size |-> w[n]]
    BY DEF w
  <2>2. \A n \in 1..size : w[n] \in T
    BY <1>1, <1>6, <1>9
  <2> QED BY <1>3, <2>1, <2>2, IsASeq
<1>12. IsInjective(w)
  <2>. SUFFICES ASSUME NEW n \in 1..size, NEW k \in 1..size, w[n] = w[k] PROVE n = k
    BY <1>11 DEF IsInjective
  <2>1. at(n) = at(k)
    BY <1>1, <1>6, <1>9 DEF IsInjective
  <2> QED BY <1>9, <2>1
<1>13. ToSet(w) = ToSet(line) \ S
  <2>1. ASSUME NEW x \in ToSet(w) PROVE x \in ToSet(line) \ S
    <3>1. PICK n \in 1..size : x = w[n]
      BY <1>11 DEF ToSet
    <3> QED BY <1>1, <1>6, <1>9, <3>1
  <2>2. ASSUME NEW x \in ToSet(line) \ S PROVE x \in ToSet(w)
    <3>1. PICK j \in kept : x = line[j]
      BY <1>1, <1>6
    <3>2. place(j) \in 1..size /\ w[place(j)] = x
      BY <1>4, <1>9, <1>10, <3>1
    <3> QED BY <1>11, <3>2 DEF ToSet
  <2> QED BY <2>1, <2>2
<1> QED BY <1>2, <1>11, <1>12, <1>13 DEF w, size, kept, place
=============================================================================
