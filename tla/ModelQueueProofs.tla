--------------------------- MODULE ModelQueueProofs ---------------------------
(***************************************************************************)
(* Proofs about the bounded model queue, for any set of requests and any   *)
(* numbers of sessions, permits and requests per batch.  Permits are       *)
(* counted through their holders: a step moves some requests in and out of *)
(* Holders, and the semaphore's counter follows.  That no two sessions     *)
(* hold one request is what keeps a panic from touching another's batch.   *)
(***************************************************************************)
EXTENDS ModelQueue, LineProofs, WellFoundedInduction

(***************************************************************************)
(* The inductive invariant.                                                *)
(***************************************************************************)

\* What a session has taken: requests to run, permits to give back.
Hand(i) == batch[i] \cup unlocked[i]

\* A session holds something only between taking a batch and answering it, and no
\* request is in two hands.
HandsOK ==
  /\ \A i \in Sessions :
       /\ session[i] # "releasing" => unlocked[i] = {}
       /\ session[i] \notin {"releasing", "busy"} => batch[i] = {}
       /\ session[i] = "busy" => batch[i] # {}
       /\ batch[i] \subseteq In("running")
       /\ unlocked[i] \subseteq In("running") \cup In("skipped")
  /\ \A i, k \in Sessions : i # k => Hand(i) \cap Hand(k) = {}

\* Every permit is free or has a holder.
PermitsOK == IsFiniteSet(Holders) /\ free + Cardinality(Holders) = Capacity

\* The sessions start in order, nothing is asked for before all have, and an open
\* queue has lost none of them.
LifeOK ==
  /\ \A i \in Sessions : session[i] # "new" =>
       \A k \in 1..(i - 1) : session[k] \notin {"new", "loading"}
  /\ \A i \in Sessions : session[i] = "loading" => manager = "starting"
  /\ manager = "starting" => ~closed /\ \A r \in Requests : request[r] = "idle"
  /\ manager = "open" => \A i \in Sessions : session[i] \notin {"new", "loading"}
  /\ ~closed => /\ manager \in {"starting", "open"}
                /\ \A i \in Sessions : session[i] # "exited"

IInv ==
  /\ TypeOK
  /\ waiters \in Seq(Requests) /\ queue \in Seq(Requests)
  /\ HandsOK /\ PermitsOK /\ LifeOK
  /\ NothingStranded

-----------------------------------------------------------------------------
(* Permits that come back. *)

\* Producers that get the n permits given back.
LEMMA WokenFirst ==
  ASSUME IInv, NEW n \in Nat, GiveBack(n)
  PROVE  /\ Woken(n) \subseteq In("waiting") /\ (closed => Woken(n) = {})
         /\ IsFiniteSet(Woken(n)) /\ Cardinality(Woken(n)) \in 0..n
         /\ free' = free + n - Cardinality(Woken(n))
         /\ waiters' \in Seq(Requests) /\ IsInjective(waiters')
         /\ ToSet(waiters') = In("waiting") \ Woken(n)
         /\ waiters' # <<>> /\ ~closed => Cardinality(Woken(n)) = n
<1>1. /\ waiters \in Seq(Requests) /\ IsInjective(waiters) /\ ToSet(waiters) = In("waiting")
      /\ closed \in BOOLEAN
  BY DEF IInv, TypeOK
<1>2. Len(waiters) \in Nat
  BY <1>1, LineElements
<1>3. PICK k \in 0..Len(waiters) :
        /\ Woken(n) = {waiters[j] : j \in 1..k} /\ k <= n
        /\ closed => Woken(n) = {}
        /\ k # Len(waiters) /\ ~closed => k = n
  <2>1. CASE closed
    <3>1. Woken(n) = {waiters[j] : j \in 1..0}
      BY <2>1 DEF Woken
    <3> QED BY <1>2, <2>1, <3>1 DEF Woken
  <2>2. CASE ~closed
    <3>. DEFINE k == IF n < Len(waiters) THEN n ELSE Len(waiters)
    <3>1. k \in 0..Len(waiters) /\ k <= n /\ (k # Len(waiters) => k = n)
      BY <1>2
    <3>2. Woken(n) = {waiters[j] : j \in 1..k}
      BY <2>2 DEF Woken
    <3> QED BY <2>2, <3>1, <3>2
  <2> QED BY <1>1, <2>1, <2>2
<1>4. LET rest == SubSeq(waiters, k + 1, Len(waiters))
          first == {waiters[j] : j \in 1..k} IN
      /\ rest \in Seq(Requests) /\ IsInjective(rest)
      /\ ToSet(rest) = ToSet(waiters) \ first
      /\ first \subseteq ToSet(waiters) /\ IsFiniteSet(first) /\ Cardinality(first) = k
      /\ rest = <<>> <=> k = Len(waiters)
  BY <1>1, Served
<1>5. /\ Woken(n) \subseteq ToSet(waiters) /\ IsFiniteSet(Woken(n)) /\ Cardinality(Woken(n)) = k
      /\ SubSeq(waiters, k + 1, Len(waiters)) \in Seq(Requests)
      /\ IsInjective(SubSeq(waiters, k + 1, Len(waiters)))
      /\ ToSet(SubSeq(waiters, k + 1, Len(waiters))) = ToSet(waiters) \ Woken(n)
      /\ SubSeq(waiters, k + 1, Len(waiters)) = <<>> <=> k = Len(waiters)
  BY <1>3, <1>4
<1>6. waiters' = SubSeq(waiters, k + 1, Len(waiters)) /\ free' = free + n - k
  BY <1>5 DEF GiveBack
<1>7. waiters' # <<>> /\ ~closed => Cardinality(Woken(n)) = n
  BY <1>3, <1>5, <1>6
<1>8. Cardinality(Woken(n)) \in 0..n
  BY <1>2, <1>3, <1>5
<1> QED BY <1>1, <1>3, <1>5, <1>6, <1>7, <1>8

\* Permits return from the requests X and go to the waiters W.
LEMMA PermitsReturn ==
  ASSUME NEW H, IsFiniteSet(H), NEW X \in SUBSET H, NEW W, IsFiniteSet(W), W \cap H = {}
  PROVE  /\ IsFiniteSet(X) /\ Cardinality(X) \in Nat
         /\ IsFiniteSet((H \ X) \cup W)
         /\ Cardinality((H \ X) \cup W) = Cardinality(H) - Cardinality(X) + Cardinality(W)
<1>1. IsFiniteSet(X) /\ Cardinality(X) \in Nat /\ H \cap X = X
  BY FS_Subset, FS_CardinalityType
<1>2. IsFiniteSet(H \ X) /\ Cardinality(H \ X) = Cardinality(H) - Cardinality(X)
  BY <1>1, FS_Difference
<1>3. (H \ X) \cap W = {}
  OBVIOUS
<1>4. /\ IsFiniteSet((H \ X) \cup W)
      /\ Cardinality((H \ X) \cup W) = Cardinality(H \ X) + Cardinality(W) - Cardinality((H \ X) \cap W)
  BY <1>2, FS_Union
<1>5. Cardinality((H \ X) \cap W) = 0
  BY <1>3, FS_EmptySet
<1>6. Cardinality(H) \in Nat /\ Cardinality(W) \in Nat
  BY FS_CardinalityType
<1> QED BY <1>1, <1>2, <1>4, <1>5, <1>6

-----------------------------------------------------------------------------
(* What a session takes. *)

\* A nonempty set of numbers has a least one.
LEMMA LeastNumber ==
  ASSUME NEW T \in SUBSET Nat, T # {}
  PROVE  \E m \in T : \A k \in T : m <= k
<1>1. PICK m \in T : \A k \in T : ~(<<k, m>> \in OpToRel(<, Nat))
  BY NatLessThanWellFounded, WFMin
<1>2. \A k \in T : ~(k < m)
  BY <1>1 DEF OpToRel
<1> QED BY <1>2

\* A batch takes the oldest requests, and no more than BatchLimit that still have a caller.
LEMMA TakesBatch ==
  ASSUME IInv
  PROVE  /\ Taken \in 0..Len(queue)
         /\ IsFiniteSet(Live(Taken)) /\ Cardinality(Live(Taken)) <= BatchLimit
<1>. DEFINE m == Len(queue)
            Full == {n \in 0..m : Cardinality(Live(n)) = BatchLimit}
<1>1. m \in Nat /\ BatchLimit \in Nat
  BY LineElements, QueueAssumption DEF IInv
<1>2. Full \cup {m} \in SUBSET Nat /\ Full \cup {m} # {}
  BY <1>1
<1>3. Taken = CHOOSE x \in Full \cup {m} : \A y \in Full \cup {m} : x <= y
  BY DEF Taken, Min
<1>4. PICK x \in Full \cup {m} : \A y \in Full \cup {m} : x <= y
  BY <1>2, LeastNumber
<1>5. Taken \in Full \cup {m}
  BY <1>3, <1>4
<1>6. ASSUME NEW n \in 0..m PROVE IsFiniteSet(Live(n)) /\ Cardinality(Live(n)) \in Nat
  <2>1. IsFiniteSet(1..n)
    BY FS_Interval
  <2>2. Live(n) \in SUBSET (1..n)
    BY DEF Live
  <2> QED BY <2>1, <2>2, FS_Subset, FS_CardinalityType
<1>7. Full = {} => Cardinality(Live(m)) <= BatchLimit
  <2>. SUFFICES ASSUME Full = {}, ~(Cardinality(Live(m)) <= BatchLimit) PROVE FALSE
    OBVIOUS
  <2>. DEFINE Over == {n \in 0..m : Cardinality(Live(n)) > BatchLimit}
  <2>1. m \in Over /\ Over \in SUBSET Nat
    BY <1>1, <1>6
  <2>2. PICK n \in Over : \A k \in Over : n <= k
    BY <2>1, LeastNumber
  <2>3. n # 0
    <3>1. Live(0) = {}
      BY DEF Live
    <3>2. Cardinality(Live(0)) = 0
      BY <3>1, FS_EmptySet
    <3> QED BY <1>1, <2>2, <3>2
  <2>4. n \in 1..m /\ n - 1 \in 0..m /\ n - 1 \notin Over
    <3>1. n \in 1..m /\ n - 1 \in 0..m /\ ~(n <= n - 1)
      BY <1>1, <2>2, <2>3
    <3> QED BY <2>2, <3>1
  <2>5. Cardinality(Live(n - 1)) < BatchLimit
    BY <1>1, <1>6, <2>4
  <2>6. Live(n) \in SUBSET (Live(n - 1) \cup {n})
    BY <1>1, <2>4 DEF Live
  <2>7. /\ IsFiniteSet(Live(n - 1) \cup {n})
        /\ Cardinality(Live(n - 1) \cup {n}) <= Cardinality(Live(n - 1)) + 1
    <3>1. IsFiniteSet(Live(n - 1)) /\ Cardinality(Live(n - 1)) \in Nat
      BY <1>6, <2>4
    <3>2. /\ IsFiniteSet(Live(n - 1) \cup {n})
          /\ Cardinality(Live(n - 1) \cup {n}) =
               IF n \in Live(n - 1) THEN Cardinality(Live(n - 1)) ELSE Cardinality(Live(n - 1)) + 1
      BY <3>1, FS_AddElement
    <3> QED BY <3>1, <3>2
  <2>8. Cardinality(Live(n)) <= Cardinality(Live(n - 1) \cup {n})
    BY <2>6, <2>7, FS_Subset
  <2>9. Cardinality(Live(n - 1) \cup {n}) \in Nat
    BY <2>7, FS_CardinalityType
  <2> QED BY <1>1, <1>6, <2>2, <2>4, <2>5, <2>7, <2>8, <2>9
<1>8. Cardinality(Live(Taken)) <= BatchLimit
  <2>1. CASE Taken \in Full
    BY <1>1, <2>1
  <2>2. CASE Taken \notin Full
    <3>1. CASE Full = {}
      BY <1>5, <1>7, <2>2, <3>1
    <3>2. CASE Full # {}
      <4>1. PICK y \in Full : TRUE
        BY <3>2
      <4>2. Taken <= y /\ Taken = m
        BY <1>3, <1>4, <1>5, <2>2
      <4>3. y = m
        BY <1>1, <4>1, <4>2
      <4> QED BY <2>2, <4>1, <4>2, <4>3
    <3> QED BY <3>1, <3>2
  <2> QED BY <2>1, <2>2
<1>9. Taken \in 0..m
  BY <1>1, <1>5
<1> QED BY <1>6, <1>8, <1>9

-----------------------------------------------------------------------------
(* What the actions have in common. *)

Status == {"idle", "waiting", "reserved", "queued", "running"} \cup Ended

LEMMA Types ==
  ASSUME IInv
  PROVE  /\ request \in [Requests -> Status]
         /\ \A r \in gone : r \in Requests
         /\ free \in 0..Capacity /\ free \in Nat /\ Capacity \in Nat /\ closed \in BOOLEAN
         /\ waiters \in Seq(Requests) /\ IsInjective(waiters) /\ ToSet(waiters) = In("waiting")
         /\ queue \in Seq(Requests) /\ IsInjective(queue) /\ ToSet(queue) = In("queued")
         /\ batch \in [Sessions -> SUBSET Requests] /\ unlocked \in [Sessions -> SUBSET Requests]
         /\ DOMAIN session = Sessions /\ SessionSize \in Sessions
         /\ waiters = <<>> <=> In("waiting") = {}
         /\ queue = <<>> <=> In("queued") = {}
<1>1. Capacity \in Nat /\ SessionSize \in Sessions
  BY QueueAssumption DEF Sessions
<1>2. /\ waiters \in Seq(Requests) /\ ToSet(waiters) = In("waiting")
      /\ queue \in Seq(Requests) /\ ToSet(queue) = In("queued")
  BY DEF IInv, TypeOK
<1>3. (waiters = <<>> <=> In("waiting") = {}) /\ (queue = <<>> <=> In("queued") = {})
  BY <1>2, LineElements
<1> QED BY <1>1, <1>2, <1>3 DEF IInv, TypeOK, Status

\* A permit's holder is where its request says it is.
LEMMA HoldersApart ==
  ASSUME IInv
  PROVE  /\ Holders \cap In("waiting") = {} /\ In("reserved") \cap In("queued") = {}
         /\ \A i \in Sessions : unlocked[i] \cap (In("waiting") \cup In("reserved") \cup In("queued")) = {}
         /\ \A i, k \in Sessions : i # k => unlocked[i] \cap unlocked[k] = {}
  BY DEF IInv, HandsOK, Hand, Holders, In

\* Where no permit moves, none is lost.
LEMMA SameHolders ==
  ASSUME IInv, Holders' = Holders, free' = free
  PROVE  PermitsOK'
  BY DEF IInv, PermitsOK

LEMMA HandsKept ==
  ASSUME IInv, UNCHANGED <<batch, unlocked>>,
         \A i \in Sessions :
           \/ session'[i] = session[i]
           \/ session[i] \notin {"releasing", "busy"} /\ session'[i] \notin {"releasing", "busy"},
         In("running") \subseteq In("running")', In("skipped") \subseteq In("skipped")'
  PROVE  HandsOK'
<1>1. ASSUME NEW i \in Sessions
      PROVE  /\ (session[i] # "releasing" => unlocked[i] = {})'
             /\ (session[i] \notin {"releasing", "busy"} => batch[i] = {})'
             /\ (session[i] = "busy" => batch[i] # {})'
             /\ (batch[i] \subseteq In("running"))'
             /\ (unlocked[i] \subseteq In("running") \cup In("skipped"))'
  BY DEF IInv, HandsOK
<1>2. \A i, k \in Sessions : i # k => (Hand(i) \cap Hand(k) = {})'
  BY DEF IInv, HandsOK, Hand
<1> QED BY <1>1, <1>2 DEF HandsOK

\* Steps of a system that goes on as it was.
LEMMA LifeKept ==
  ASSUME IInv, UNCHANGED <<closed, manager>>, manager = "starting" => request' = request,
         \A i \in Sessions :
           \/ session'[i] = session[i]
           \/ {session[i], session'[i]} \subseteq {"awake", "parked", "releasing", "busy"}
  PROVE  LifeOK'
<1>1. LifeOK
  BY DEF IInv
<1>2. \A i \in Sessions :
        /\ session'[i] = "new" <=> session[i] = "new"
        /\ session'[i] = "loading" <=> session[i] = "loading"
        /\ session'[i] = "exited" <=> session[i] = "exited"
  OBVIOUS
<1>3. \A i \in Sessions : 1..(i - 1) \subseteq Sessions
  BY QueueAssumption DEF Sessions
<1>4. ASSUME NEW i \in Sessions, session'[i] # "new", NEW k \in 1..(i - 1)
      PROVE  session'[k] \notin {"new", "loading"}
  BY <1>1, <1>2, <1>3, <1>4 DEF LifeOK
<1>5. manager' = "starting" => ~closed' /\ \A r \in Requests : request'[r] = "idle"
  BY <1>1 DEF LifeOK
<1> QED BY <1>1, <1>2, <1>4, <1>5 DEF LifeOK

\* Requests of S leave with their permits' return; the oldest waiters take over.
LEMMA RequestsMoved ==
  ASSUME IInv, NEW S \in SUBSET In("reserved"), NEW where \in Ended, NEW n \in Nat,
         MoveAndGiveBack(S, where, n)
  PROVE  /\ request' \in [Requests -> Status]
         /\ In("waiting")' = In("waiting") \ Woken(n)
         /\ In("reserved")' = (In("reserved") \ S) \cup Woken(n)
         /\ In("queued")' = In("queued") /\ In("running")' = In("running")
         /\ In("skipped") \subseteq In("skipped")'
         /\ waiters' \in Seq(Requests) /\ IsInjective(waiters')
         /\ ToSet(waiters') = In("waiting")'
         /\ waiters' # <<>> /\ ~closed => free' = 0
         /\ manager = "starting" => request' = request
<1>1. GiveBack(n)
  BY DEF MoveAndGiveBack
<1>2. /\ Woken(n) \subseteq In("waiting")
      /\ free' = free + n - Cardinality(Woken(n))
      /\ waiters' \in Seq(Requests) /\ IsInjective(waiters')
      /\ ToSet(waiters') = In("waiting") \ Woken(n)
      /\ waiters' # <<>> /\ ~closed => Cardinality(Woken(n)) = n
  BY <1>1, WokenFirst
<1>3. request' = [r \in Requests |->
        IF r \in S THEN where ELSE IF r \in Woken(n) THEN "reserved" ELSE request[r]]
  BY DEF MoveAndGiveBack
<1>4. /\ request' \in [Requests -> Status]
      /\ \A r \in Requests :
           request'[r] = IF r \in S THEN where
                         ELSE IF r \in Woken(n) THEN "reserved" ELSE request[r]
  BY <1>3, Types DEF Status
<1>. HIDE DEF MoveAndGiveBack
<1>5. /\ In("waiting")' = In("waiting") \ Woken(n)
      /\ In("reserved")' = (In("reserved") \ S) \cup Woken(n)
      /\ In("queued")' = In("queued") /\ In("running")' = In("running")
      /\ In("skipped") \subseteq In("skipped")'
  BY <1>2, <1>4 DEF In, Ended
<1>6. waiters' # <<>> /\ ~closed => free' = 0
  <2>. SUFFICES ASSUME waiters' # <<>>, ~closed PROVE free' = 0
    OBVIOUS
  <2>1. ToSet(waiters') # {}
    BY <1>2, LineElements
  <2>2. free = 0
    BY <1>2, <2>1, Types DEF IInv, NothingStranded
  <2> QED BY <1>2, <2>2
<1>7. manager = "starting" => request' = request
  <2>1. manager = "starting" => S = {} /\ Woken(n) = {}
    BY <1>2 DEF IInv, LifeOK, In
  <2> QED BY <1>3, <2>1, Types
<1> QED BY <1>2, <1>4, <1>5, <1>6, <1>7

\* The permits of X come back.
LEMMA GivenBack ==
  ASSUME IInv, NEW X \in SUBSET Holders, GiveBack(Cardinality(X)),
         Holders' = (Holders \ X) \cup Woken(Cardinality(X))
  PROVE  PermitsOK' /\ free' \in 0..Capacity
<1>. DEFINE n == Cardinality(X)
<1>1. IsFiniteSet(Holders) /\ free + Cardinality(Holders) = Capacity
  BY DEF IInv, PermitsOK
<1>2. IsFiniteSet(X) /\ n \in Nat
  BY <1>1, FS_Subset, FS_CardinalityType
<1>3. /\ Woken(n) \subseteq In("waiting") /\ IsFiniteSet(Woken(n))
      /\ Cardinality(Woken(n)) \in 0..n /\ free' = free + n - Cardinality(Woken(n))
  BY <1>2, WokenFirst
<1>4. Woken(n) \cap Holders = {}
  BY <1>3, HoldersApart
<1>5. /\ IsFiniteSet(Holders')
      /\ Cardinality(Holders') = Cardinality(Holders) - n + Cardinality(Woken(n))
  BY <1>1, <1>3, <1>4, PermitsReturn
<1>6. Cardinality(Holders') \in Nat /\ Cardinality(Holders) \in Nat
  BY <1>1, <1>5, FS_CardinalityType
<1>. HIDE DEF n
<1>7. free' + Cardinality(Holders') = Capacity /\ free' \in 0..Capacity
  BY <1>1, <1>2, <1>3, <1>5, <1>6, Types
<1>8. IsFiniteSet(Holders)' /\ (free + Cardinality(Holders) = Capacity)'
  BY <1>5, <1>7
<1> QED BY <1>7, <1>8 DEF PermitsOK

\* The queue closes: what is in it is lost, and so are the requests of "died".
LEMMA Closed ==
  ASSUME IInv, NEW i \in 0..SessionSize, NEW died \in SUBSET In("running"),
         Close(died), WakeAll(i), UNCHANGED unlocked,
         batch' \in [Sessions -> SUBSET Requests],
         \A k \in Sessions \ {i} : batch'[k] = batch[k] /\ Hand(k) \cap died = {},
         i \in Sessions => unlocked[i] = {} /\ batch'[i] = {},
         manager' \in {"starting", "open", "failing", "failed", "dropped"}
  PROVE  TypeOK' /\ HandsOK' /\ PermitsOK' /\ NothingStranded'
         /\ waiters' \in Seq(Requests) /\ queue' \in Seq(Requests)
<1>1. /\ closed' = TRUE /\ queue' = <<>> /\ free' = free + Len(queue)
      /\ gone' = gone /\ waiters' = waiters
      /\ request' = Move(died \cup In("queued"), "lost")
  BY Types DEF Close
<1>2. /\ request' \in [Requests -> Status]
      /\ \A r \in Requests :
           request'[r] = IF r \in died \cup In("queued") THEN "lost" ELSE request[r]
  BY <1>1, Types DEF Move, Status, Ended
<1>3. /\ In("waiting")' = In("waiting") /\ In("reserved")' = In("reserved")
      /\ In("queued")' = {} /\ In("running")' = In("running") \ died
      /\ In("skipped")' = In("skipped")
  BY <1>2 DEF In
<1>4. queue' \in Seq(Requests) /\ ToSet(queue') = {} /\ IsInjective(queue')
  BY <1>1, EmptySeq DEF ToSet, IsInjective
<1>5. Holders' = Holders \ In("queued")
  <2>1. Holders' = In("reserved") \cup UNION {unlocked[i_1] : i_1 \in Sessions}
    BY <1>3 DEF Holders
  <2> QED BY <2>1, HoldersApart DEF Holders
<1>6. IsFiniteSet(In("queued")) /\ Cardinality(In("queued")) = Len(queue) /\ Len(queue) \in Nat
  <2>1. queue \in Seq(Requests) /\ IsInjective(queue) /\ ToSet(queue) = In("queued")
    BY Types
  <2> QED BY <2>1, LineSize
<1>7. PermitsOK' /\ free' \in 0..Capacity
  <2>1. IsFiniteSet(Holders) /\ free + Cardinality(Holders) = Capacity
    BY DEF IInv, PermitsOK
  <2>2. In("queued") \in SUBSET Holders
    BY DEF Holders
  <2>3. /\ IsFiniteSet(Holders')
        /\ Cardinality(Holders') = Cardinality(Holders) - Cardinality(In("queued"))
    <3>1. Holders \cap In("queued") = In("queued")
      BY <2>2
    <3> QED BY <1>5, <2>1, <3>1, FS_Difference
  <2>4. Cardinality(Holders') \in Nat /\ Cardinality(Holders) \in Nat
    BY <2>1, <2>3, FS_CardinalityType
  <2>6. free' + Cardinality(Holders') = Capacity /\ free' \in 0..Capacity
    <3>1. free \in Nat /\ Capacity \in Nat
      BY Types
    <3> QED BY <1>1, <1>6, <2>1, <2>3, <2>4, <3>1
  <2>7. IsFiniteSet(Holders)' /\ (free + Cardinality(Holders) = Capacity)'
    BY <2>3, <2>6
  <2> QED BY <2>6, <2>7 DEF PermitsOK
<1>8. /\ session' \in [Sessions -> {"new", "loading", "awake", "parked", "releasing", "busy", "exited"}]
      /\ \A k \in Sessions : session'[k] = IF k = i THEN "exited"
            ELSE IF session[k] = "parked" THEN "awake" ELSE session[k]
  BY DEF WakeAll, IInv, TypeOK
<1>9. TypeOK'
  BY <1>1, <1>2, <1>3, <1>4, <1>7, <1>8, Types DEF TypeOK, Status, IInv
<1>10. HandsOK'
  <2>1. ASSUME NEW k \in Sessions
        PROVE  /\ (session[k] # "releasing" => unlocked[k] = {})'
               /\ (session[k] \notin {"releasing", "busy"} => batch[k] = {})'
               /\ (session[k] = "busy" => batch[k] # {})'
               /\ (batch[k] \subseteq In("running"))'
               /\ (unlocked[k] \subseteq In("running") \cup In("skipped"))'
    <3>1. CASE k = i
      BY <1>3, <1>8, <3>1 DEF IInv, HandsOK
    <3>2. CASE k # i
      BY <1>3, <1>8, <3>2 DEF IInv, HandsOK, Hand
    <3> QED BY <3>1, <3>2
  <2>2. ASSUME NEW k \in Sessions, NEW l \in Sessions, k # l PROVE (Hand(k) \cap Hand(l) = {})'
    <3>1. batch'[k] \subseteq batch[k] /\ batch'[l] \subseteq batch[l]
      OBVIOUS
    <3> QED BY <2>2, <3>1 DEF IInv, HandsOK, Hand
  <2> QED BY <2>1, <2>2 DEF HandsOK
<1>11. NothingStranded'
  BY <1>1, <1>8 DEF NothingStranded
<1> QED BY <1>1, <1>4, <1>7, <1>9, <1>10, <1>11, Types

LEMMA LifeAfterClosing ==
  ASSUME IInv, NEW i \in 0..SessionSize, WakeAll(i), closed' = TRUE,
         manager' # "starting", manager' = "open" => manager = "open",
         i \in Sessions => session[i] # "new",
         \A k \in Sessions \ {i} : session[k] # "loading"
  PROVE  LifeOK'
<1>1. \A k \in Sessions : session'[k] = IF k = i THEN "exited"
        ELSE IF session[k] = "parked" THEN "awake" ELSE session[k]
  BY DEF WakeAll
<1>2. ASSUME NEW k \in Sessions, session'[k] # "new", NEW l \in 1..(k - 1)
      PROVE  session'[l] \notin {"new", "loading"}
  <2>1. l \in Sessions /\ session[k] # "new"
    BY <1>1, <1>2, QueueAssumption DEF Sessions
  <2>2. session[l] \notin {"new", "loading"}
    BY <2>1 DEF IInv, LifeOK
  <2> QED BY <1>1, <2>1, <2>2
<1>3. \A k \in Sessions : session'[k] # "loading"
  BY <1>1
<1>4. manager' = "open" => \A k \in Sessions : session'[k] \notin {"new", "loading"}
  BY <1>1 DEF IInv, LifeOK
<1> QED BY <1>2, <1>3, <1>4 DEF LifeOK

-----------------------------------------------------------------------------
(* The invariant holds initially, and every action preserves it. *)

LEMMA IInvInit == Init => IInv
<1>. SUFFICES ASSUME Init PROVE IInv
  OBVIOUS
<1>1. /\ In("waiting") = {} /\ In("reserved") = {} /\ In("queued") = {}
      /\ <<>> \in Seq(Requests) /\ ToSet(<<>>) = {} /\ IsInjective(<<>>)
      /\ Capacity \in Nat
  <2>1. In("waiting") = {} /\ In("reserved") = {} /\ In("queued") = {}
    BY DEF Init, In
  <2>2. <<>> \in Seq(Requests) /\ DOMAIN <<>> = {}
    BY EmptySeq
  <2>3. ToSet(<<>>) = {} /\ IsInjective(<<>>)
    BY <2>2 DEF ToSet, IsInjective
  <2> QED BY <2>1, <2>2, <2>3, QueueAssumption
<1>2. TypeOK
  <2>1. IsInjective(waiters) /\ ToSet(waiters) = In("waiting")
    BY <1>1 DEF Init
  <2>2. IsInjective(queue) /\ ToSet(queue) = In("queued")
    BY <1>1 DEF Init
  <2>3. /\ request \in [Requests -> {"idle", "waiting", "reserved", "queued", "running"} \cup Ended]
        /\ session \in [Sessions -> {"new", "loading", "awake", "parked", "releasing", "busy", "exited"}]
        /\ manager \in {"starting", "open", "failing", "failed", "dropped"}
    BY DEF Init
  <2>4. batch \in [Sessions -> SUBSET Requests] /\ unlocked \in [Sessions -> SUBSET Requests]
    BY DEF Init
  <2>5. free \in 0..Capacity
    BY QueueAssumption DEF Init
  <2>6. gone \subseteq Requests /\ closed \in BOOLEAN
    BY DEF Init
  <2> QED BY <2>1, <2>2, <2>3, <2>4, <2>5, <2>6 DEF TypeOK
<1>3. HandsOK
  BY DEF Init, HandsOK, Hand
<1>4. Holders = {}
  BY <1>1 DEF Init, Holders
<1>5. PermitsOK
  BY <1>1, <1>4, FS_EmptySet DEF Init, PermitsOK
<1>6. LifeOK
  BY DEF Init, LifeOK, Sessions
<1>7. NothingStranded
  BY DEF Init, NothingStranded
<1> QED BY <1>1, <1>2, <1>3, <1>5, <1>6, <1>7 DEF IInv, Init

LEMMA LeaveStep == ASSUME IInv, NEW r \in Requests, Leave(r) PROVE IInv'
<1>1. UNCHANGED <<request, semaphoreVars, queue, closed, sessionVars, manager>> /\ gone' = gone \cup {r}
  BY DEF Leave
<1>2. TypeOK'
  BY <1>1 DEF IInv, TypeOK, semaphoreVars, sessionVars, In
<1>3. HandsOK' /\ LifeOK'
  BY <1>1, HandsKept, LifeKept DEF In, sessionVars
<1>4. PermitsOK'
  BY <1>1, SameHolders DEF Holders, In, semaphoreVars, sessionVars
<1>5. NothingStranded'
  BY <1>1 DEF IInv, NothingStranded, semaphoreVars, sessionVars
<1> QED BY <1>1, <1>2, <1>3, <1>4, <1>5, Types DEF IInv, semaphoreVars

LEMMA PushStep == ASSUME IInv, NEW r \in Requests, Push(r) PROVE IInv'
<1>1. /\ manager = "open" /\ request[r] = "idle" /\ UNCHANGED <<gone, queue, closed, sessionVars, manager>>
      /\ request' = [request EXCEPT ![r] =
           IF closed THEN "refused" ELSE IF r \in gone THEN "skipped"
           ELSE IF free > 0 THEN "reserved" ELSE "waiting"]
      /\ free' = IF request'[r] = "reserved" THEN free - 1 ELSE free
      /\ waiters' = IF request'[r] = "waiting" THEN Append(waiters, r) ELSE waiters
  BY DEF Push
<1>2. /\ request' \in [Requests -> Status] /\ \A q \in Requests \ {r} : request'[q] = request[q]
      /\ request'[r] \in {"refused", "skipped", "reserved", "waiting"}
      /\ request'[r] = "reserved" => free > 0
      /\ request'[r] = "waiting" => free = 0
  BY <1>1, Types DEF Status, Ended
<1>3. /\ In("waiting")' = IF request'[r] = "waiting" THEN In("waiting") \cup {r} ELSE In("waiting")
      /\ In("reserved")' = IF request'[r] = "reserved" THEN In("reserved") \cup {r} ELSE In("reserved")
      /\ In("queued")' = In("queued") /\ In("running")' = In("running")
      /\ In("skipped") \subseteq In("skipped")'
      /\ r \notin In("waiting") /\ r \notin Holders
  <2>1. r \notin Holders
    BY <1>1 DEF IInv, HandsOK, Holders, In
  <2> QED BY <1>1, <1>2, <2>1 DEF In
<1>4. waiters' \in Seq(Requests) /\ IsInjective(waiters') /\ ToSet(waiters') = In("waiting")'
  <2>1. CASE request'[r] = "waiting"
    <3>1. r \notin ToSet(waiters) /\ waiters \in Seq(Requests) /\ IsInjective(waiters)
      BY <1>3, Types
    <3>2. /\ Append(waiters, r) \in Seq(Requests) /\ IsInjective(Append(waiters, r))
          /\ ToSet(Append(waiters, r)) = ToSet(waiters) \cup {r}
      BY <3>1, Joined
    <3> QED BY <1>1, <1>3, <2>1, <3>2, Types
  <2>2. CASE request'[r] # "waiting"
    BY <1>1, <1>3, <2>2, Types
  <2> QED BY <2>1, <2>2
<1>5. PermitsOK' /\ free' \in 0..Capacity
  <2>1. CASE request'[r] = "reserved"
    <3>1. Holders' = Holders \cup {r} /\ free' = free - 1 /\ free > 0
      BY <1>1, <1>2, <1>3, <2>1 DEF Holders, sessionVars
    <3>2. IsFiniteSet(Holders \cup {r}) /\ Cardinality(Holders \cup {r}) = Cardinality(Holders) + 1
      BY <1>3, FS_AddElement DEF IInv, PermitsOK
    <3>3. Cardinality(Holders) \in Nat
      BY FS_CardinalityType DEF IInv, PermitsOK
    <3>4. IsFiniteSet(Holders)' /\ (free + Cardinality(Holders) = Capacity)'
      BY <3>1, <3>2, <3>3, Types DEF IInv, PermitsOK
    <3> QED BY <3>1, <3>4, Types DEF PermitsOK
  <2>2. CASE request'[r] # "reserved"
    BY <1>1, <1>3, <2>2, SameHolders, Types DEF Holders, sessionVars
  <2> QED BY <2>1, <2>2
<1>6. TypeOK'
  BY <1>1, <1>2, <1>3, <1>4, <1>5, Types DEF IInv, TypeOK, Status, sessionVars
<1>7. HandsOK' /\ LifeOK'
  BY <1>1, <1>3, HandsKept, LifeKept DEF sessionVars
<1>8. NothingStranded'
  <2>1. waiters' # <<>> => free' = 0 \/ closed'
    BY <1>1, <1>2 DEF IInv, NothingStranded
  <2> QED BY <1>1, <2>1 DEF IInv, NothingStranded, sessionVars
<1> QED BY <1>1, <1>4, <1>5, <1>6, <1>7, <1>8, Types DEF IInv

LEMMA RefuseStep == ASSUME IInv, NEW r \in Requests, Refuse(r) PROVE IInv'
<1>1. /\ closed /\ request[r] = "waiting" /\ request' = [request EXCEPT ![r] = "refused"]
      /\ waiters' = Without(waiters, {r}) /\ UNCHANGED <<gone, free, queue, closed, sessionVars, manager>>
  BY DEF Refuse
<1>2. /\ request' \in [Requests -> Status]
      /\ In("waiting")' = In("waiting") \ {r} /\ In("reserved")' = In("reserved")
      /\ In("queued")' = In("queued") /\ In("running")' = In("running")
      /\ In("skipped")' = In("skipped") /\ r \in In("waiting")
  BY <1>1, Types DEF In, Status, Ended
<1>3. waiters' \in Seq(Requests) /\ IsInjective(waiters') /\ ToSet(waiters') = In("waiting")'
  <2>1. r \in ToSet(waiters) /\ waiters \in Seq(Requests) /\ IsInjective(waiters)
    BY <1>2, Types
  <2>2. /\ Without(waiters, {r}) \in Seq(Requests) /\ IsInjective(Without(waiters, {r}))
        /\ ToSet(Without(waiters, {r})) = ToSet(waiters) \ {r}
    BY <2>1, LeftLine
  <2> QED BY <1>1, <1>2, <2>2, Types
<1>4. TypeOK'
  BY <1>1, <1>2, <1>3, Types DEF IInv, TypeOK, Status, sessionVars
<1>5. HandsOK'
  BY <1>1, <1>2, HandsKept DEF sessionVars
<1>6. LifeOK'
  <2>1. manager # "starting"
    BY <1>1 DEF IInv, LifeOK
  <2> QED BY <1>1, <2>1, LifeKept DEF sessionVars
<1>7. PermitsOK'
  BY <1>1, <1>2, SameHolders DEF Holders, sessionVars
<1>8. NothingStranded'
  BY <1>1 DEF IInv, NothingStranded, sessionVars
<1> QED BY <1>1, <1>3, <1>4, <1>5, <1>6, <1>7, <1>8, Types DEF IInv

\* A parked session that is notified is still a session with empty hands.
LEMMA Notified ==
  ASSUME IInv, NotifyOne
  PROVE  /\ session' \in [Sessions -> {"new", "loading", "awake", "parked", "releasing", "busy", "exited"}]
         /\ \A i \in Sessions : session'[i] = session[i] \/ (session[i] = "parked" /\ session'[i] = "awake")
         /\ (\E i \in Sessions : session[i] = "parked") => \E i \in Sessions : session'[i] = "awake"
<1>1. session \in [Sessions -> {"new", "loading", "awake", "parked", "releasing", "busy", "exited"}]
  BY DEF IInv, TypeOK
<1>2. CASE \E i \in Sessions : session[i] = "parked"
  <2>1. PICK i \in Sessions : session[i] = "parked" /\ session' = [session EXCEPT ![i] = "awake"]
    BY <1>2 DEF NotifyOne
  <2> QED BY <1>1, <2>1
<1>3. CASE ~\E i \in Sessions : session[i] = "parked"
  BY <1>1, <1>3 DEF NotifyOne
<1> QED BY <1>2, <1>3

\* A reserved request gives its permit back and ends.
LEMMA EndReserved ==
  ASSUME IInv, NEW r \in Requests, request[r] = "reserved", NEW where \in Ended,
         MoveAndGiveBack({r}, where, 1), gone' \subseteq Requests,
         UNCHANGED <<queue, closed, sessionVars, manager>>
  PROVE  IInv'
<1>1. {r} \in SUBSET In("reserved") /\ 1 \in Nat /\ {r} \in SUBSET Holders
  BY DEF In, Holders
<1>2. /\ request' \in [Requests -> Status]
      /\ In("reserved")' = (In("reserved") \ {r}) \cup Woken(1)
      /\ In("queued")' = In("queued") /\ In("running")' = In("running")
      /\ In("skipped") \subseteq In("skipped")'
      /\ waiters' \in Seq(Requests) /\ IsInjective(waiters')
      /\ ToSet(waiters') = In("waiting")'
      /\ waiters' # <<>> /\ ~closed => free' = 0
      /\ manager = "starting" => request' = request
  BY <1>1, RequestsMoved
<1>3. Cardinality({r}) = 1
  BY FS_Singleton
<1>4. Holders' = (Holders \ {r}) \cup Woken(1)
  <2>1. Holders' = In("reserved")' \cup In("queued") \cup UNION {unlocked[i] : i \in Sessions}
    BY <1>2 DEF Holders, sessionVars
  <2>2. r \notin In("queued") \cup UNION {unlocked[i] : i \in Sessions}
    BY <1>1, HoldersApart
  <2> QED BY <1>2, <2>1, <2>2 DEF Holders
<1>5. PermitsOK' /\ free' \in 0..Capacity
  BY <1>1, <1>3, <1>4, GivenBack DEF MoveAndGiveBack
<1>6. TypeOK'
  BY <1>2, <1>5, Types DEF IInv, TypeOK, Status, sessionVars
<1>7. HandsOK' /\ LifeOK'
  BY <1>2, HandsKept, LifeKept DEF sessionVars
<1>8. NothingStranded'
  BY <1>2 DEF IInv, NothingStranded, sessionVars
<1> QED BY <1>2, <1>5, <1>6, <1>7, <1>8, Types DEF IInv

LEMMA PublishStep == ASSUME IInv, NEW r \in Requests, Publish(r) PROVE IInv'
<1>0. request[r] = "reserved" /\ UNCHANGED <<gone, closed, batch, unlocked, manager>>
  BY DEF Publish
<1>1. CASE r \in gone \/ closed
  <2>1. PICK end \in {"skipped", "refused"} : MoveAndGiveBack({r}, end, 1)
    BY <1>1 DEF Publish
  <2>2. UNCHANGED <<queue, session>> /\ gone' \subseteq Requests
    BY <1>0, <1>1, Types DEF Publish
  <2> QED BY <1>0, <2>1, <2>2, EndReserved DEF Ended, sessionVars
<1>2. CASE ~(r \in gone \/ closed)
  <2>1. /\ request' = [request EXCEPT ![r] = "queued"] /\ queue' = Append(queue, r)
        /\ NotifyOne /\ UNCHANGED semaphoreVars
    BY <1>2 DEF Publish
  <2>2. /\ request' \in [Requests -> Status]
        /\ In("waiting")' = In("waiting") /\ In("reserved")' = In("reserved") \ {r}
        /\ In("queued")' = In("queued") \cup {r} /\ In("running")' = In("running")
        /\ In("skipped")' = In("skipped") /\ r \notin In("queued") /\ r \in In("reserved")
    BY <1>0, <2>1, Types DEF In, Status
  <2>3. queue' \in Seq(Requests) /\ IsInjective(queue') /\ ToSet(queue') = In("queued")'
    <3>1. r \notin ToSet(queue) /\ queue \in Seq(Requests) /\ IsInjective(queue)
      BY <2>2, Types
    <3>2. /\ Append(queue, r) \in Seq(Requests) /\ IsInjective(Append(queue, r))
          /\ ToSet(Append(queue, r)) = ToSet(queue) \cup {r}
      BY <3>1, Joined
    <3> QED BY <2>1, <2>2, <3>2, Types
  <2>4. PermitsOK'
    <3>1. Holders' = Holders
      BY <1>0, <2>2 DEF Holders
    <3> QED BY <2>1, <3>1, SameHolders DEF semaphoreVars
  <2>5. TypeOK'
    BY <1>0, <2>1, <2>2, <2>3, Notified, Types DEF IInv, TypeOK, Status, semaphoreVars
  <2>6. HandsOK'
    BY <1>0, <2>1, <2>2, Notified, HandsKept
  <2>7. manager = "open"
    BY <1>0, <1>2 DEF IInv, LifeOK
  <2>8. LifeOK'
    BY <1>0, <2>1, <2>7, Notified, LifeKept
  <2>9. NothingStranded'
    <3>1. \E i \in Sessions : session'[i] \in {"awake", "releasing", "busy"}
      <4>1. CASE \E i \in Sessions : session[i] = "parked"
        BY <2>1, <4>1, Notified
      <4>2. CASE ~\E i \in Sessions : session[i] = "parked"
        <5>1. session[SessionSize] \in {"awake", "releasing", "busy"}
          BY <1>2, <2>7, <4>2, Types DEF IInv, LifeOK, TypeOK
        <5>2. session'[SessionSize] = session[SessionSize]
          BY <2>1, <4>2, Notified, Types
        <5> QED BY <5>1, <5>2, Types
      <4> QED BY <4>1, <4>2
    <3> QED BY <1>0, <1>2, <2>1, <3>1 DEF IInv, NothingStranded, semaphoreVars
  <2> QED BY <2>1, <2>3, <2>4, <2>5, <2>6, <2>8, <2>9, Types DEF IInv, semaphoreVars
<1> QED BY <1>1, <1>2

LEMMA DropStep == ASSUME IInv, NEW r \in Requests, Drop(r) PROVE IInv'
<1>0. UNCHANGED <<queue, closed, sessionVars, manager>> /\ gone' \subseteq Requests
  BY Types DEF Drop
<1>1. CASE request[r] = "reserved"
  BY <1>0, <1>1, EndReserved DEF Drop, Ended
<1>2. CASE request[r] # "reserved"
  <2>1. /\ request[r] = "waiting" /\ request' = [request EXCEPT ![r] = "dropped"]
        /\ waiters' = Without(waiters, {r}) /\ UNCHANGED free
    BY <1>2 DEF Drop
  <2>2. /\ request' \in [Requests -> Status]
        /\ In("waiting")' = In("waiting") \ {r} /\ In("reserved")' = In("reserved")
        /\ In("queued")' = In("queued") /\ In("running")' = In("running")
        /\ In("skipped")' = In("skipped") /\ r \in In("waiting")
    BY <2>1, Types DEF In, Status, Ended
  <2>3. waiters' \in Seq(Requests) /\ IsInjective(waiters') /\ ToSet(waiters') = In("waiting")'
    <3>1. r \in ToSet(waiters) /\ waiters \in Seq(Requests) /\ IsInjective(waiters)
      BY <2>2, Types
    <3>2. /\ Without(waiters, {r}) \in Seq(Requests) /\ IsInjective(Without(waiters, {r}))
          /\ ToSet(Without(waiters, {r})) = ToSet(waiters) \ {r}
      BY <3>1, LeftLine
    <3> QED BY <2>1, <2>2, <3>2, Types
  <2>4. TypeOK'
    BY <1>0, <2>1, <2>2, <2>3, Types DEF IInv, TypeOK, Status, sessionVars
  <2>5. HandsOK'
    BY <1>0, <2>2, HandsKept DEF sessionVars
  <2>6. LifeOK'
    <3>1. manager # "starting"
      BY <2>1 DEF IInv, LifeOK
    <3> QED BY <1>0, <3>1, LifeKept DEF sessionVars
  <2>7. PermitsOK'
    BY <1>0, <2>1, <2>2, SameHolders DEF Holders, sessionVars
  <2>8. NothingStranded'
    <3>1. waiters' # <<>> => waiters # <<>>
      BY <2>2, <2>3, Types, LineElements
    <3> QED BY <1>0, <2>1, <3>1 DEF IInv, NothingStranded, sessionVars
  <2> QED BY <1>0, <2>3, <2>4, <2>5, <2>6, <2>7, <2>8, Types DEF IInv
<1> QED BY <1>1, <1>2

LEMMA ReleaseStep == ASSUME IInv, NEW i \in Sessions, Release(i) PROVE IInv'
<1>1. /\ session[i] = "releasing" /\ MoveAndGiveBack({}, "skipped", Cardinality(unlocked[i]))
      /\ unlocked' = [unlocked EXCEPT ![i] = {}]
      /\ session' = [session EXCEPT ![i] = IF batch[i] = {} THEN "awake" ELSE "busy"]
      /\ UNCHANGED <<gone, queue, closed, batch, manager>>
  BY DEF Release, MoveAndGiveBack
<1>. DEFINE X == unlocked[i]  n == Cardinality(X)
<1>2. X \in SUBSET Holders /\ IsFiniteSet(X) /\ n \in Nat
  <2>1. X \in SUBSET Holders /\ IsFiniteSet(Holders)
    BY DEF Holders, IInv, PermitsOK
  <2> QED BY <2>1, FS_Subset, FS_CardinalityType
<1>3. /\ request' \in [Requests -> Status]
      /\ In("reserved")' = (In("reserved") \ {}) \cup Woken(n)
      /\ In("queued")' = In("queued") /\ In("running")' = In("running")
      /\ In("skipped") \subseteq In("skipped")'
      /\ waiters' \in Seq(Requests) /\ IsInjective(waiters')
      /\ ToSet(waiters') = In("waiting")'
      /\ waiters' # <<>> /\ ~closed => free' = 0
      /\ manager = "starting" => request' = request
  <2>1. {} \in SUBSET In("reserved") /\ "skipped" \in Ended
    BY DEF Ended
  <2> QED BY <1>1, <1>2, <2>1, RequestsMoved
<1>. HIDE DEF n
<1>4. /\ \A k \in Sessions : unlocked'[k] = IF k = i THEN {} ELSE unlocked[k]
      /\ \A k \in Sessions : session'[k] = IF k # i THEN session[k]
                                           ELSE IF batch[i] = {} THEN "awake" ELSE "busy"
  BY <1>1, Types
<1>5. Holders' = (Holders \ X) \cup Woken(n)
  <2>1. Holders' = In("reserved") \cup Woken(n) \cup In("queued") \cup UNION {unlocked'[k] : k \in Sessions}
    BY <1>3 DEF Holders
  <2>2. UNION {unlocked'[k] : k \in Sessions} = (UNION {unlocked[k] : k \in Sessions}) \ X
    BY <1>4, HoldersApart
  <2>3. (In("reserved") \cup In("queued")) \cap X = {}
    BY HoldersApart
  <2> QED BY <2>1, <2>2, <2>3 DEF Holders
<1>6. PermitsOK' /\ free' \in 0..Capacity
  BY <1>1, <1>2, <1>5, GivenBack DEF MoveAndGiveBack, n
<1>7. TypeOK'
  <2>1. /\ unlocked' \in [Sessions -> SUBSET Requests]
        /\ session' \in [Sessions -> {"new", "loading", "awake", "parked", "releasing", "busy", "exited"}]
    BY <1>1, Types DEF IInv, TypeOK
  <2> QED BY <1>1, <1>3, <1>6, <2>1, Types DEF IInv, TypeOK, Status
<1>8. HandsOK'
  <2>1. ASSUME NEW k \in Sessions
        PROVE  /\ (session[k] # "releasing" => unlocked[k] = {})'
               /\ (session[k] \notin {"releasing", "busy"} => batch[k] = {})'
               /\ (session[k] = "busy" => batch[k] # {})'
               /\ (batch[k] \subseteq In("running"))'
               /\ (unlocked[k] \subseteq In("running") \cup In("skipped"))'
    BY <1>1, <1>3, <1>4 DEF IInv, HandsOK
  <2>2. ASSUME NEW k \in Sessions, NEW l \in Sessions, k # l PROVE (Hand(k) \cap Hand(l) = {})'
    BY <1>1, <1>4, <2>2 DEF IInv, HandsOK, Hand
  <2> QED BY <2>1, <2>2 DEF HandsOK
<1>9. LifeOK'
  BY <1>1, <1>3, <1>4, LifeKept
<1>10. NothingStranded'
  <2>1. closed => queue = <<>> /\ \A k \in Sessions : session'[k] # "parked"
    BY <1>4 DEF IInv, NothingStranded
  <2>2. session'[i] \in {"awake", "busy"}
    BY <1>4
  <2> QED BY <1>1, <1>3, <2>1, <2>2 DEF NothingStranded
<1> QED BY <1>1, <1>3, <1>6, <1>7, <1>8, <1>9, <1>10, Types DEF IInv

LEMMA PopStep == ASSUME IInv, NEW i \in Sessions, Pop(i) PROVE IInv'
<1>0. session[i] = "awake" /\ ~closed /\ UNCHANGED <<gone, semaphoreVars, closed, manager>>
  BY DEF Pop
<1>1. CASE queue = <<>>
  <2>1. session' = [session EXCEPT ![i] = "parked"] /\ UNCHANGED <<request, queue, batch, unlocked>>
    BY <1>1 DEF Pop
  <2>2. \A k \in Sessions : session'[k] = IF k = i THEN "parked" ELSE session[k]
    BY <2>1, Types
  <2>3. TypeOK'
    BY <1>0, <2>1 DEF IInv, TypeOK, semaphoreVars, In
  <2>4. HandsOK' /\ LifeOK'
    BY <1>0, <2>1, <2>2, HandsKept, LifeKept DEF In
  <2>5. PermitsOK'
    BY <1>0, <2>1, SameHolders DEF Holders, In, semaphoreVars
  <2>6. NothingStranded'
    BY <1>0, <1>1, <2>1 DEF IInv, NothingStranded, semaphoreVars
  <2> QED BY <1>0, <2>1, <2>3, <2>4, <2>5, <2>6, Types DEF IInv, semaphoreVars
<1>2. CASE queue # <<>>
  <2>. DEFINE taken == {queue[j] : j \in 1..Taken}
  <2>1. /\ session' = [session EXCEPT ![i] = "releasing"]
        /\ queue' = SubSeq(queue, Taken + 1, Len(queue))
        /\ batch' = [batch EXCEPT ![i] = taken \ gone]
        /\ unlocked' = [unlocked EXCEPT ![i] = taken]
        /\ request' = [r \in Requests |->
             IF r \in taken THEN (IF r \in gone THEN "skipped" ELSE "running") ELSE request[r]]
    BY <1>2 DEF Pop
  <2>2. /\ queue' \in Seq(Requests) /\ IsInjective(queue') /\ ToSet(queue') = In("queued") \ taken
        /\ taken \subseteq In("queued")
    <3>1. Taken \in 0..Len(queue)
      BY TakesBatch
    <3>2. PICK n \in 0..Len(queue) : n = Taken
      BY <3>1
    <3>3. queue \in Seq(Requests) /\ IsInjective(queue)
      BY Types
    <3>4. LET rest == SubSeq(queue, n + 1, Len(queue))
              first == {queue[j] : j \in 1..n} IN
          /\ rest \in Seq(Requests) /\ IsInjective(rest)
          /\ ToSet(rest) = ToSet(queue) \ first
          /\ first \subseteq ToSet(queue) /\ IsFiniteSet(first) /\ Cardinality(first) = n
          /\ rest = <<>> <=> n = Len(queue)
      BY <3>3, Served
    <3> QED BY <2>1, <3>2, <3>4, Types
  <2>. HIDE DEF taken
  <2>3. /\ request' \in [Requests -> Status]
        /\ \A r \in Requests : request'[r] = IF r \in taken THEN (IF r \in gone THEN "skipped" ELSE "running")
                                             ELSE request[r]
    BY <2>1, Types DEF Status, Ended
  <2>4. /\ In("waiting")' = In("waiting") /\ In("reserved")' = In("reserved")
        /\ In("queued")' = In("queued") \ taken
        /\ In("running")' = In("running") \cup (taken \ gone)
        /\ In("skipped")' = In("skipped") \cup (taken \cap gone)
    BY <2>2, <2>3 DEF In
  <2>5. /\ \A k \in Sessions : session'[k] = IF k = i THEN "releasing" ELSE session[k]
        /\ \A k \in Sessions : batch'[k] = IF k = i THEN taken \ gone ELSE batch[k]
        /\ \A k \in Sessions : unlocked'[k] = IF k = i THEN taken ELSE unlocked[k]
        /\ batch[i] = {} /\ unlocked[i] = {}
    BY <1>0, <2>1, Types DEF IInv, HandsOK
  <2>6. taken \subseteq Requests
    BY <2>2 DEF In
  <2>7. TypeOK'
    <3>1. /\ batch' \in [Sessions -> SUBSET Requests] /\ unlocked' \in [Sessions -> SUBSET Requests]
          /\ session' \in [Sessions -> {"new", "loading", "awake", "parked", "releasing", "busy", "exited"}]
      BY <2>1, <2>6 DEF IInv, TypeOK
    <3> QED BY <1>0, <2>2, <2>3, <2>4, <3>1, Types DEF IInv, TypeOK, Status, semaphoreVars
  <2>8. HandsOK'
    <3>1. ASSUME NEW k \in Sessions
          PROVE  /\ (session[k] # "releasing" => unlocked[k] = {})'
                 /\ (session[k] \notin {"releasing", "busy"} => batch[k] = {})'
                 /\ (session[k] = "busy" => batch[k] # {})'
                 /\ (batch[k] \subseteq In("running"))'
                 /\ (unlocked[k] \subseteq In("running") \cup In("skipped"))'
      <4>1. CASE k = i
        BY <2>4, <2>5, <4>1
      <4>2. CASE k # i
        BY <2>4, <2>5, <4>2 DEF IInv, HandsOK
      <4> QED BY <4>1, <4>2
    <3>2. \A k \in Sessions : taken \cap Hand(k) = {}
      BY <2>2 DEF IInv, HandsOK, Hand, In
    <3>3. ASSUME NEW k \in Sessions, NEW l \in Sessions, k # l PROVE (Hand(k) \cap Hand(l) = {})'
      BY <2>5, <3>2, <3>3 DEF IInv, HandsOK, Hand
    <3> QED BY <3>1, <3>3 DEF HandsOK
  <2>9. LifeOK'
    <3>1. manager # "starting"
      BY <1>2, Types DEF IInv, LifeOK, In
    <3> QED BY <1>0, <2>5, <3>1, LifeKept
  <2>10. PermitsOK'
    <3>1. UNION {unlocked'[k] : k \in Sessions} = (UNION {unlocked[k] : k \in Sessions}) \cup taken
      BY <2>5
    <3>2. Holders' = Holders
      BY <2>2, <2>4, <3>1 DEF Holders
    <3> QED BY <1>0, <3>2, SameHolders DEF semaphoreVars
  <2>11. NothingStranded'
    BY <1>0, <2>5 DEF IInv, NothingStranded, semaphoreVars
  <2> QED BY <1>0, <2>2, <2>7, <2>8, <2>9, <2>10, <2>11, Types DEF IInv, semaphoreVars
<1> QED BY <1>1, <1>2

LEMMA ReplyStep == ASSUME IInv, NEW i \in Sessions, Reply(i) PROVE IInv'
<1>1. PICK r \in batch[i] :
        /\ request' = [request EXCEPT ![r] = "answered"]
        /\ batch' = [batch EXCEPT ![i] = @ \ {r}]
        /\ session' = [session EXCEPT ![i] = IF batch'[i] = {} THEN "awake" ELSE "busy"]
  BY DEF Reply
<1>2. session[i] = "busy" /\ UNCHANGED <<gone, semaphoreVars, queue, closed, unlocked, manager>>
  BY DEF Reply
<1>3. r \in In("running") /\ r \in Requests /\ unlocked[i] = {}
  BY <1>2 DEF IInv, HandsOK, In
<1>4. /\ request' \in [Requests -> Status]
      /\ In("waiting")' = In("waiting") /\ In("reserved")' = In("reserved")
      /\ In("queued")' = In("queued") /\ In("running")' = In("running") \ {r}
      /\ In("skipped")' = In("skipped")
  BY <1>1, <1>3, Types DEF In, Status, Ended
<1>5. /\ \A k \in Sessions : batch'[k] = IF k = i THEN batch[i] \ {r} ELSE batch[k]
      /\ \A k \in Sessions : session'[k] = IF k # i THEN session[k]
                                           ELSE IF batch'[i] = {} THEN "awake" ELSE "busy"
  BY <1>1, Types
<1>6. TypeOK'
  <2>1. /\ batch' \in [Sessions -> SUBSET Requests]
        /\ session' \in [Sessions -> {"new", "loading", "awake", "parked", "releasing", "busy", "exited"}]
    BY <1>1 DEF IInv, TypeOK
  <2> QED BY <1>2, <1>4, <2>1, Types DEF IInv, TypeOK, Status, semaphoreVars
<1>7. HandsOK'
  <2>1. ASSUME NEW k \in Sessions
        PROVE  /\ (session[k] # "releasing" => unlocked[k] = {})'
               /\ (session[k] \notin {"releasing", "busy"} => batch[k] = {})'
               /\ (session[k] = "busy" => batch[k] # {})'
               /\ (batch[k] \subseteq In("running"))'
               /\ (unlocked[k] \subseteq In("running") \cup In("skipped"))'
    <3>1. CASE k = i
      BY <1>2, <1>3, <1>4, <1>5, <3>1 DEF IInv, HandsOK
    <3>2. CASE k # i
      BY <1>2, <1>4, <1>5, <3>2 DEF IInv, HandsOK, Hand
    <3> QED BY <3>1, <3>2
  <2>2. ASSUME NEW k \in Sessions, NEW l \in Sessions, k # l PROVE (Hand(k) \cap Hand(l) = {})'
    BY <1>2, <1>5, <2>2 DEF IInv, HandsOK, Hand
  <2> QED BY <2>1, <2>2 DEF HandsOK
<1>8. LifeOK'
  <2>1. manager # "starting"
    BY <1>3 DEF IInv, LifeOK, In
  <2> QED BY <1>2, <1>5, <2>1, LifeKept
<1>9. PermitsOK'
  BY <1>2, <1>4, SameHolders DEF Holders, semaphoreVars
<1>10. NothingStranded'
  <2>1. session'[i] \in {"awake", "busy"}
    BY <1>5
  <2> QED BY <1>2, <1>5, <2>1 DEF IInv, NothingStranded, semaphoreVars
<1> QED BY <1>2, <1>6, <1>7, <1>8, <1>9, <1>10, Types DEF IInv, semaphoreVars

LEMMA PanicStep == ASSUME IInv, NEW i \in Sessions, Panic(i) PROVE IInv'
<1>1. /\ session[i] = "busy" /\ Close(batch[i]) /\ WakeAll(i)
      /\ batch' = [batch EXCEPT ![i] = {}] /\ UNCHANGED <<unlocked, manager>>
  BY DEF Panic
<1>2. i \in 0..SessionSize /\ batch[i] \in SUBSET In("running") /\ unlocked[i] = {}
  BY <1>1, QueueAssumption DEF IInv, HandsOK, Sessions
<1>3. batch' \in [Sessions -> SUBSET Requests] /\ batch'[i] = {}
  BY <1>1, Types
<1>4. \A k \in Sessions \ {i} : batch'[k] = batch[k] /\ Hand(k) \cap batch[i] = {}
  BY <1>1 DEF IInv, HandsOK, Hand
<1>5. manager' \in {"starting", "open", "failing", "failed", "dropped"}
  BY <1>1 DEF IInv, TypeOK
<1>6. TypeOK' /\ HandsOK' /\ PermitsOK' /\ NothingStranded'
      /\ waiters' \in Seq(Requests) /\ queue' \in Seq(Requests)
  BY <1>1, <1>2, <1>3, <1>4, <1>5, Closed
<1>7. LifeOK'
  <2>1. closed' = TRUE
    BY <1>1 DEF Close
  <2>2. manager # "starting"
    <3>1. PICK q \in batch[i] : q \in In("running")
      BY <1>1 DEF IInv, HandsOK
    <3> QED BY <3>1 DEF IInv, LifeOK, In
  <2>3. \A k \in Sessions : session[k] # "loading"
    BY <2>2 DEF IInv, LifeOK
  <2> QED BY <1>1, <1>2, <2>1, <2>2, <2>3, LifeAfterClosing
<1> QED BY <1>6, <1>7 DEF IInv

LEMMA ExitStep == ASSUME IInv, NEW i \in Sessions, Exit(i) PROVE IInv'
<1>1. /\ session[i] = "awake" /\ closed /\ session' = [session EXCEPT ![i] = "exited"]
      /\ UNCHANGED <<requestVars, semaphoreVars, queue, closed, batch, unlocked, manager>>
  BY DEF Exit
<1>2. \A k \in Sessions : session'[k] = IF k = i THEN "exited" ELSE session[k]
  BY <1>1, Types
<1>3. TypeOK'
  BY <1>1 DEF IInv, TypeOK, requestVars, semaphoreVars, In
<1>4. HandsOK'
  BY <1>1, <1>2, HandsKept DEF In, requestVars
<1>5. PermitsOK'
  BY <1>1, SameHolders DEF Holders, In, requestVars, semaphoreVars
<1>6. LifeOK'
  <2>1. LifeOK /\ manager # "starting" /\ 1..SessionSize = Sessions
    BY <1>1 DEF IInv, LifeOK, Sessions
  <2>2. ASSUME NEW k \in Sessions, session'[k] # "new", NEW l \in 1..(k - 1)
        PROVE  session'[l] \notin {"new", "loading"}
    <3>1. l \in Sessions /\ session[k] # "new"
      BY <1>1, <1>2, <2>2, QueueAssumption DEF Sessions
    <3>2. session[l] \notin {"new", "loading"}
      BY <2>1, <3>1 DEF LifeOK
    <3> QED BY <1>2, <3>1, <3>2
  <2> QED BY <1>1, <1>2, <2>1, <2>2 DEF LifeOK
<1>7. NothingStranded'
  BY <1>1, <1>2 DEF IInv, NothingStranded, semaphoreVars
<1> QED BY <1>1, <1>3, <1>4, <1>5, <1>6, <1>7, Types DEF IInv, semaphoreVars

LEMMA StartingSteps ==
  ASSUME IInv, NEW i \in Sessions, Spawn(i) \/ Load(i)
  PROVE  IInv'
<1>1. /\ UNCHANGED <<requestVars, semaphoreVars, queue, closed, batch, unlocked>>
      /\ manager = "starting" /\ ~closed
      /\ manager' = IF session[i] = "loading" /\ i = SessionSize THEN "open" ELSE manager
      /\ session' = [session EXCEPT ![i] = IF session[i] = "loading" THEN "awake" ELSE "loading"]
      /\ session[i] \in {"new", "loading"}
      /\ session[i] = "new" => \A k \in 1..(i - 1) : session[k] \notin {"new", "loading"}
  BY DEF Spawn, Load, IInv, LifeOK
<1>2. \A k \in Sessions : session'[k] = IF k # i THEN session[k]
                                       ELSE IF session[i] = "loading" THEN "awake" ELSE "loading"
  BY <1>1, Types
<1>3. TypeOK'
  BY <1>1 DEF IInv, TypeOK, requestVars, semaphoreVars, In
<1>4. HandsOK'
  BY <1>1, <1>2, HandsKept DEF In, requestVars
<1>5. PermitsOK'
  BY <1>1, SameHolders DEF Holders, In, requestVars, semaphoreVars
<1>6. LifeOK'
  <2>1. LifeOK
    BY DEF IInv
  <2>2. \A k \in 1..(i - 1) : session[k] \notin {"new", "loading"}
    BY <1>1, <2>1 DEF LifeOK
  <2>3. ASSUME NEW k \in Sessions, session'[k] # "new", NEW l \in 1..(k - 1)
        PROVE  session'[l] \notin {"new", "loading"}
    <3>1. l \in Sessions /\ k \in Nat /\ i \in Nat /\ l # k
      BY <2>3, QueueAssumption DEF Sessions
    <3>2. CASE k = i
      BY <1>2, <2>2, <3>1, <3>2
    <3>3. CASE k # i
      <4>1. session[k] # "new" /\ session[l] \notin {"new", "loading"}
        BY <1>2, <2>1, <2>3, <3>3 DEF LifeOK
      <4> QED BY <1>1, <1>2, <3>1, <4>1
    <3> QED BY <3>2, <3>3
  <2>4. ASSUME NEW k \in Sessions, session'[k] = "loading" PROVE manager' = "starting"
    <3>1. CASE k = i
      BY <1>1, <1>2, <2>4, <3>1
    <3>2. CASE k # i
      <4>1. session[k] = "loading" /\ k \in Nat /\ i \in Nat
        BY <1>2, <2>4, <3>2 DEF Sessions
      <4>2. CASE k < i
        BY <2>2, <4>1, <4>2 DEF Sessions
      <4>3. CASE i < k
        <5>1. session[i] \notin {"new", "loading"}
          BY <2>1, <4>1, <4>3 DEF LifeOK, Sessions
        <5> QED BY <1>1, <5>1
      <4> QED BY <3>2, <4>1, <4>2, <4>3
    <3> QED BY <3>1, <3>2
  <2>5. manager' = "open" => \A k \in Sessions : session'[k] \notin {"new", "loading"}
    BY <1>1, <1>2, <2>2, QueueAssumption DEF Sessions
  <2>6. /\ ~closed' /\ manager' \in {"starting", "open"}
        /\ \A r \in Requests : request'[r] = "idle"
        /\ \A k \in Sessions : session'[k] # "exited"
    BY <1>1, <1>2, <2>1 DEF LifeOK, requestVars
  <2> QED BY <2>3, <2>4, <2>5, <2>6 DEF LifeOK
<1>7. NothingStranded'
  <2>1. queue = <<>>
    BY <1>1, Types DEF IInv, LifeOK, In
  <2> QED BY <1>1, <2>1 DEF IInv, NothingStranded, semaphoreVars
<1> QED BY <1>1, <1>3, <1>4, <1>5, <1>6, <1>7, Types DEF IInv, semaphoreVars

LEMMA LoadFailsStep == ASSUME IInv, NEW i \in Sessions, LoadFails(i) PROVE IInv'
<1>1. /\ session[i] = "loading" /\ manager' = "failing" /\ Close({}) /\ WakeAll(i)
      /\ UNCHANGED <<batch, unlocked>>
  BY DEF LoadFails
<1>2. i \in 0..SessionSize /\ batch[i] = {} /\ unlocked[i] = {}
  BY <1>1, QueueAssumption DEF IInv, HandsOK, Sessions
<1>3. TypeOK' /\ HandsOK' /\ PermitsOK' /\ NothingStranded'
      /\ waiters' \in Seq(Requests) /\ queue' \in Seq(Requests)
  BY <1>1, <1>2, Types, Closed
<1>4. \A k \in Sessions \ {i} : session[k] # "loading"
  <2>. SUFFICES ASSUME NEW k \in Sessions, k # i, session[k] = "loading" PROVE FALSE
    OBVIOUS
  <2>1. k < i \/ i < k
    BY DEF Sessions
  <2>2. k \in 1..(i - 1) \/ i \in 1..(k - 1)
    BY <2>1, QueueAssumption DEF Sessions
  <2> QED BY <1>1, <2>2 DEF IInv, LifeOK
<1>5. LifeOK'
  <2>1. closed' = TRUE
    BY <1>1 DEF Close
  <2> QED BY <1>1, <1>2, <1>4, <2>1, LifeAfterClosing
<1> QED BY <1>3, <1>5 DEF IInv

LEMMA DropManagerStep == ASSUME IInv, DropManager PROVE IInv'
<1>1. /\ manager = "open" /\ manager' = "dropped" /\ Close({}) /\ WakeAll(0)
      /\ UNCHANGED <<batch, unlocked>>
  BY DEF DropManager
<1>2. 0 \in 0..SessionSize /\ 0 \notin Sessions
  BY QueueAssumption DEF Sessions
<1>3. TypeOK' /\ HandsOK' /\ PermitsOK' /\ NothingStranded'
      /\ waiters' \in Seq(Requests) /\ queue' \in Seq(Requests)
  BY <1>1, <1>2, Types, Closed
<1>4. LifeOK'
  <2>1. closed' = TRUE /\ \A k \in Sessions : session[k] # "loading"
    BY <1>1 DEF Close, IInv, LifeOK
  <2> QED BY <1>1, <1>2, <2>1, LifeAfterClosing
<1> QED BY <1>3, <1>4 DEF IInv

LEMMA JoinThreadsStep == ASSUME IInv, JoinThreads PROVE IInv'
<1>1. /\ manager = "failing" /\ manager' = "failed"
      /\ UNCHANGED <<requestVars, semaphoreVars, queue, closed, sessionVars>>
  BY DEF JoinThreads
<1>2. TypeOK'
  BY <1>1 DEF IInv, TypeOK, requestVars, semaphoreVars, sessionVars, In
<1>3. HandsOK'
  BY <1>1, HandsKept DEF In, requestVars, sessionVars
<1>4. PermitsOK'
  BY <1>1, SameHolders DEF Holders, In, requestVars, semaphoreVars, sessionVars
<1>5. LifeOK'
  BY <1>1 DEF IInv, LifeOK, requestVars, sessionVars
<1>6. NothingStranded'
  BY <1>1 DEF IInv, NothingStranded, semaphoreVars, sessionVars
<1> QED BY <1>1, <1>2, <1>3, <1>4, <1>5, <1>6, Types DEF IInv, semaphoreVars

LEMMA IInvStep == IInv /\ [Next]_vars => IInv'
<1>. SUFFICES ASSUME IInv, [Next]_vars PROVE IInv'
  OBVIOUS
<1>1. CASE UNCHANGED vars
  BY <1>1 DEF vars, requestVars, semaphoreVars, sessionVars, IInv, TypeOK, In, HandsOK, Hand,
     PermitsOK, Holders, LifeOK, NothingStranded
<1>2. CASE DropManager \/ JoinThreads
  BY <1>2, DropManagerStep, JoinThreadsStep
<1>3. ASSUME NEW r \in Requests, Leave(r) \/ Push(r) \/ ProducerStep(r) \/ Drop(r) PROVE IInv'
  BY <1>3, LeaveStep, PushStep, RefuseStep, PublishStep, DropStep DEF ProducerStep
<1>4. ASSUME NEW i \in Sessions, Spawn(i) \/ Load(i) \/ LoadFails(i) \/ SessionStep(i) PROVE IInv'
  BY <1>4, StartingSteps, LoadFailsStep, PopStep, ReleaseStep, ReplyStep, PanicStep, ExitStep
     DEF SessionStep
<1> QED BY <1>1, <1>2, <1>3, <1>4 DEF Next

\* The inductive invariant holds in every state.
THEOREM QueueInvariant == Spec => []IInv
  BY IInvInit, IInvStep, PTL DEF Spec

\* No permit is lost or invented, for any number of producers and sessions.
THEOREM PermitsAreConserved == Spec => []PermitsConserved
<1>1. IInv => PermitsConserved
  <2>. SUFFICES ASSUME IInv PROVE PermitsConserved
    OBVIOUS
  <2>1. \A i \in Sessions :
          /\ unlocked[i] \cap (In("reserved") \cup In("queued")) = {}
          /\ \A k \in Sessions \ {i} : unlocked[i] \cap unlocked[k] = {}
    BY HoldersApart
  <2> QED BY <2>1 DEF IInv, PermitsOK, PermitsConserved
<1> QED BY <1>1, QueueInvariant, PTL

\* No wakeup is lost: neither published work nor free capacity waits for nobody.
THEOREM NoLostWakeup == Spec => []NothingStranded
<1>1. IInv => NothingStranded
  BY DEF IInv
<1> QED BY <1>1, QueueInvariant, PTL

-----------------------------------------------------------------------------
(* The refinement: every step is a step of the calls, or none. *)

LEMMA SameCardinality == \A S : Calls!Cardinality(S) = Cardinality(S)
  BY DEF Calls!Cardinality, Cardinality

\* The call a request is.
Seen(x) == IF x = "idle" THEN "new"
           ELSE IF x \in {"waiting", "reserved"} THEN "pending"
           ELSE IF x = "queued" THEN "admitted" ELSE x

LEMMA CallsSeen == \A r \in Requests : CallOf[r] = Seen(request[r])
<1>. SUFFICES ASSUME NEW r \in Requests PROVE CallOf[r] = Seen(request[r])
  OBVIOUS
<1>1. CASE request[r] = "idle"
  BY <1>1 DEF CallOf, Seen
<1>2. CASE request[r] \in {"waiting", "reserved"}
  BY <1>2 DEF CallOf, Seen
<1>3. CASE request[r] = "queued"
  BY <1>3 DEF CallOf, Seen
<1>4. CASE request[r] \notin {"idle", "waiting", "reserved", "queued"}
  BY <1>4 DEF CallOf, Seen
<1> QED BY <1>1, <1>2, <1>3, <1>4

LEMMA CallsSeenPrime == \A r \in Requests : CallOf'[r] = Seen(request'[r])
<1>1. (\A r \in Requests : CallOf[r] = Seen(request[r]))'
  BY CallsSeen, PTL
<1> QED BY <1>1

LEMMA CallsIn ==
  ASSUME IInv
  PROVE  /\ Calls!In("new") = In("idle") /\ Calls!In("pending") = In("waiting") \cup In("reserved")
         /\ Calls!In("admitted") = In("queued") /\ Calls!In("running") = In("running")
<1>1. \A r \in Requests : request[r] \in Status /\ CallOf[r] = Seen(request[r])
  BY Types, CallsSeen
<1> QED BY <1>1 DEF Calls!In, In, Seen, Status, Ended

\* The calls of S move to "where", the others stay.
LEMMA CallsPut ==
  ASSUME NEW S \in SUBSET Requests, NEW where,
         \A r \in S : Seen(request'[r]) = where,
         \A r \in Requests \ S : Seen(request'[r]) = Seen(request[r])
  PROVE  CallOf' = Calls!Put(S, where)
<1>1. /\ CallOf' = [r \in Requests |-> CallOf'[r]]
      /\ CallOf = [r \in Requests |-> CallOf[r]]
  BY DEF CallOf
<1>2. \A r \in Requests : CallOf'[r] = IF r \in S THEN where ELSE CallOf[r]
  BY CallsSeen, CallsSeenPrime
<1> QED BY <1>1, <1>2 DEF Calls!Put

LEMMA CallsStay ==
  ASSUME \A r \in Requests : Seen(request'[r]) = Seen(request[r]), UNCHANGED <<gone, closed>>
  PROVE  UNCHANGED Calls!vars
<1>1. /\ CallOf' = [r \in Requests |-> CallOf'[r]]
      /\ CallOf = [r \in Requests |-> CallOf[r]]
  BY DEF CallOf
<1>2. \A r \in Requests : CallOf'[r] = CallOf[r]
  BY CallsSeen, CallsSeenPrime
<1> QED BY <1>1, <1>2 DEF Calls!vars

\* The waiters that are given a permit are pending before and after.
LEMMA WokenStayPending ==
  ASSUME IInv, NEW S \in SUBSET Requests, NEW where \in Ended, NEW n \in Nat, MoveAndGiveBack(S, where, n)
  PROVE  /\ \A r \in S : request'[r] = where
         /\ \A r \in Requests \ S : Seen(request'[r]) = Seen(request[r])
<1>1. Woken(n) \subseteq In("waiting")
  BY WokenFirst DEF MoveAndGiveBack
<1>2. \A r \in Requests : request'[r] = IF r \in S THEN where
                           ELSE IF r \in Woken(n) THEN "reserved" ELSE request[r]
  BY DEF MoveAndGiveBack
<1> QED BY <1>1, <1>2 DEF In, Seen

LEMMA ProducerCalls ==
  ASSUME IInv, NEW r \in Requests, Leave(r) \/ Push(r) \/ Refuse(r) \/ Publish(r) \/ Drop(r)
  PROVE  Calls!Next
<1>. USE CallsIn
<1>1. CASE Leave(r)
  BY <1>1 DEF Leave, Calls!Next, Calls!Leave, CallOf
<1>2. CASE Push(r)
  <2>1. /\ request[r] = "idle" /\ UNCHANGED <<gone, closed>>
        /\ request'[r] = IF closed THEN "refused" ELSE IF r \in gone THEN "skipped"
                         ELSE IF free > 0 THEN "reserved" ELSE "waiting"
        /\ \A q \in Requests \ {r} : request'[q] = request[q]
    BY <1>2, Types DEF Push
  <2>2. r \in Calls!In("new") /\ CallOf' = Calls!Put({r}, Seen(request'[r]))
    BY <2>1, CallsPut DEF In
  <2>3. CASE closed
    BY <2>1, <2>2, <2>3 DEF Seen, Calls!Next, Calls!Refuse
  <2>4. CASE ~closed /\ r \in gone
    BY <2>1, <2>2, <2>4 DEF Seen, Calls!Next, Calls!Skip
  <2>5. CASE ~closed /\ r \notin gone
    <3>1. Seen(request'[r]) = "pending"
      BY <2>1, <2>5 DEF Seen
    <3> QED BY <2>1, <2>2, <2>5, <3>1 DEF Calls!Next, Calls!Ask
  <2> QED BY <2>3, <2>4, <2>5
<1>3. CASE Refuse(r)
  <2>1. /\ closed /\ request[r] = "waiting" /\ UNCHANGED <<gone, closed>> /\ request'[r] = "refused"
        /\ \A q \in Requests \ {r} : request'[q] = request[q]
    BY <1>3, Types DEF Refuse
  <2>2. r \in Calls!In("pending") /\ CallOf' = Calls!Put({r}, "refused")
    BY <2>1, CallsPut DEF In, Seen
  <2> QED BY <2>1, <2>2 DEF Calls!Next, Calls!Refuse
<1>4. CASE Publish(r) /\ (r \in gone \/ closed)
  <2>1. PICK end \in {"skipped", "refused"} :
          /\ end = "skipped" => r \in gone
          /\ end = "refused" => closed
          /\ MoveAndGiveBack({r}, end, 1)
    BY <1>4 DEF Publish
  <2>2. CallOf' = Calls!Put({r}, end)
    <3>1. request'[r] = end /\ \A q \in Requests \ {r} : Seen(request'[q]) = Seen(request[q])
      <4>1. end \in Ended /\ {r} \in SUBSET Requests /\ 1 \in Nat
        BY DEF Ended
      <4> QED BY <2>1, <4>1, WokenStayPending
    <3> QED BY <3>1, CallsPut DEF Seen
  <2>3. r \in Calls!In("pending") /\ UNCHANGED <<gone, closed>>
    BY <1>4 DEF Publish, In
  <2> QED BY <2>1, <2>2, <2>3 DEF Calls!Next, Calls!Skip, Calls!Refuse
<1>5. CASE Publish(r) /\ ~(r \in gone \/ closed)
  <2>1. /\ request[r] = "reserved" /\ UNCHANGED <<gone, closed>> /\ request'[r] = "queued"
        /\ \A q \in Requests \ {r} : request'[q] = request[q]
    BY <1>5, Types DEF Publish
  <2>2. r \in Calls!In("pending") /\ CallOf' = Calls!Put({r}, "admitted")
    BY <2>1, CallsPut DEF In, Seen
  <2>3. Cardinality(In("queued")) < Capacity
    <3>1. /\ IsFiniteSet(Holders) /\ free + Cardinality(Holders) = Capacity
          /\ In("queued") \in SUBSET (Holders \ {r}) /\ r \in Holders
      BY <2>1 DEF IInv, PermitsOK, Holders, In
    <3>2. IsFiniteSet(Holders \ {r}) /\ Cardinality(Holders \ {r}) = Cardinality(Holders) - 1
      BY <3>1, FS_RemoveElement
    <3>3. Cardinality(In("queued")) <= Cardinality(Holders \ {r}) /\ IsFiniteSet(In("queued"))
      BY <3>1, <3>2, FS_Subset
    <3>4. Cardinality(In("queued")) \in Nat /\ Cardinality(Holders) \in Nat
      BY <3>1, <3>3, FS_CardinalityType
    <3>5. free \in Nat
      BY Types
    <3> QED BY <3>1, <3>2, <3>3, <3>4, <3>5
  <2>4. Calls!Admit(r)
    <3>1. Calls!Cardinality(Calls!In("admitted")) < Capacity
      BY <2>3, SameCardinality
    <3> QED BY <1>5, <2>1, <2>2, <3>1 DEF Calls!Admit
  <2> QED BY <2>4 DEF Calls!Next
<1>6. CASE Drop(r)
  <2>1. /\ request[r] \in {"waiting", "reserved"} /\ gone' = gone \cup {r} /\ UNCHANGED closed
        /\ r \in Calls!In("pending")
    BY <1>6 DEF Drop, In
  <2>2. request'[r] = "dropped" /\ \A q \in Requests \ {r} : Seen(request'[q]) = Seen(request[q])
    <3>1. CASE request[r] = "reserved"
      BY <1>6, <3>1, WokenStayPending DEF Drop, Ended
    <3>2. CASE request[r] # "reserved"
      BY <1>6, <3>2, Types DEF Drop
    <3> QED BY <3>1, <3>2
  <2>3. CallOf' = Calls!Put({r}, "dropped")
    BY <2>2, CallsPut DEF Seen
  <2> QED BY <2>1, <2>3 DEF Calls!Next, Calls!Drop
<1> QED BY <1>1, <1>2, <1>3, <1>4, <1>5, <1>6

LEMMA ClosingCalls ==
  ASSUME IInv, NEW died \in SUBSET In("running"), Close(died)
  PROVE  Calls!Next
<1>1. /\ closed' = TRUE /\ gone' = gone
      /\ \A r \in Requests : request'[r] = IF r \in died \cup In("queued") THEN "lost" ELSE request[r]
  BY Types DEF Close, Move
<1>2. died \cup In("queued") \in SUBSET Requests
  BY DEF In
<1>3. CallOf' = Calls!Put(died \cup In("queued"), "lost")
  BY <1>1, <1>2, CallsPut DEF Seen
<1> QED BY <1>1, <1>3, CallsIn DEF Calls!Next, Calls!Stop

LEMMA PopCalls ==
  ASSUME IInv, NEW i \in Sessions, Pop(i)
  PROVE  Calls!Next \/ UNCHANGED Calls!vars
<1>0. ~closed /\ UNCHANGED <<gone, closed>>
  BY DEF Pop
<1>1. CASE queue = <<>>
  <2>1. request' = request
    BY <1>1 DEF Pop
  <2> QED BY <1>0, <2>1, CallsStay
<1>2. CASE queue # <<>>
  <2>. DEFINE taken == {queue[j] : j \in 1..Taken}
  <2>1. \A r \in Requests : request'[r] =
          IF r \in taken THEN (IF r \in gone THEN "skipped" ELSE "running") ELSE request[r]
    BY <1>2 DEF Pop
  <2>2. /\ Len(queue) \in Nat /\ ToSet(queue) = {queue[j] : j \in 1..Len(queue)}
        /\ ToSet(queue) = In("queued")
    <3>1. queue \in Seq(Requests) /\ ToSet(queue) = In("queued")
      BY Types
    <3> QED BY <3>1, LineElements
  <2>3. Taken \in 0..Len(queue) /\ IsFiniteSet(Live(Taken)) /\ Cardinality(Live(Taken)) <= BatchLimit
    BY TakesBatch
  <2>4. taken \subseteq In("queued")
    BY <2>2, <2>3
  <2>5. Cardinality(taken \ gone) <= BatchLimit
    <3>. DEFINE f == [j \in Live(Taken) |-> queue[j]]
    <3>1. Live(Taken) \subseteq 1..Taken /\ \A j \in 1..Taken : j \in Live(Taken) <=> queue[j] \notin gone
      BY DEF Live
    <3>2. taken \ gone = {queue[j] : j \in Live(Taken)}
      BY <3>1
    <3>3. f \in Surjection(Live(Taken), taken \ gone)
      BY <3>2 DEF Surjection
    <3>4. IsFiniteSet(taken \ gone) /\ Cardinality(taken \ gone) <= Cardinality(Live(Taken))
      BY <2>3, <3>3, FS_Surjection
    <3>5. Cardinality(taken \ gone) \in Nat /\ Cardinality(Live(Taken)) \in Nat
      BY <2>3, <3>4, FS_CardinalityType
    <3> QED BY <2>3, <3>4, <3>5, QueueAssumption
  <2>. HIDE DEF taken
  <2>6. CallOf' = [r \in Requests |-> IF r \in taken \ gone THEN "running"
                                    ELSE IF r \in taken \cap gone THEN "skipped" ELSE CallOf[r]]
    <3>1. CallOf' = [r \in Requests |-> CallOf'[r]]
      BY DEF CallOf
    <3>2. \A r \in Requests : CallOf'[r] = IF r \in taken \ gone THEN "running"
                                          ELSE IF r \in taken \cap gone THEN "skipped" ELSE CallOf[r]
      BY <2>1, CallsSeen, CallsSeenPrime DEF Seen
    <3> QED BY <3>1, <3>2
  <2>7. Calls!Take
    <3>1. /\ taken \ gone \in SUBSET Calls!In("admitted")
          /\ taken \cap gone \in SUBSET (Calls!In("admitted") \ (taken \ gone))
          /\ taken \cap gone \subseteq gone
      BY <2>4, CallsIn
    <3>. DEFINE S == taken \ gone  T == taken \cap gone
    <3>2. /\ S \in SUBSET Calls!In("admitted") /\ T \in SUBSET (Calls!In("admitted") \ S)
          /\ Calls!Cardinality(S) <= BatchLimit /\ T \subseteq gone
          /\ CallOf' = [r \in Requests |-> IF r \in S THEN "running"
                                          ELSE IF r \in T THEN "skipped" ELSE CallOf[r]]
      BY <2>5, <2>6, <3>1, SameCardinality
    <3>. HIDE DEF S, T
    <3> QED BY <1>0, <3>2 DEF Calls!Take
  <2> QED BY <2>7 DEF Calls!Next
<1> QED BY <1>1, <1>2

\* The queue and its sessions implement what the callers are promised.
THEOREM CallsAreImplemented == Spec => ImplementsCalls
<1>1. Init => Calls!Init
  <2>. SUFFICES ASSUME Init PROVE Calls!Init
    OBVIOUS
  <2>1. CallOf = [r \in Requests |-> CallOf[r]]
    BY DEF CallOf
  <2>2. \A r \in Requests : CallOf[r] = "new"
    BY CallsSeen DEF Init, Seen
  <2> QED BY <2>1, <2>2 DEF Init, Calls!Init
<1>2. ASSUME IInv, [Next]_vars PROVE [Calls!Next]_Calls!vars
  <2>1. CASE UNCHANGED vars
    BY <2>1, CallsStay DEF vars, requestVars
  <2>2. CASE DropManager
    <3>1. {} \in SUBSET In("running") /\ Close({})
      BY <2>2 DEF DropManager
    <3> QED BY <1>2, <3>1, ClosingCalls
  <2>3. CASE JoinThreads
    BY <2>3, CallsStay DEF JoinThreads, requestVars
  <2>4. ASSUME NEW r \in Requests, Leave(r) \/ Push(r) \/ ProducerStep(r) \/ Drop(r)
        PROVE  Calls!Next
    BY <1>2, <2>4, ProducerCalls DEF ProducerStep
  <2>5. ASSUME NEW i \in Sessions, Spawn(i) \/ Load(i) \/ Exit(i) PROVE UNCHANGED Calls!vars
    BY <2>5, CallsStay DEF Spawn, Load, Exit, requestVars
  <2>6. ASSUME NEW i \in Sessions, LoadFails(i) \/ Panic(i) PROVE Calls!Next
    <3>1. {} \in SUBSET In("running") /\ batch[i] \in SUBSET In("running")
      BY <1>2 DEF IInv, HandsOK
    <3> QED BY <1>2, <2>6, <3>1, ClosingCalls DEF LoadFails, Panic
  <2>7. ASSUME NEW i \in Sessions, Pop(i) PROVE [Calls!Next]_Calls!vars
    BY <1>2, <2>7, PopCalls
  <2>8. ASSUME NEW i \in Sessions, Release(i) PROVE UNCHANGED Calls!vars
    <3>1. Cardinality(unlocked[i]) \in Nat
      <4>1. unlocked[i] \in SUBSET Holders /\ IsFiniteSet(Holders)
        BY <1>2 DEF IInv, PermitsOK, Holders
      <4> QED BY <4>1, FS_Subset, FS_CardinalityType
    <3>2. MoveAndGiveBack({}, "skipped", Cardinality(unlocked[i])) /\ UNCHANGED <<gone, closed>>
      BY <2>8 DEF Release, MoveAndGiveBack
    <3>3. \A r \in Requests : Seen(request'[r]) = Seen(request[r])
      BY <1>2, <3>1, <3>2, WokenStayPending DEF Ended
    <3> QED BY <3>2, <3>3, CallsStay
  <2>9. ASSUME NEW i \in Sessions, Reply(i) PROVE Calls!Next
    <3>1. PICK r \in batch[i] : request' = [request EXCEPT ![r] = "answered"]
      BY <2>9 DEF Reply
    <3>2. r \in In("running") /\ r \in Requests
      BY <1>2 DEF IInv, HandsOK, In
    <3>3. request'[r] = "answered" /\ \A q \in Requests \ {r} : request'[q] = request[q]
      BY <1>2, <3>1, <3>2, Types
    <3>4. CallOf' = Calls!Put({r}, "answered") /\ UNCHANGED <<gone, closed>>
      BY <2>9, <3>2, <3>3, CallsPut DEF Seen, Reply
    <3> QED BY <1>2, <3>2, <3>4, CallsIn DEF Calls!Next, Calls!Answer
  <2> QED BY <1>2, <2>1, <2>2, <2>3, <2>4, <2>5, <2>6, <2>7, <2>8, <2>9 DEF Next, SessionStep
<1>3. IInv /\ [Next]_vars => [Calls!Next]_Calls!vars
  BY <1>2
<1> QED BY <1>1, <1>3, QueueInvariant, PTL DEF Spec, ImplementsCalls, Calls!Spec
=============================================================================
