------------------------ MODULE ResultArtifactsProofs ------------------------
(***************************************************************************)
(* A derived file never outlives its result, for any number of results,     *)
(* readers, removals and processes.  The argument is the coordination lock: *)
(* whoever touches the files of a result holds it, so what a build found    *)
(* under the lock (the source exists) still holds when it renames its file, *)
(* and what a removal established (nothing is left) is still so when it     *)
(* acknowledges.                                                            *)
(***************************************************************************)
EXTENDS ResultArtifacts, FiniteSetTheorems, TLAPS

\* What an actor does under the lock of its result.
Inside == {"locked", "building", "hung", "persisted", "unlinked"}

Shapes ==
  /\ source \subseteq Results
  /\ lock \in [Results -> Actors \cup {Nobody}]
  /\ phase \in [Actors -> Phases]
  /\ want \in [Actors -> Results \X Artifacts]

Exclusion == \A a \in Actors : phase[a] \in Inside => lock[Target(a)] = a

BuildsHaveSource ==
  \A a \in Actors : phase[a] \in {"building", "hung", "persisted"} => Target(a) \in source

RemovalsAreDone == \A a \in Actors : phase[a] = "unlinked" => Target(a) \notin source

FilesHaveSource == \A f \in cache : f[1] \in source

\* The inductive invariant.
Coordination ==
  /\ Shapes
  /\ Exclusion
  /\ BuildsHaveSource
  /\ RemovalsAreDone
  /\ FilesHaveSource
  /\ forgotten \cap source = {}

\* The invariant of the runs is a reading of the inductive one.
LEMMA CoordinationIsEnough == Coordination /\ TypeOK => NothingOutlivesTheResult
BY DEF Coordination, FilesHaveSource, NothingOutlivesTheResult, CachesOf

LEMMA InitCoordinates == Init => Coordination
BY ArtifactsAssumption
DEF Init, Coordination, Shapes, Exclusion, BuildsHaveSource, RemovalsAreDone,
    FilesHaveSource, Inside, Phases

\* A step that moves one actor, outside or to where it was entitled to be, and may
\* give back the lock of that actor only, keeps everybody else's lock.
LEMMA OthersKeepTheirLocks ==
  ASSUME Coordination, NEW a \in Actors, Unlock(a), UNCHANGED want,
         NEW b \in Actors, b # a, phase[b] \in Inside
  PROVE  lock'[Target(b)'] = b
<1>1. Target(b) \in Results
  BY DEF Coordination, Shapes, Target
<1> QED BY <1>1 DEF Coordination, Shapes, Exclusion, Unlock, Target

LEMMA UnlockShapes ==
  ASSUME Coordination, NEW a \in Actors, Unlock(a)
  PROVE  lock' \in [Results -> Actors \cup {Nobody}]
BY DEF Coordination, Shapes, Unlock

\* Ending a closure disturbs nothing, whatever the actor has done to the files.
LEMMA EndCoordinates ==
  ASSUME Coordination, NEW a \in Actors, NEW w \in {"done", "waiting", "decode"},
         End(a, w), UNCHANGED <<source, cache, want>>,
         forgotten' \cap source = {}
  PROVE  Coordination'
<1>1. phase' \in [Actors -> Phases] /\ phase'[a] \notin Inside
      /\ \A b \in Actors \ {a} : phase'[b] = phase[b]
  BY DEF Coordination, Shapes, End, Goto, Phases, Inside
<1>2. lock' \in [Results -> Actors \cup {Nobody}]
  BY UnlockShapes DEF End
<1>3. Exclusion'
  BY <1>1, OthersKeepTheirLocks DEF Exclusion, End
<1>4. BuildsHaveSource' /\ RemovalsAreDone'
  BY <1>1 DEF Coordination, BuildsHaveSource, RemovalsAreDone, Target, Inside
<1> QED BY <1>1, <1>2, <1>3, <1>4 DEF Coordination, Shapes, FilesHaveSource

\* Moving to a phase outside the lock disturbs nothing.
LEMMA OutsideCoordinates ==
  ASSUME Coordination, NEW a \in Actors, NEW w \in Phases \ Inside, Goto(a, w),
         UNCHANGED <<source, cache, lock, want, forgotten>>
  PROVE  Coordination'
BY DEF Coordination, Shapes, Goto, Exclusion, BuildsHaveSource, RemovalsAreDone,
       FilesHaveSource, Target, Inside

\* Taking a free lock excludes the others, who hold theirs already.
LEMMA TryLockCoordinates ==
  ASSUME Coordination, NEW a \in Actors, TryLock(a)
  PROVE  Coordination'
<1>1. CASE lock[Target(a)] = Nobody
  <2>1. phase' = [phase EXCEPT ![a] = "locked"] /\ lock' = [lock EXCEPT ![Target(a)] = a]
        /\ UNCHANGED <<source, cache, want, forgotten>>
    BY <1>1 DEF TryLock, Goto
  <2>2. ASSUME NEW b \in Actors, phase'[b] \in Inside
        PROVE  lock'[Target(b)'] = b
    <3>1. Target(b) \in Results /\ Target(a) \in Results /\ Target(b)' = Target(b)
      BY <2>1 DEF Coordination, Shapes, Target
    <3>2. CASE b = a
      BY <3>1, <3>2, <2>1 DEF Coordination, Shapes, Target
    <3>3. CASE b # a
      <4>1. lock[Target(b)] = b
        BY <2>1, <2>2, <3>3 DEF Coordination, Shapes, Exclusion
      <4>2. Target(b) # Target(a)
        BY <1>1, <4>1, ArtifactsAssumption
      <4> QED BY <2>1, <3>1, <4>1, <4>2 DEF Coordination, Shapes
    <3> QED BY <3>2, <3>3
  <2>3. Exclusion'
    BY <2>2 DEF Exclusion
  <2> QED BY <2>1, <2>3 DEF Coordination, Shapes, BuildsHaveSource, RemovalsAreDone,
             FilesHaveSource, Target, Phases
<1>2. CASE lock[Target(a)] # Nobody
  <2>1. End(a, "waiting") /\ UNCHANGED <<source, cache, want, forgotten>>
    BY <1>2 DEF TryLock
  <2> QED BY <2>1, EndCoordinates DEF Coordination
<1> QED BY <1>1, <1>2

LEMMA EnterCoordinates ==
  ASSUME Coordination, NEW r \in Readers, Enter(r)
  PROVE  Coordination'
<1>1. r \in Actors
  BY DEF Actors
<1>2. CASE Cached(r)
  <2>1. End(r, Served(r)) /\ Served(r) \in {"done", "waiting", "decode"}
        /\ UNCHANGED <<source, cache, want, forgotten>>
    BY <1>2 DEF Enter, Served
  <2> QED BY <1>1, <2>1, EndCoordinates DEF Coordination
<1>3. CASE ~Cached(r)
  <2>1. Goto(r, "trying") /\ UNCHANGED <<source, cache, lock, want, forgotten>>
    BY <1>3 DEF Enter
  <2> QED BY <1>1, <2>1, OutsideCoordinates DEF Phases, Inside
<1> QED BY <1>2, <1>3

\* The source is looked at under the lock, which the build keeps.
LEMMA OpenCoordinates ==
  ASSUME Coordination, NEW r \in Readers, Open(r)
  PROVE  Coordination'
<1>1. r \in Actors
  BY DEF Actors
<1>2. CASE Target(r) \in source /\ ~Cached(r)
  <2>1. phase' = [phase EXCEPT ![r] = "building"] /\ phase[r] = "locked"
        /\ UNCHANGED <<source, cache, lock, want, forgotten>>
    BY <1>2 DEF Open, Goto
  <2> QED BY <1>1, <1>2, <2>1 DEF Coordination, Shapes, Exclusion, BuildsHaveSource,
             RemovalsAreDone, FilesHaveSource, Target, Inside, Phases
<1>3. CASE Target(r) \notin source
  <2>1. End(r, "done") /\ UNCHANGED <<source, cache, want, forgotten>>
    BY <1>3 DEF Open
  <2> QED BY <1>1, <2>1, EndCoordinates DEF Coordination
<1>4. CASE Target(r) \in source /\ Cached(r)
  <2>1. End(r, Served(r)) /\ Served(r) \in {"done", "waiting", "decode"}
        /\ UNCHANGED <<source, cache, want, forgotten>>
    BY <1>4 DEF Open, Served
  <2> QED BY <1>1, <2>1, EndCoordinates DEF Coordination
<1> QED BY <1>2, <1>3, <1>4

LEMMA ReaderCoordinates ==
  ASSUME Coordination, NEW r \in Readers, Ask(r) \/ Reader(r) \/ Hang(r)
  PROVE  Coordination'
<1>1. r \in Actors
  BY DEF Actors
<1>2. CASE Ask(r)
  BY <1>1, <1>2, OutsideCoordinates DEF Ask, Phases, Inside
<1>3. CASE CheckCache(r)
  <2>1. PICK w \in {"decode", "done", "waiting"} : Goto(r, w)
    BY <1>3 DEF CheckCache, Served
  <2> QED BY <1>1, <1>3, <2>1, OutsideCoordinates DEF CheckCache, Phases, Inside
<1>4. CASE Admit(r)
  BY <1>1, <1>4, OutsideCoordinates DEF Admit, Phases, Inside
<1>5. CASE Enter(r)
  BY <1>5, EnterCoordinates
<1>6. CASE TryLock(r)
  BY <1>1, <1>6, TryLockCoordinates
<1>7. CASE Open(r)
  BY <1>7, OpenCoordinates
<1>8. CASE Persist(r)
  <2>1. phase[r] = "building" /\ phase' = [phase EXCEPT ![r] = "persisted"]
        /\ cache' = cache \cup {want[r]} /\ UNCHANGED <<source, lock, want, forgotten>>
    BY <1>8 DEF Persist, Goto
  <2>2. FilesHaveSource'
    BY <1>1, <2>1 DEF Coordination, FilesHaveSource, BuildsHaveSource, Target
  <2> QED BY <1>1, <2>1, <2>2 DEF Coordination, Shapes, Exclusion, BuildsHaveSource,
             RemovalsAreDone, Target, Inside, Phases
<1>9. CASE BuildFails(r)
  BY <1>1, <1>9, EndCoordinates DEF BuildFails, Coordination
<1>10. CASE BuildReturns(r)
  <2>1. Served(r) \in {"done", "waiting", "decode"}
    BY DEF Served
  <2> QED BY <1>1, <1>10, <2>1, EndCoordinates DEF BuildReturns, Coordination
<1>11. CASE Decode(r)
  BY <1>1, <1>11, OutsideCoordinates DEF Decode, Phases, Inside
<1>12. CASE Answer(r)
  BY <1>1, <1>12, EndCoordinates DEF Answer, Coordination
<1>13. CASE Hang(r)
  <2>1. phase[r] = "building" /\ phase' = [phase EXCEPT ![r] = "hung"]
        /\ UNCHANGED <<source, cache, lock, want, forgotten>>
    BY <1>13 DEF Hang, Goto
  <2> QED BY <1>1, <2>1 DEF Coordination, Shapes, Exclusion, BuildsHaveSource,
             RemovalsAreDone, FilesHaveSource, Target, Inside, Phases
<1> QED BY <1>2, <1>3, <1>4, <1>5, <1>6, <1>7, <1>8, <1>9, <1>10, <1>11, <1>12, <1>13
        DEF Reader, Build

\* The source goes last, when no derived file is left and nobody else is inside.
LEMMA RemoveSourceCoordinates ==
  ASSUME Coordination, NEW d \in Removers, RemoveSource(d)
  PROVE  Coordination'
<1>1. d \in Actors
  BY DEF Actors
<1>2. phase[d] = "locked" /\ phase' = [phase EXCEPT ![d] = "unlinked"]
      /\ CachesOf(Target(d)) = {} /\ source' = source \ {Target(d)}
      /\ UNCHANGED <<cache, lock, want, forgotten>>
  BY DEF RemoveSource, Goto
<1>3. FilesHaveSource'
  BY <1>2 DEF Coordination, FilesHaveSource, CachesOf
<1>4. ASSUME NEW b \in Actors, phase'[b] \in {"building", "hung", "persisted"}
      PROVE  Target(b)' \in source'
  <2>1. b # d /\ phase[b] \in Inside /\ Target(b) \in source /\ Target(b)' = Target(b)
    BY <1>1, <1>2, <1>4 DEF Coordination, Shapes, BuildsHaveSource, Inside, Target
  <2>2. lock[Target(b)] = b /\ lock[Target(d)] = d
    BY <1>1, <1>2, <2>1 DEF Coordination, Exclusion, Inside
  <2> QED BY <1>2, <2>1, <2>2
<1>5. BuildsHaveSource'
  BY <1>4 DEF BuildsHaveSource
<1>6. Exclusion' /\ RemovalsAreDone'
  BY <1>1, <1>2 DEF Coordination, Shapes, Exclusion, RemovalsAreDone, Target, Inside
<1> QED BY <1>1, <1>2, <1>3, <1>5, <1>6 DEF Coordination, Shapes, Phases

LEMMA RemoverCoordinates ==
  ASSUME Coordination, NEW d \in Removers, Remove(d) \/ Cleanup(d)
  PROVE  Coordination'
<1>1. d \in Actors
  BY DEF Actors
<1>2. CASE Remove(d)
  BY <1>1, <1>2, OutsideCoordinates DEF Remove, Phases, Inside
<1>3. CASE TryAgain(d)
  BY <1>1, <1>3, OutsideCoordinates DEF TryAgain, Phases, Inside
<1>4. CASE TryLock(d)
  BY <1>1, <1>4, TryLockCoordinates
<1>5. CASE Unlink(d)
  BY <1>5 DEF Unlink, Coordination, Shapes, Exclusion, BuildsHaveSource, RemovalsAreDone,
              FilesHaveSource, Target
<1>6. CASE RemoveSource(d)
  BY <1>6, RemoveSourceCoordinates
<1>7. CASE Acknowledge(d)
  <2>1. Target(d) \notin source
    BY <1>1, <1>7 DEF Acknowledge, Coordination, RemovalsAreDone
  <2>2. forgotten' \cap source = {}
    BY <1>7, <2>1 DEF Acknowledge, Coordination
  <2> QED BY <1>1, <1>7, <2>2, EndCoordinates DEF Acknowledge
<1>8. CASE RemovalFails(d)
  BY <1>1, <1>8, EndCoordinates DEF RemovalFails, Coordination
<1> QED BY <1>2, <1>3, <1>4, <1>5, <1>6, <1>7, <1>8 DEF Cleanup

LEMMA LeaveCoordinates ==
  ASSUME Coordination, NEW a \in Actors, Leave(a)
  PROVE  Coordination'
<1>1. CASE phase[a] \in Running
  BY <1>1 DEF Leave, Coordination, Shapes, Exclusion, BuildsHaveSource, RemovalsAreDone,
              FilesHaveSource, Target
<1>2. CASE phase[a] \notin Running
  BY <1>2, OutsideCoordinates DEF Leave, Phases, Inside
<1> QED BY <1>1, <1>2

\* A dead process loses its locks and everybody inside them together.
LEMMA CrashCoordinates ==
  ASSUME Coordination, NEW p \in Replicas, Crash(p)
  PROVE  Coordination'
<1> DEFINE lost == {a \in Actors : Home[a] = p /\ phase[a] # "idle"}
<1>1. /\ phase' = [a \in Actors |-> IF a \in lost THEN "done" ELSE phase[a]]
      /\ lock' = [n \in Results |-> IF lock[n] \in lost THEN Nobody ELSE lock[n]]
      /\ UNCHANGED <<source, cache, want, forgotten>>
  BY DEF Crash
<1>2. Shapes'
  BY <1>1 DEF Coordination, Shapes, Phases
<1>3. ASSUME NEW b \in Actors, phase'[b] \in Inside
      PROVE  b \notin lost /\ phase'[b] = phase[b]
  BY <1>1, <1>3 DEF Inside
<1>4. ASSUME NEW b \in Actors, phase'[b] \in Inside
      PROVE  lock'[Target(b)'] = b
  <2>1. b \notin lost /\ phase[b] \in Inside
    BY <1>3, <1>4
  <2>2. lock[Target(b)] = b /\ Target(b) \in Results /\ Target(b)' = Target(b)
    BY <1>1, <2>1 DEF Coordination, Exclusion, Shapes, Target
  <2>3. lock'[Target(b)] = IF lock[Target(b)] \in lost THEN Nobody ELSE lock[Target(b)]
    BY <1>1, <2>2
  <2> QED BY <2>1, <2>2, <2>3
<1>5. Exclusion'
  BY <1>4 DEF Exclusion
<1>6. BuildsHaveSource' /\ RemovalsAreDone'
  BY <1>1, <1>3 DEF Coordination, BuildsHaveSource, RemovalsAreDone, Target, Inside
<1> QED BY <1>1, <1>2, <1>5, <1>6 DEF Coordination, FilesHaveSource

LEMMA StepsCoordinate == Coordination /\ [Next]_vars => Coordination'
<1> SUFFICES ASSUME Coordination, [Next]_vars PROVE Coordination'
  OBVIOUS
<1>1. ASSUME NEW r \in Readers, Ask(r) \/ Reader(r) \/ Hang(r) PROVE Coordination'
  BY <1>1, ReaderCoordinates
<1>2. ASSUME NEW d \in Removers, Remove(d) \/ Cleanup(d) PROVE Coordination'
  BY <1>2, RemoverCoordinates
<1>3. ASSUME NEW a \in Actors, Leave(a) PROVE Coordination'
  BY <1>3, LeaveCoordinates
<1>4. ASSUME NEW p \in Replicas, Crash(p) PROVE Coordination'
  BY <1>4, CrashCoordinates
<1>5. CASE UNCHANGED vars
  BY <1>5 DEF vars, Coordination, Shapes, Exclusion, BuildsHaveSource, RemovalsAreDone,
              FilesHaveSource, Target
<1> QED BY <1>1, <1>2, <1>3, <1>4, <1>5 DEF Next

-----------------------------------------------------------------------------
(* Permits and threads: a set of readers grows by one reader at a time, who looked
   whether there was room. *)

LEMMA RoomForOne ==
  ASSUME NEW S, IsFiniteSet(S), NEW T, NEW a, NEW n \in Nat, T \subseteq S \cup {a},
         Cardinality(S) <= n, a \in T => a \in S \/ Cardinality(S) < n
  PROVE  Cardinality(T) <= n
<1>1. CASE T \subseteq S
  BY <1>1, FS_Subset, FS_CardinalityType
<1>2. CASE ~(T \subseteq S)
  <2>1. a \in T /\ a \notin S /\ Cardinality(S) < n
    BY <1>2
  <2>2. IsFiniteSet(S \cup {a}) /\ Cardinality(S \cup {a}) = Cardinality(S) + 1
    BY <2>1, FS_AddElement
  <2>3. Cardinality(T) <= Cardinality(S \cup {a}) /\ Cardinality(T) \in Nat
    BY <2>2, FS_Subset, FS_CardinalityType
  <2>4. Cardinality(S) \in Nat
    BY FS_CardinalityType
  <2> QED BY <2>1, <2>2, <2>3, <2>4
<1> QED BY <1>1, <1>2

PermitPhases == {"queued", "trying", "locked", "building", "hung", "persisted"}

LEMMA FinitelyMany ==
  ASSUME NEW r \in Readers
  PROVE  IsFiniteSet(Permits(r)) /\ IsFiniteSet(Busy(r))
BY ArtifactsAssumption, FS_Subset DEF Permits, Busy, Colleagues

\* An actor that moves alone, and only where there was room, overdraws nothing.
LEMMA MoveKeepsBounds ==
  ASSUME TypeOK, NEW a \in Actors, NEW w \in Phases, Goto(a, w),
         a \in Readers /\ w \in PermitPhases =>
           phase[a] \in PermitPhases \/ Cardinality(Permits(a)) < ArtifactPermits,
         a \in Readers /\ w \in Running =>
           phase[a] \in Running \/ Cardinality(Busy(a)) < Threads,
         NEW r \in Readers
  PROVE  Cardinality(Permits(r)') <= ArtifactPermits /\ Cardinality(Busy(r)') <= Threads
<1>1. r \in Actors /\ \A b \in Readers : b \in Actors
  BY DEF Actors
<1>2. /\ phase \in [Actors -> Phases] /\ phase' = [phase EXCEPT ![a] = w]
      /\ ArtifactPermits \in Nat /\ Threads \in Nat
      /\ Cardinality(Permits(r)) <= ArtifactPermits /\ Cardinality(Busy(r)) <= Threads
  BY ArtifactsAssumption DEF TypeOK, Goto
<1>3. Cardinality(Permits(r)') <= ArtifactPermits
  <2>1. Permits(r)' \subseteq Permits(r) \cup {a}
    BY <1>1, <1>2 DEF Permits, Colleagues
  <2>2. ASSUME a \in Permits(r)'
        PROVE  a \in Permits(r) \/ Cardinality(Permits(r)) < ArtifactPermits
    <3>1. a \in Readers /\ Home[a] = Home[r] /\ w \in PermitPhases
      BY <1>2, <2>2 DEF Permits, Colleagues, PermitPhases
    <3>2. Permits(a) = Permits(r)
      BY <3>1 DEF Permits, Colleagues
    <3>3. phase[a] \in PermitPhases => a \in Permits(r)
      BY <3>1 DEF Permits, Colleagues, PermitPhases
    <3> QED BY <3>1, <3>2, <3>3
  <2> QED BY <1>2, <2>1, <2>2, RoomForOne, FinitelyMany
<1>4. Cardinality(Busy(r)') <= Threads
  <2>1. Busy(r)' \subseteq Busy(r) \cup {a}
    BY <1>1, <1>2 DEF Busy, Colleagues
  <2>2. ASSUME a \in Busy(r)'
        PROVE  a \in Busy(r) \/ Cardinality(Busy(r)) < Threads
    <3>1. a \in Readers /\ Home[a] = Home[r] /\ w \in Running
      BY <1>2, <2>2 DEF Busy, Colleagues
    <3>2. Busy(a) = Busy(r)
      BY <3>1 DEF Busy, Colleagues
    <3>3. phase[a] \in Running => a \in Busy(r)
      BY <3>1 DEF Busy, Colleagues
    <3> QED BY <3>1, <3>2, <3>3
  <2> QED BY <1>2, <2>1, <2>2, RoomForOne, FinitelyMany
<1> QED BY <1>3, <1>4

\* What every move has to respect.
Ranges ==
  /\ source \subseteq Results /\ cache \subseteq Results \X Artifacts
  /\ lock \in [Results -> Actors \cup {Nobody}] /\ forgotten \subseteq Results

LEMMA MoveKeepsType ==
  ASSUME TypeOK, NEW a \in Actors, NEW w \in Phases, Goto(a, w), UNCHANGED want, Ranges',
         left' \subseteq left, a \in left' => w \in Running,
         a \in Readers /\ w \in PermitPhases =>
           phase[a] \in PermitPhases \/ Cardinality(Permits(a)) < ArtifactPermits,
         a \in Readers /\ w \in Running =>
           phase[a] \in Running \/ Cardinality(Busy(a)) < Threads
  PROVE  TypeOK'
<1>1. phase' \in [Actors -> Phases] /\ want' \in Wants
  BY DEF TypeOK, Goto
<1>2. left' \subseteq {b \in Actors : phase'[b] \in Running}
  BY DEF TypeOK, Goto
<1>3. \A r \in Readers : Cardinality(Permits(r)') <= ArtifactPermits
                         /\ Cardinality(Busy(r)') <= Threads
  BY MoveKeepsBounds
<1> QED BY <1>1, <1>2, <1>3 DEF TypeOK, Ranges

\* The phases an ended closure leads to need neither permit nor thread.
LEMMA EndKeepsType ==
  ASSUME TypeOK, NEW a \in Actors, NEW w \in {"done", "waiting", "decode"}, End(a, w),
         UNCHANGED <<source, cache, want>>, forgotten' \subseteq Results
  PROVE  TypeOK'
<1>1. PICK v \in {"done", "waiting", "decode"} : Goto(a, v)
  BY DEF End
<1>2. v \in Phases /\ v \notin PermitPhases /\ v \notin Running
  BY DEF Phases, PermitPhases, Running
<1>3. left' \subseteq left /\ a \notin left'
  BY DEF End
<1>4. Ranges'
  BY DEF TypeOK, Ranges, End, Unlock
<1> QED BY <1>1, <1>2, <1>3, <1>4, MoveKeepsType

LEMMA ReaderKeepsType ==
  ASSUME TypeOK, Coordination, NEW r \in Readers, Ask(r) \/ Reader(r) \/ Hang(r)
  PROVE  TypeOK'
<1>1. r \in Actors /\ r \in Readers /\ Target(r) \in Results /\ want[r] \in Results \X Artifacts
  BY DEF Actors, Coordination, Shapes, Target
<1>2. Ranges /\ (phase[r] \notin Running => r \notin left)
  BY DEF TypeOK, Ranges
<1>3. Served(r) \in {"done", "decode"}
  BY DEF Served
<1>4. CASE Ask(r)
  BY <1>1, <1>2, <1>4, MoveKeepsType DEF Ask, Ranges, Phases, PermitPhases, Running
<1>5. CASE CheckCache(r)
  <2>1. PICK w \in {"decode", "done", "waiting"} : Goto(r, w)
    BY <1>3, <1>5 DEF CheckCache
  <2>2. w \in Phases /\ w \notin PermitPhases /\ w \notin Running /\ r \notin left'
        /\ left' = left /\ UNCHANGED want /\ Ranges'
    BY <1>2, <1>5 DEF CheckCache, Ranges, Phases, PermitPhases, Running
  <2> QED BY <1>1, <2>1, <2>2, MoveKeepsType
<1>6. CASE Admit(r)
  BY <1>1, <1>2, <1>6, MoveKeepsType DEF Admit, Ranges, Phases, PermitPhases, Running
<1>7. CASE Enter(r)
  <2>1. CASE Cached(r)
    BY <1>1, <1>2, <1>3, <1>7, <2>1, EndKeepsType DEF Enter, Ranges
  <2>2. CASE ~Cached(r)
    BY <1>1, <1>2, <1>7, <2>2, MoveKeepsType DEF Enter, Ranges, Phases, PermitPhases, Running
  <2> QED BY <2>1, <2>2
<1>8. CASE TryLock(r)
  <2>1. CASE lock[Target(r)] = Nobody
    BY <1>1, <1>2, <1>8, <2>1, MoveKeepsType
    DEF TryLock, Ranges, Phases, PermitPhases, Running
  <2>2. CASE lock[Target(r)] # Nobody
    BY <1>1, <1>2, <1>8, <2>2, EndKeepsType DEF TryLock, Ranges
  <2> QED BY <2>1, <2>2
<1>9. CASE Open(r)
  <2>1. CASE Target(r) \in source /\ ~Cached(r)
    BY <1>1, <1>2, <1>9, <2>1, MoveKeepsType DEF Open, Ranges, Phases, PermitPhases, Running
  <2>2. CASE ~(Target(r) \in source /\ ~Cached(r))
    BY <1>1, <1>2, <1>3, <1>9, <2>2, EndKeepsType DEF Open, Ranges
  <2> QED BY <2>1, <2>2
<1>10. CASE Persist(r)
  BY <1>1, <1>2, <1>10, MoveKeepsType DEF Persist, Ranges, Phases, PermitPhases, Running
<1>11. CASE BuildFails(r)
  BY <1>1, <1>2, <1>11, EndKeepsType DEF BuildFails, Ranges
<1>12. CASE BuildReturns(r)
  BY <1>1, <1>2, <1>3, <1>12, EndKeepsType DEF BuildReturns, Ranges
<1>13. CASE Decode(r)
  BY <1>1, <1>2, <1>13, MoveKeepsType DEF Decode, Ranges, Phases, PermitPhases, Running
<1>14. CASE Answer(r)
  BY <1>1, <1>2, <1>14, EndKeepsType DEF Answer, Ranges
<1>15. CASE Hang(r)
  BY <1>1, <1>2, <1>15, MoveKeepsType DEF Hang, Ranges, Phases, PermitPhases, Running
<1> QED BY <1>4, <1>5, <1>6, <1>7, <1>8, <1>9, <1>10, <1>11, <1>12, <1>13, <1>14, <1>15
        DEF Reader, Build

LEMMA RemoverKeepsType ==
  ASSUME TypeOK, Coordination, NEW d \in Removers, Remove(d) \/ Cleanup(d)
  PROVE  TypeOK'
<1>1. d \in Actors /\ d \notin Readers /\ Target(d) \in Results
  BY ArtifactsAssumption DEF Actors, Coordination, Shapes, Target
<1>2. Ranges /\ (phase[d] \notin Running => d \notin left)
  BY DEF TypeOK, Ranges
<1>3. CASE Remove(d)
  BY <1>1, <1>2, <1>3, MoveKeepsType DEF Remove, Ranges, Phases, Running
<1>4. CASE TryAgain(d)
  BY <1>1, <1>2, <1>4, MoveKeepsType DEF TryAgain, Ranges, Phases, Running
<1>5. CASE TryLock(d)
  <2>1. CASE lock[Target(d)] = Nobody
    BY <1>1, <1>2, <1>5, <2>1, MoveKeepsType DEF TryLock, Ranges, Phases, Running
  <2>2. CASE lock[Target(d)] # Nobody
    BY <1>1, <1>2, <1>5, <2>2, EndKeepsType DEF TryLock, Ranges
  <2> QED BY <2>1, <2>2
<1>6. CASE Unlink(d)
  BY <1>6 DEF Unlink, TypeOK, Permits, Busy, Colleagues
<1>7. CASE RemoveSource(d)
  BY <1>1, <1>2, <1>7, MoveKeepsType DEF RemoveSource, Ranges, Phases, Running
<1>8. CASE Acknowledge(d)
  BY <1>1, <1>2, <1>8, EndKeepsType DEF Acknowledge, Ranges
<1>9. CASE RemovalFails(d)
  BY <1>1, <1>2, <1>9, EndKeepsType DEF RemovalFails, Ranges
<1> QED BY <1>3, <1>4, <1>5, <1>6, <1>7, <1>8, <1>9 DEF Cleanup

LEMMA LeaveKeepsType ==
  ASSUME TypeOK, NEW a \in Actors, Leave(a)
  PROVE  TypeOK'
<1>1. CASE phase[a] \in Running
  BY <1>1 DEF Leave, TypeOK, Permits, Busy, Colleagues
<1>2. CASE phase[a] \notin Running
  <2>1. a \notin left /\ Ranges
    BY <1>2 DEF TypeOK, Ranges
  <2> QED BY <1>2, <2>1, MoveKeepsType DEF Leave, Ranges, Phases, PermitPhases, Running
<1> QED BY <1>1, <1>2

\* A crash only takes away.
LEMMA CrashKeepsType ==
  ASSUME TypeOK, NEW p \in Replicas, Crash(p)
  PROVE  TypeOK'
<1> DEFINE lost == {a \in Actors : Home[a] = p /\ phase[a] # "idle"}
<1>1. /\ phase' = [a \in Actors |-> IF a \in lost THEN "done" ELSE phase[a]]
      /\ lock' = [n \in Results |-> IF lock[n] \in lost THEN Nobody ELSE lock[n]]
      /\ left' = left \ lost /\ UNCHANGED <<source, cache, want, forgotten>>
  BY DEF Crash
<1>2. phase' \in [Actors -> Phases] /\ lock' \in [Results -> Actors \cup {Nobody}]
  BY <1>1 DEF TypeOK, Phases
<1>3. left' \subseteq {a \in Actors : phase'[a] \in Running}
  BY <1>1 DEF TypeOK
<1>4. ASSUME NEW r \in Readers
      PROVE  Cardinality(Permits(r)') <= ArtifactPermits /\ Cardinality(Busy(r)') <= Threads
  <2>1. Permits(r)' \subseteq Permits(r) /\ Busy(r)' \subseteq Busy(r)
    <3>1. \A b \in Readers : phase'[b] = "done" \/ phase'[b] = phase[b]
      BY <1>1 DEF Actors
    <3> QED BY <3>1 DEF Permits, Busy, Colleagues, Running
  <2>2. /\ Cardinality(Permits(r)) <= ArtifactPermits /\ Cardinality(Busy(r)) <= Threads
        /\ ArtifactPermits \in Nat /\ Threads \in Nat
    BY ArtifactsAssumption DEF TypeOK
  <2>3. Cardinality(Permits(r)') <= ArtifactPermits
    BY <2>1, <2>2, FinitelyMany, RoomForOne
  <2>4. Cardinality(Busy(r)') <= Threads
    BY <2>1, <2>2, FinitelyMany, RoomForOne
  <2> QED BY <2>3, <2>4
<1> QED BY <1>1, <1>2, <1>3, <1>4 DEF TypeOK

LEMMA InitIsTyped == Init => TypeOK
<1> SUFFICES ASSUME Init PROVE TypeOK
  OBVIOUS
<1>1. \A r \in Readers : Permits(r) = {} /\ Busy(r) = {}
  BY DEF Init, Permits, Busy, Colleagues, Running, Actors
<1>2. \A r \in Readers : Cardinality(Permits(r)) <= ArtifactPermits
                      /\ Cardinality(Busy(r)) <= Threads
  <2>1. Cardinality({}) = 0 /\ ArtifactPermits \in Nat /\ Threads \in Nat
    BY FS_EmptySet, ArtifactsAssumption
  <2> QED BY <1>1, <2>1
<1>3. /\ source \subseteq Results /\ cache \subseteq Results \X Artifacts
      /\ lock \in [Results -> Actors \cup {Nobody}] /\ phase \in [Actors -> Phases]
      /\ want \in Wants /\ left = {} /\ forgotten \subseteq Results
  BY DEF Init, Phases
<1> QED BY <1>2, <1>3 DEF TypeOK

LEMMA StepsKeepType == TypeOK /\ Coordination /\ [Next]_vars => TypeOK'
<1> SUFFICES ASSUME TypeOK, Coordination, [Next]_vars PROVE TypeOK'
  OBVIOUS
<1>1. CASE UNCHANGED vars
  BY <1>1 DEF vars, TypeOK, Permits, Busy, Colleagues
<1> QED BY <1>1, ReaderKeepsType, RemoverKeepsType, LeaveKeepsType, CrashKeepsType DEF Next

\* No derived file outlives its result, and an acknowledged removal has left nothing:
\* SharedStorage::remove against every build, retry, early leave and crash.
THEOREM ResultsLeaveNothing == Spec => []NothingOutlivesTheResult
<1>1. Init => Coordination
  BY InitCoordinates
<1>2. Coordination /\ [Next]_vars => Coordination'
  BY StepsCoordinate
<1>3. Init => TypeOK
  BY InitIsTyped
<1>4. TypeOK /\ Coordination /\ [Next]_vars => TypeOK'
  BY StepsKeepType
<1>5. Coordination /\ TypeOK => NothingOutlivesTheResult
  BY CoordinationIsEnough
<1> QED BY <1>1, <1>2, <1>3, <1>4, <1>5, PTL DEF Spec
=============================================================================
