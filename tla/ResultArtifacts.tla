--------------------------- MODULE ResultArtifacts ---------------------------
(***************************************************************************)
(* Files derived from a published result (service/result_files.rs) against  *)
(* the removal of the result (storage.rs): replicas share a directory and   *)
(* one coordination lock per result; each process admits a few builds and   *)
(* runs them, and the decoding of page indexes, on a small CPU pool.        *)
(***************************************************************************)
EXTENDS FiniteSets, Integers

CONSTANTS
  Results,         \* published results; their names are never reused
  Readers,         \* result requests that need a derived file; each asks once
  Removers,        \* removals, from delete handlers and sweeps; each runs once
  Replicas, Home,  \* API processes, and the process of each reader and remover
  Wants,           \* what they may be after: functions of them to results and artifacts
  ArtifactPermits, \* builds admitted per process (ARTIFACT_PERMITS)
  Threads          \* threads of the process's HTTP CPU pool

Actors == Readers \cup Removers
Nobody == "nobody"
Artifacts == {"index", "markdown"}

ASSUME ArtifactsAssumption ==
  /\ Readers \cap Removers = {} /\ Nobody \notin Actors /\ Home \in [Actors -> Replicas]
  /\ IsFiniteSet(Readers)
  /\ Wants \subseteq [Actors -> Results \X Artifacts] /\ Wants # {}
  /\ ArtifactPermits \in Nat \ {0} /\ Threads \in Nat \ {0}

VARIABLES
  source,  \* results whose JSON file exists
  cache,   \* derived files that exist: pairs of a result and an artifact
  lock,    \* lock[n]: who holds the coordination lock of n
  phase,   \* phase[a]: how far an actor's operation has come
  want,    \* want[a]: the result and the artifact it is about
  left,    \* actors whose caller left while their closure was running
  forgotten \* results whose removal was acknowledged

vars == <<source, cache, lock, phase, want, left, forgotten>>

Phases == {"idle", "asked", "waiting", "queued", "trying", "locked", "building", "hung",
           "persisted", "unlinked", "decode", "decoding", "done"}
Running == {"trying", "locked", "building", "hung", "persisted", "unlinked", "decoding"}

Target(a) == want[a][1]
Cached(a) == want[a] \in cache
CachesOf(n) == {f \in cache : f[1] = n}
Colleagues(a) == {b \in Readers : Home[b] = Home[a]}

\* A build keeps its permit until its closure ends, a decoding needs none.
Permits(a) == {b \in Colleagues(a) :
  phase[b] \in {"queued", "trying", "locked", "building", "hung", "persisted"}}
Busy(a) == {b \in Colleagues(a) : phase[b] \in Running}

Init ==
  /\ source = Results /\ cache = {} /\ forgotten = {} /\ left = {}
  /\ lock = [n \in Results |-> Nobody]
  /\ phase = [a \in Actors |-> "idle"]
  /\ want \in Wants

Goto(a, where) == phase' = [phase EXCEPT ![a] = where]
Unlock(a) == lock' = [n \in Results |-> IF lock[n] = a THEN Nobody ELSE lock[n]]

\* The closure ends: lock, permit and thread are given back; nobody collects the
\* output of a caller that has gone.
End(a, where) ==
  /\ Goto(a, IF a \in left THEN "done" ELSE where)
  /\ left' = left \ {a}
  /\ Unlock(a)

Served(a) == IF want[a][2] = "index" THEN "decode" ELSE "done"

-----------------------------------------------------------------------------
(* Requests for a page or for Markdown. *)

\* The handler has found the row succeeded and opened the source.
Ask(r) ==
  /\ phase[r] = "idle" /\ Target(r) \in source
  /\ Goto(r, "asked")
  /\ UNCHANGED <<source, cache, lock, want, left, forgotten>>

\* A finished artifact needs no admission.
CheckCache(r) ==
  /\ phase[r] = "asked"
  /\ Goto(r, IF Cached(r) THEN Served(r) ELSE "waiting")
  /\ UNCHANGED <<source, cache, lock, want, left, forgotten>>

\* A permit is acquired for one try.
Admit(r) ==
  /\ phase[r] = "waiting" /\ Cardinality(Permits(r)) < ArtifactPermits
  /\ Goto(r, "queued")
  /\ UNCHANGED <<source, cache, lock, want, left, forgotten>>

\* The closure gets a thread and checks the cache before it asks for the lock.
Enter(r) ==
  /\ phase[r] = "queued" /\ Cardinality(Busy(r)) < Threads
  /\ IF Cached(r) THEN End(r, Served(r)) ELSE Goto(r, "trying") /\ UNCHANGED <<lock, left>>
  /\ UNCHANGED <<source, cache, want, forgotten>>

\* Mutant of TryLock: a contended lock is waited for with permit and thread held.
WaitForLock(a) ==
  /\ phase[a] = "trying" /\ lock[Target(a)] = Nobody
  /\ lock' = [lock EXCEPT ![Target(a)] = a]
  /\ Goto(a, "locked")
  /\ UNCHANGED <<source, cache, want, left, forgotten>>

\* A contended lock ends the try; its caller sleeps and tries again from admission.
TryLock(a) ==
  /\ phase[a] = "trying"
  /\ IF lock[Target(a)] = Nobody
       THEN lock' = [lock EXCEPT ![Target(a)] = a] /\ Goto(a, "locked") /\ UNCHANGED left
       ELSE End(a, "waiting")
  /\ UNCHANGED <<source, cache, want, forgotten>>

\* Mutant of Open: the source opened by the handler is good enough.
OpenEarlier(r) ==
  /\ phase[r] = "locked"
  /\ Goto(r, "building") /\ UNCHANGED lock
  /\ UNCHANGED <<source, cache, want, left, forgotten>>

\* The source is opened under the lock, then the cache is checked once more.
Open(r) ==
  /\ phase[r] = "locked"
  /\ CASE Target(r) \notin source -> End(r, "done")
       [] Target(r) \in source /\ Cached(r) -> End(r, Served(r))
       [] OTHER -> Goto(r, "building") /\ UNCHANGED <<lock, left>>
  /\ UNCHANGED <<source, cache, want, forgotten>>

\* The temporary file is complete, synced and renamed.
Persist(r) ==
  /\ phase[r] = "building"
  /\ cache' = cache \cup {want[r]}
  /\ Goto(r, "persisted")
  /\ UNCHANGED <<source, lock, want, left, forgotten>>

\* Any step may fail, the last sync too; the caller gets an error.
BuildFails(r) ==
  /\ phase[r] \in {"locked", "building", "persisted"}
  /\ End(r, "done")
  /\ UNCHANGED <<source, cache, want, forgotten>>

BuildReturns(r) ==
  /\ phase[r] = "persisted"
  /\ End(r, Served(r))
  /\ UNCHANGED <<source, cache, want, forgotten>>

\* A file system call that does not return.
Hang(r) ==
  /\ phase[r] = "building"
  /\ Goto(r, "hung")
  /\ UNCHANGED <<source, cache, lock, want, left, forgotten>>

\* A page request decodes the index it was given on the same pool.
Decode(r) ==
  /\ phase[r] = "decode" /\ Cardinality(Busy(r)) < Threads
  /\ Goto(r, "decoding")
  /\ UNCHANGED <<source, cache, lock, want, left, forgotten>>

Answer(r) ==
  /\ phase[r] = "decoding"
  /\ End(r, "done")
  /\ UNCHANGED <<source, cache, want, forgotten>>

-----------------------------------------------------------------------------
(* Removal of a result. *)

\* The row is deleted, or waits for cleanup, whatever readers are doing.  There
\* are as many cleanup permits as removals here, so none of them waits for one.
Remove(d) ==
  /\ phase[d] = "idle"
  /\ Goto(d, "waiting")
  /\ UNCHANGED <<source, cache, lock, want, left, forgotten>>

TryAgain(d) ==
  /\ phase[d] = "waiting"
  /\ Goto(d, "trying")
  /\ UNCHANGED <<source, cache, lock, want, left, forgotten>>

\* One derived file at a time, in the directory's order.
Unlink(d) ==
  /\ phase[d] = "locked"
  /\ \E f \in CachesOf(Target(d)) : cache' = cache \ {f}
  /\ UNCHANGED <<source, lock, phase, want, left, forgotten>>

RemoveSource(d) ==
  /\ phase[d] = "locked" /\ CachesOf(Target(d)) = {}
  /\ source' = source \ {Target(d)}
  /\ Goto(d, "unlinked")
  /\ UNCHANGED <<cache, lock, want, left, forgotten>>

\* The directory is synced and the removal acknowledged to whoever still waits.
Acknowledge(d) ==
  /\ phase[d] = "unlinked"
  /\ forgotten' = IF d \in left THEN forgotten ELSE forgotten \cup {Target(d)}
  /\ End(d, "done")
  /\ UNCHANGED <<source, cache, want>>

RemovalFails(d) ==
  /\ phase[d] \in {"locked", "unlinked"}
  /\ End(d, "done")
  /\ UNCHANGED <<source, cache, want, forgotten>>

-----------------------------------------------------------------------------
\* The caller leaves: the 300 s deadline, the client, or a supervisor's timeout.
\* What runs on a thread runs on; what waits is dropped.
Leave(a) ==
  /\ phase[a] \notin {"idle", "done"} /\ a \notin left
  /\ IF phase[a] \in Running THEN left' = left \cup {a} /\ UNCHANGED phase
     ELSE Goto(a, "done") /\ UNCHANGED left
  /\ UNCHANGED <<source, cache, lock, want, forgotten>>

\* A process dies: its operations end where they are and the kernel drops its locks.
Crash(p) ==
  LET lost == {a \in Actors : Home[a] = p /\ phase[a] # "idle"} IN
  /\ lost # {}
  /\ phase' = [a \in Actors |-> IF a \in lost THEN "done" ELSE phase[a]]
  /\ lock' = [n \in Results |-> IF lock[n] \in lost THEN Nobody ELSE lock[n]]
  /\ left' = left \ lost
  /\ UNCHANGED <<source, cache, want, forgotten>>

-----------------------------------------------------------------------------
Build(r) == TryLock(r) \/ Open(r) \/ Persist(r) \/ BuildFails(r) \/ BuildReturns(r)
Reader(r) == CheckCache(r) \/ Admit(r) \/ Enter(r) \/ Build(r) \/ Decode(r) \/ Answer(r)
Cleanup(d) ==
  \/ TryAgain(d) \/ TryLock(d) \/ Unlink(d) \/ RemoveSource(d) \/ Acknowledge(d) \/ RemovalFails(d)

Next ==
  \/ \E r \in Readers : Ask(r) \/ Reader(r) \/ Hang(r)
  \/ \E d \in Removers : Remove(d) \/ Cleanup(d)
  \/ \E a \in Actors : Leave(a)
  \/ \E p \in Replicas : Crash(p)

Spec == Init /\ [][Next]_vars

(***************************************************************************)
(* Tasks and closures run.  Both semaphores (permits and threads) are FIFO,  *)
(* so who queues gets its turn if it comes up again and again: strong       *)
(* fairness.  No deadline has to expire, and a build may hang for ever.     *)
(***************************************************************************)
FairSpec ==
  /\ Spec
  /\ \A r \in Readers : SF_vars(Reader(r))
  /\ \A d \in Removers : WF_vars(Cleanup(d))

-----------------------------------------------------------------------------
\* Type correctness; permits and threads are never overdrawn.
TypeOK ==
  /\ source \subseteq Results /\ cache \subseteq Results \X Artifacts
  /\ lock \in [Results -> Actors \cup {Nobody}] /\ phase \in [Actors -> Phases]
  /\ want \in Wants
  /\ left \subseteq {a \in Actors : phase[a] \in Running} /\ forgotten \subseteq Results
  /\ \A a \in Readers : Cardinality(Permits(a)) <= ArtifactPermits
  /\ \A a \in Readers : Cardinality(Busy(a)) <= Threads

\* No derived file outlives its result: whenever the source is gone, however far
\* removals, late builds and crashes have come, its derived files are gone too, and
\* an acknowledged removal has left nothing.
NothingOutlivesTheResult ==
  /\ TypeOK
  /\ \A n \in Results \ source : CachesOf(n) = {}
  /\ forgotten \cap source = {}

Stuck(n) == \E r \in Readers : lock[n] = r /\ phase[r] = "hung"
Exhausted(a) == {b \in Colleagues(a) : phase[b] = "hung"} # {}

\* A build that hangs holds up only its own result and its own process: readers and
\* removals of other results in other processes get their answer without waiting
\* for any deadline.
OthersAreServed ==
  \A a \in Actors :
    (phase[a] \notin {"idle", "done"}) ~>
      (phase[a] = "done" \/ Stuck(Target(a)) \/ (a \in Readers /\ Exhausted(a)))
=============================================================================
