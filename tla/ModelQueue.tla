----------------------------- MODULE ModelQueue -----------------------------
(***************************************************************************)
(* The bounded queue of one model and the native sessions that serve it    *)
(* (common: queue/blocking.rs, session/manager.rs). Producers reserve a    *)
(* permit of a fair semaphore without holding the queue's lock and publish *)
(* under it; sessions park on a condition variable, drain ready requests   *)
(* into a batch and give the permits back after they have unlocked.        *)
(***************************************************************************)
EXTENDS Lines, FiniteSetsExt

CONSTANTS
  Requests,     \* model inputs, each pushed once
  SessionSize,  \* session_size: owner threads, started in order
  Capacity,     \* queue_size
  BatchLimit    \* batch_size

ASSUME QueueAssumption ==
  SessionSize \in Nat \ {0} /\ Capacity \in Nat \ {0} /\ BatchLimit \in 1..32

VARIABLES
  request,  \* request[r]: idle, waiting, reserved, queued, running, or how it ended
  gone,     \* requests whose response receiver has been dropped
  free,     \* permits nobody holds
  waiters,  \* producers waiting for a permit, oldest first
  queue,    \* published requests, each with its permit
  closed,   \* state.closed; the semaphore is closed under the same lock
  session,  \* session[i]: new, loading, awake, parked, releasing, busy, exited
  batch,    \* batch[i]: what session i took
  unlocked, \* unlocked[i]: requests whose permits it took and has not given back yet
  manager   \* starting, open, failing, failed, dropped

requestVars == <<request, gone>>
semaphoreVars == <<free, waiters>>
sessionVars == <<session, batch, unlocked>>
vars == <<requestVars, semaphoreVars, queue, closed, sessionVars, manager>>

Sessions == 1..SessionSize
Ended == {"answered", "skipped", "refused", "lost", "dropped"}
In(where) == {r \in Requests : request[r] = where}
Move(S, where) == [r \in Requests |-> IF r \in S THEN where ELSE request[r]]

Init ==
  /\ request = [r \in Requests |-> "idle"] /\ gone = {}
  /\ free = Capacity /\ waiters = <<>> /\ queue = <<>> /\ closed = FALSE
  /\ session = [i \in Sessions |-> "new"] /\ batch = [i \in Sessions |-> {}]
  /\ unlocked = [i \in Sessions |-> {}] /\ manager = "starting"

-----------------------------------------------------------------------------
(* The semaphore: permits go to the oldest waiters, the rest is free; a     *)
(* closed one has no waiters left, though they may not have noticed.        *)

Woken(n) ==
  IF closed THEN {}
  ELSE {waiters[j] : j \in 1..(IF n < Len(waiters) THEN n ELSE Len(waiters))}
GiveBack(n) ==
  /\ waiters' = SubSeq(waiters, Cardinality(Woken(n)) + 1, Len(waiters))
  /\ free' = free + n - Cardinality(Woken(n))

\* request[r] becomes "where" and n permits are given back.
MoveAndGiveBack(S, where, n) ==
  /\ GiveBack(n)
  /\ request' = [r \in Requests |->
       IF r \in S THEN where ELSE IF r \in Woken(n) THEN "reserved" ELSE request[r]]

-----------------------------------------------------------------------------
(* Producers: push_async and publish. *)

\* The response receiver is dropped; whoever holds the request may notice.
Leave(r) ==
  /\ request[r] \notin Ended /\ r \notin gone
  /\ gone' = gone \cup {r}
  /\ UNCHANGED <<request, semaphoreVars, queue, closed, sessionVars, manager>>

Push(r) ==
  /\ manager = "open" /\ request[r] = "idle"
  /\ request' = [request EXCEPT ![r] =
       IF closed THEN "refused" ELSE IF r \in gone THEN "skipped"
       ELSE IF free > 0 THEN "reserved" ELSE "waiting"]
  /\ free' = IF request'[r] = "reserved" THEN free - 1 ELSE free
  /\ waiters' = IF request'[r] = "waiting" THEN Append(waiters, r) ELSE waiters
  /\ UNCHANGED <<gone, queue, closed, sessionVars, manager>>

\* A closed semaphore wakes its waiters with an error.
Refuse(r) ==
  /\ closed /\ request[r] = "waiting"
  /\ request' = [request EXCEPT ![r] = "refused"]
  /\ waiters' = Without(waiters, {r})
  /\ UNCHANGED <<gone, free, queue, closed, sessionVars, manager>>

\* Mutant of NotifyOne: sessions are left to find new work by themselves.
NotifyNobody == UNCHANGED session

\* notify_one: some parked session, if any, will take the lock again.
NotifyOne ==
  LET parked == {i \in Sessions : session[i] = "parked"} IN
  IF parked = {} THEN UNCHANGED session
  ELSE \E i \in parked : session' = [session EXCEPT ![i] = "awake"]

\* Mutant of Publish: the queue's closing is not looked at again under the lock.
PublishUnchecked(r) ==
  /\ request[r] = "reserved"
  /\ request' = [request EXCEPT ![r] = "queued"]
  /\ queue' = Append(queue, r)
  /\ NotifyOne
  /\ UNCHANGED <<semaphoreVars, gone, closed, batch, unlocked, manager>>

\* Under the lock. A request whose caller left, or that finds the queue closed (by
\* the semaphore or by the state), gives its permit back.
Publish(r) ==
  /\ request[r] = "reserved"
  /\ IF r \in gone \/ closed
     THEN /\ \E end \in {"skipped", "refused"} :
               /\ end = "skipped" => r \in gone
               /\ end = "refused" => closed
               /\ MoveAndGiveBack({r}, end, 1)
          /\ UNCHANGED <<queue, session>>
     ELSE /\ request' = [request EXCEPT ![r] = "queued"]
          /\ queue' = Append(queue, r)
          /\ NotifyOne
          /\ UNCHANGED semaphoreVars
  /\ UNCHANGED <<gone, closed, batch, unlocked, manager>>

\* The caller's future is dropped while it waits for, or holds, a permit.
Drop(r) ==
  /\ request[r] \in {"waiting", "reserved"}
  /\ IF request[r] = "reserved" THEN MoveAndGiveBack({r}, "dropped", 1)
     ELSE /\ request' = [request EXCEPT ![r] = "dropped"]
          /\ waiters' = Without(waiters, {r})
          /\ UNCHANGED free
  /\ gone' = gone \cup {r}
  /\ UNCHANGED <<queue, closed, sessionVars, manager>>

-----------------------------------------------------------------------------
(* Closing: the last handle is dropped, a session ends for any reason, or a *)
(* session cannot be started. All sessions wake; what is queued is dropped. *)

\* What closing does when "died" leave their sessions' hands with it.
Close(died) ==
  /\ closed' = TRUE
  /\ queue' = <<>>
  /\ request' = Move(died \cup ToSet(queue), "lost")
  /\ free' = free + Len(queue)
  /\ UNCHANGED <<gone, waiters>>

\* session' when the queue closes and session i, 0 for none, exits.
WakeAll(i) ==
  session' = [j \in Sessions |->
    IF j = i THEN "exited" ELSE IF session[j] = "parked" THEN "awake" ELSE session[j]]

\* Every call holds a handle; requests whose caller left may still be in the queue.
DropManager ==
  /\ manager = "open" /\ manager' = "dropped"
  /\ In("waiting") \cup In("reserved") = {}
  /\ \A r \in Requests \ gone : request[r] \in {"idle"} \cup Ended
  /\ Close({}) /\ WakeAll(0)
  /\ UNCHANGED <<batch, unlocked>>

-----------------------------------------------------------------------------
(* Sessions. *)

\* start_indexed: session i is spawned when the ones before it are ready.
Spawn(i) ==
  /\ manager = "starting" /\ session[i] = "new"
  /\ \A j \in 1..(i - 1) : session[j] \notin {"new", "loading"}
  /\ session' = [session EXCEPT ![i] = "loading"]
  /\ UNCHANGED <<requestVars, semaphoreVars, queue, closed, batch, unlocked, manager>>

Load(i) ==
  /\ session[i] = "loading"
  /\ session' = [session EXCEPT ![i] = "awake"]
  /\ manager' = IF i = SessionSize THEN "open" ELSE manager
  /\ UNCHANGED <<requestVars, semaphoreVars, queue, closed, batch, unlocked>>

\* The initializer fails or panics: admission closes, every thread is joined.
LoadFails(i) ==
  /\ session[i] = "loading" /\ manager' = "failing"
  /\ Close({}) /\ WakeAll(i)
  /\ UNCHANGED <<batch, unlocked>>

JoinThreads ==
  /\ manager = "failing" /\ \A i \in Sessions : session[i] \in {"new", "exited"}
  /\ manager' = "failed"
  /\ UNCHANGED <<requestVars, semaphoreVars, queue, closed, sessionVars>>

\* How many requests pop removes: until BatchLimit live ones, or all that are ready.
Live(n) == {j \in 1..n : queue[j] \notin gone}
Taken == Min({n \in 0..Len(queue) : Cardinality(Live(n)) = BatchLimit} \cup {Len(queue)})

Pop(i) ==
  /\ session[i] = "awake" /\ ~closed
  /\ LET taken == {queue[j] : j \in 1..Taken} IN
     IF queue = <<>>
     THEN /\ session' = [session EXCEPT ![i] = "parked"]
          /\ UNCHANGED <<request, queue, batch, unlocked>>
     ELSE /\ session' = [session EXCEPT ![i] = "releasing"]
          /\ queue' = SubSeq(queue, Taken + 1, Len(queue))
          /\ batch' = [batch EXCEPT ![i] = taken \ gone]
          /\ unlocked' = [unlocked EXCEPT ![i] = taken]
          /\ request' = [r \in Requests |->
               IF r \in taken THEN (IF r \in gone THEN "skipped" ELSE "running") ELSE request[r]]
  /\ UNCHANGED <<gone, semaphoreVars, closed, manager>>

\* Mutant of Release: only the permits of the requests that will run go back.
ReleaseLive(i) ==
  /\ session[i] = "releasing"
  /\ MoveAndGiveBack({}, "idle", Cardinality(batch[i]))
  /\ unlocked' = [unlocked EXCEPT ![i] = {}]
  /\ session' = [session EXCEPT ![i] = IF batch[i] = {} THEN "awake" ELSE "busy"]
  /\ UNCHANGED <<gone, queue, closed, batch, manager>>

\* Permits go back outside the lock; a batch of left callers only is not run.
Release(i) ==
  /\ session[i] = "releasing"
  /\ MoveAndGiveBack({}, "idle", Cardinality(unlocked[i]))
  /\ unlocked' = [unlocked EXCEPT ![i] = {}]
  /\ session' = [session EXCEPT ![i] = IF batch[i] = {} THEN "awake" ELSE "busy"]
  /\ UNCHANGED <<gone, queue, closed, batch, manager>>

\* The model ran, well or not: a result or a shared error for every request.
Reply(i) ==
  /\ session[i] = "busy"
  /\ \E r \in batch[i] :
       /\ request' = [request EXCEPT ![r] = "answered"]
       /\ batch' = [batch EXCEPT ![i] = @ \ {r}]
       /\ session' = [session EXCEPT ![i] = IF batch'[i] = {} THEN "awake" ELSE "busy"]
  /\ UNCHANGED <<gone, semaphoreVars, queue, closed, unlocked, manager>>

\* Mutant of Panic: the thread just ends.
PanicAlone(i) ==
  /\ session[i] = "busy"
  /\ request' = Move(batch[i], "lost")
  /\ session' = [session EXCEPT ![i] = "exited"]
  /\ batch' = [batch EXCEPT ![i] = {}]
  /\ UNCHANGED <<gone, semaphoreVars, queue, closed, unlocked, manager>>

\* The model panics: SessionExit closes the queue while the thread unwinds.
Panic(i) ==
  /\ session[i] = "busy"
  /\ Close(batch[i]) /\ WakeAll(i)
  /\ batch' = [batch EXCEPT ![i] = {}]
  /\ UNCHANGED <<unlocked, manager>>

Exit(i) ==
  /\ session[i] = "awake" /\ closed
  /\ session' = [session EXCEPT ![i] = "exited"]
  /\ UNCHANGED <<requestVars, semaphoreVars, queue, closed, batch, unlocked, manager>>

-----------------------------------------------------------------------------
ProducerStep(r) == Refuse(r) \/ Publish(r)
SessionStep(i) == Pop(i) \/ Release(i) \/ Reply(i) \/ Panic(i) \/ Exit(i)

Next ==
  \/ DropManager \/ JoinThreads
  \/ \E r \in Requests : Leave(r) \/ Push(r) \/ ProducerStep(r) \/ Drop(r)
  \/ \E i \in Sessions : Spawn(i) \/ Load(i) \/ LoadFails(i) \/ SessionStep(i)

Spec == Init /\ [][Next]_vars

\* Runnable tasks are polled, threads run and a model returns from every batch.
FairSpec ==
  /\ Spec
  /\ \A r \in Requests : WF_vars(ProducerStep(r))
  /\ \A i \in Sessions : WF_vars(SessionStep(i)) /\ WF_vars(Spawn(i))
                         /\ WF_vars(Load(i) \/ LoadFails(i))
  /\ WF_vars(JoinThreads)

-----------------------------------------------------------------------------
\* Type correctness.
TypeOK ==
  /\ request \in [Requests -> {"idle", "waiting", "reserved", "queued", "running"} \cup Ended]
  /\ gone \subseteq Requests /\ free \in 0..Capacity /\ closed \in BOOLEAN
  /\ IsInjective(waiters) /\ ToSet(waiters) = In("waiting")
  /\ IsInjective(queue) /\ ToSet(queue) = In("queued")
  /\ session \in [Sessions -> {"new", "loading", "awake", "parked", "releasing", "busy", "exited"}]
  /\ batch \in [Sessions -> SUBSET Requests] /\ unlocked \in [Sessions -> SUBSET Requests]
  /\ manager \in {"starting", "open", "failing", "failed", "dropped"}

\* Requests whose permit is not free: reserved, in the queue, or with a session.
Holders == In("reserved") \cup In("queued") \cup UNION {unlocked[i] : i \in Sessions}

\* No permit is lost or invented: whatever producers, sessions and the queue do to
\* each other, every permit is free, reserved, in the queue or on its way back, and
\* it is on its way back from one place only.
PermitsConserved ==
  /\ TypeOK
  /\ free + Cardinality(Holders) = Capacity
  /\ \A i \in Sessions :
       /\ unlocked[i] \cap (In("reserved") \cup In("queued")) = {}
       /\ \A k \in Sessions \ {i} : unlocked[i] \cap unlocked[k] = {}

\* No wakeup is lost: published work is never left to parked sessions, free capacity
\* never to waiting producers, and neither survives a closed queue.
NothingStranded ==
  /\ queue # <<>> => \E i \in Sessions : session[i] \in {"awake", "releasing", "busy"}
  /\ waiters # <<>> /\ ~closed => free = 0
  /\ closed => queue = <<>> /\ \A i \in Sessions : session[i] # "parked"

\* What the callers of a model are promised, whatever the queue does inside.
CallOf == [r \in Requests |->
  CASE request[r] = "idle" -> "new"
    [] request[r] \in {"waiting", "reserved"} -> "pending"
    [] request[r] = "queued" -> "admitted"
    [] OTHER -> request[r]]
Calls == INSTANCE ModelCalls WITH call <- CallOf, open <- ~closed
ImplementsCalls == Calls!Spec

\* A request that was pushed is answered, refused or seen to be lost: no producer and
\* no caller waits for ever, also when a session dies.
CallersReturn ==
  \A r \in Requests :
    request[r] \in {"waiting", "reserved", "queued", "running"} ~> request[r] \in Ended
=============================================================================
