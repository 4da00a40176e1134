------------------------------- MODULE Services -------------------------------
(***************************************************************************)
(* One server process in the role `all`: run_services (server/src/main.rs)   *)
(* joins the HTTP server, the worker loop (worker.rs, run) and the watch     *)
(* over the PDFium pool; uploads (routers/jobs/upload.rs) hash on the HTTP   *)
(* CPU pool (common/src/runtime.rs), publish and submit.  A signal drains    *)
(* them all; a failing service drops the others.  What an attempt does is   *)
(* JobAttempts, what the pool does PdfiumPool.  The sweep ends at once.      *)
(***************************************************************************)
EXTENDS Naturals, FiniteSets

CONSTANTS
  Uploads,      \* requests that clients will make
  Keys,         \* idempotency keys, the ids of jobs
  Contents,     \* contents of files, the names of inputs
  Submissions,  \* assignments of a key and a content to every upload
  MaxUploads,   \* permits for uploads
  Threads,      \* permits of the HTTP CPU pool
  Processes,    \* PDFium processes
  Nothing       \* a key without a row

ASSUME ServicesAssumption ==
  /\ Submissions \subseteq [Uploads -> Keys \X Contents]
  /\ {MaxUploads, Threads, Processes} \subseteq Nat \ {0}
  /\ Nothing \notin Contents

VARIABLES
  token,    \* shutdown is cancelled
  main,     \* services, closing (the pool), draining (the CPU), dropping (the runtime), exited
  fault,    \* history: a service failed
  serving,  \* binding, listening, draining, ended, dropped
  worker,   \* where the worker loop is
  armed,    \* branches of its select! whose precondition held
  pool,     \* up, stopped (by its own failure), closed
  attempt,  \* [Keys -> ...] tasks of the worker's JoinSet
  asked,    \* [Uploads -> Keys \X Contents]
  upload,   \* [Uploads -> ...] where the request of an upload is
  cpu,      \* [Uploads -> ...] its closure in the HTTP CPU pool
  storing,  \* uploads whose blocking publication runs
  inputs,   \* contents that are published
  rows      \* [Keys -> Contents \cup {Nothing}]

processVars == <<main, fault, serving, pool>>
workerVars == <<worker, armed, attempt>>
uploadVars == <<asked, upload, cpu, storing, inputs, rows>>
vars == <<token, processVars, workerVars, uploadVars>>

Handled == {"receiving", "hashing", "publishing", "submitting"}  \* the handler runs
Open == Handled \cup {"connected"}
InSet == {"parsing", "finishing", "finished"}
Tasks == {k \in Keys : attempt[k] \in InSet}

TypeOK ==
  /\ {token, fault} \subseteq BOOLEAN /\ asked \in Submissions
  /\ main \in {"services", "closing", "draining", "dropping", "exited"}
  /\ serving \in {"binding", "listening", "draining", "ended", "dropped"}
  /\ worker \in {"top", "first", "second", "waiting", "claiming", "done", "dropped", "panicked"}
  /\ armed \subseteq {"join", "reserve", "notice"} /\ pool \in {"up", "stopped", "closed"}
  /\ attempt \in [Keys -> InSet \cup {"none", "lost", "joined", "cut"}]
  /\ upload \in [Uploads -> Open \cup {"idle", "accepted", "refused", "closed", "cut"}]
  /\ cpu \in [Uploads -> {"none", "queued", "running", "output", "discarded"}]
  /\ storing \subseteq Uploads /\ inputs \subseteq Contents
  /\ rows \in [Keys -> Contents \cup {Nothing}]

Init ==
  /\ token = FALSE /\ main = "services" /\ fault = FALSE /\ serving = "binding"
  /\ worker = "top" /\ armed = {} /\ pool = "up"
  /\ attempt = [k \in Keys |-> "none"]
  /\ asked \in Submissions /\ upload = [u \in Uploads |-> "idle"]
  /\ cpu = [u \in Uploads |-> "none"] /\ storing = {} /\ inputs = {}
  /\ rows = [k \in Keys |-> Nothing]

-----------------------------------------------------------------------------
(* The services and their end. *)

Signal ==
  /\ main = "services" /\ ~token /\ token' = TRUE
  /\ UNCHANGED <<processVars, workerVars, uploadVars>>

PoolStops ==
  /\ main = "services" /\ pool = "up" /\ pool' = "stopped"
  /\ UNCHANGED <<token, main, fault, serving, workerVars, uploadVars>>

\* Tasks of a JoinSet that is dropped are aborted.
Abort(k) == IF attempt[k] \in {"parsing", "finishing"} THEN "cut" ELSE attempt[k]

\* try_join! drops the other services; connections are tasks of their own and go on.
Fail ==
  /\ main = "services"
  /\ main' = "closing" /\ fault' = TRUE /\ token' = TRUE /\ serving' = "dropped"
  /\ worker' = IF worker = "done" THEN "done" ELSE "dropped"
  /\ attempt' = [k \in Keys |-> Abort(k)]
  /\ UNCHANGED <<armed, pool, uploadVars>>

Bind ==
  /\ main = "services" /\ serving = "binding" /\ serving' = "listening"
  /\ UNCHANGED <<token, main, fault, pool, workerVars, uploadVars>>
BindFails == serving = "binding" /\ Fail

\* biased: a shutdown outranks the end of the pool.
PoolIsMissed == pool = "stopped" /\ ~token /\ Fail

StopListening ==
  /\ main = "services" /\ serving = "listening" /\ token /\ serving' = "draining"
  /\ UNCHANGED <<token, main, fault, pool, workerVars, uploadVars>>

\* Mutant of ServingEnds: connections are not waited for.
ServingEndsAtOnce ==
  /\ main = "services" /\ serving = "draining" /\ serving' = "ended"
  /\ UNCHANGED <<token, main, fault, pool, workerVars, uploadVars>>

ServingEnds ==
  /\ main = "services" /\ serving = "draining"
  /\ \A u \in Uploads : upload[u] \notin Open
  /\ serving' = "ended"
  /\ UNCHANGED <<token, main, fault, pool, workerVars, uploadVars>>

ServicesEnd ==
  /\ main = "services" /\ serving = "ended" /\ worker = "done" /\ token
  /\ main' = "closing"
  /\ UNCHANGED <<token, fault, serving, pool, workerVars, uploadVars>>

ClosePool ==
  /\ main = "closing" /\ pool' = "closed" /\ main' = "draining"
  /\ UNCHANGED <<token, fault, serving, workerVars, uploadVars>>

\* The runtime drops its tasks; what they had queued or left in the CPU pool is dropped too.
DropRuntime ==
  /\ main' = "dropping"
  /\ upload' = [u \in Uploads |-> IF upload[u] \in Handled THEN "cut"
                                  ELSE IF upload[u] = "connected" THEN "closed" ELSE upload[u]]
  /\ cpu' = [u \in Uploads |-> IF cpu[u] = "queued" THEN "discarded" ELSE cpu[u]]
  /\ UNCHANGED <<asked, storing, inputs, rows>>

\* drain_cpu: the tracker of the pool is empty.
Drained ==
  /\ main = "draining" /\ \A u \in Uploads : cpu[u] = "none"
  /\ DropRuntime
  /\ UNCHANGED <<token, fault, serving, pool, workerVars>>

\* Dropping a runtime waits for the blocking functions it has started.
Exit ==
  /\ main = "dropping" /\ storing = {} /\ main' = "exited"
  /\ UNCHANGED <<token, fault, serving, pool, workerVars, uploadVars>>

-----------------------------------------------------------------------------
(* The worker loop.  The preconditions of select! are evaluated one after the other,
   before any branch is polled, and each reads the token again. *)

Running == main = "services"
Goto(next) == worker' = next /\ UNCHANGED <<token, processVars, uploadVars>>

Top ==
  /\ Running /\ worker = "top" /\ armed' = {}
  /\ Goto(IF token /\ Tasks = {} THEN "done" ELSE "first") /\ UNCHANGED attempt

First ==
  /\ Running /\ worker = "first"
  /\ armed' = (IF Tasks # {} THEN {"join"} ELSE {}) \cup (IF token THEN {} ELSE {"reserve"})
  /\ Goto("second") /\ UNCHANGED attempt

Second ==
  /\ Running /\ worker = "second" /\ armed \cup (IF token THEN {} ELSE {"notice"}) # {}
  /\ armed' = armed \cup (IF token THEN {} ELSE {"notice"})
  /\ Goto("waiting") /\ UNCHANGED attempt

\* select! panics if every branch is disabled and there is no else branch: the panic
\* unwinds through run_services and main.
AllDisabled ==
  /\ Running /\ worker = "second" /\ armed = {} /\ token
  /\ worker' = "panicked"
  /\ attempt' = [k \in Keys |-> Abort(k)]
  /\ DropRuntime
  /\ UNCHANGED <<token, fault, serving, pool, armed>>

Join(k) ==
  /\ Running /\ worker = "waiting" /\ "join" \in armed /\ attempt[k] = "finished"
  /\ attempt' = [attempt EXCEPT ![k] = "joined"] /\ Goto("top") /\ UNCHANGED armed

Notice ==
  /\ Running /\ worker = "waiting" /\ "notice" \in armed /\ token
  /\ Goto("top") /\ UNCHANGED <<armed, attempt>>

\* Admission and an idle process come before a claim.
Reserve ==
  /\ Running /\ worker = "waiting" /\ "reserve" \in armed /\ pool = "up"
  /\ Cardinality({k \in Keys : attempt[k] = "parsing"}) < Processes
  /\ Goto("claiming") /\ UNCHANGED <<armed, attempt>>
ReserveFails == worker = "waiting" /\ "reserve" \in armed /\ pool = "stopped" /\ Fail

Claim(k) ==
  /\ Running /\ worker = "claiming" /\ rows[k] # Nothing /\ attempt[k] = "none"
  /\ attempt' = [attempt EXCEPT ![k] = "parsing"] /\ Goto("top") /\ UNCHANGED armed

\* Nothing to claim, or a statement that fails: next try after 500 ms.
ClaimNothing ==
  /\ Running /\ worker = "claiming" /\ Goto("top") /\ UNCHANGED <<armed, attempt>>

\* The shutdown drops a claim, which may have committed.
DropClaim(k) ==
  /\ Running /\ worker = "claiming" /\ token /\ rows[k] # Nothing /\ attempt[k] = "none"
  /\ attempt' = [attempt EXCEPT ![k] = "lost"] /\ Goto("top") /\ UNCHANGED armed

\* An attempt gives back its process, then reports its outcome; job_timeout bounds both.
Proceed(k) ==
  /\ main # "exited" /\ attempt[k] \in {"parsing", "finishing"}
  /\ attempt' = [attempt EXCEPT ![k] = IF @ = "parsing" THEN "finishing" ELSE "finished"]
  /\ UNCHANGED <<token, processVars, worker, armed, uploadVars>>

WorkerLoop ==
  \/ Top \/ First \/ Second \/ AllDisabled \/ Notice \/ Reserve \/ ReserveFails \/ ClaimNothing
  \/ \E k \in Keys : Join(k) \/ Claim(k) \/ DropClaim(k)

-----------------------------------------------------------------------------
(* Uploads. *)

Key(u) == asked[u][1]
Content(u) == asked[u][2]
Alive == main \notin {"dropping", "exited"}
ServerUnchanged == UNCHANGED <<token, processVars, workerVars, asked>>

Connect(u) ==
  /\ Running /\ serving = "listening" /\ upload[u] = "idle"
  /\ upload' = [upload EXCEPT ![u] = "connected"]
  /\ ServerUnchanged /\ UNCHANGED <<cpu, storing, inputs, rows>>

\* A graceful shutdown closes connections without a request.
HangUp(u) ==
  /\ Alive /\ upload[u] = "connected" /\ token
  /\ upload' = [upload EXCEPT ![u] = "closed"]
  /\ ServerUnchanged /\ UNCHANGED <<cpu, storing, inputs, rows>>

\* 503 while draining, 429 without a permit.
Begin(u) ==
  /\ Alive /\ upload[u] = "connected"
  /\ LET full == Cardinality({v \in Uploads : upload[v] \in Handled}) >= MaxUploads
     IN upload' = [upload EXCEPT ![u] = IF token \/ full THEN "refused" ELSE "receiving"]
  /\ ServerUnchanged /\ UNCHANGED <<cpu, storing, inputs, rows>>

BodyEnds(u) ==
  /\ Alive /\ upload[u] = "receiving"
  /\ upload' = [upload EXCEPT ![u] = "hashing"] /\ cpu' = [cpu EXCEPT ![u] = "queued"]
  /\ ServerUnchanged /\ UNCHANGED <<storing, inputs, rows>>

Collect(u) ==
  /\ Alive /\ upload[u] = "hashing" /\ cpu[u] = "output"
  /\ upload' = [upload EXCEPT ![u] = "publishing"] /\ cpu' = [cpu EXCEPT ![u] = "none"]
  /\ storing' = storing \cup {u}
  /\ ServerUnchanged /\ UNCHANGED <<inputs, rows>>

\* A publication, of one who waits for it or not.
Stored(u) ==
  /\ main # "exited" /\ u \in storing
  /\ storing' = storing \ {u} /\ inputs' = inputs \cup {Content(u)}
  /\ upload' = [upload EXCEPT ![u] = IF @ = "publishing" THEN "submitting" ELSE @]
  /\ ServerUnchanged /\ UNCHANGED <<cpu, rows>>
StoreFails(u) ==
  /\ main # "exited" /\ u \in storing
  /\ storing' = storing \ {u}
  /\ upload' = [upload EXCEPT ![u] = IF @ = "publishing" THEN "refused" ELSE @]
  /\ ServerUnchanged /\ UNCHANGED <<cpu, inputs, rows>>

\* Jobs::submit: the first submission of a key decides.
Inserted(u) == [rows EXCEPT ![Key(u)] = IF @ = Nothing THEN Content(u) ELSE @]

Submit(u) ==
  /\ Alive /\ upload[u] = "submitting"
  /\ rows' = Inserted(u)
  /\ upload' = [upload EXCEPT ![u] =
                  IF rows'[Key(u)] = Content(u) THEN "accepted" ELSE "refused"]
  /\ ServerUnchanged /\ UNCHANGED <<cpu, storing, inputs>>

\* The handler is dropped: a submission may have committed, and an input that waits for
\* a thread is destroyed elsewhere, without one.
Dropped(u) ==
  /\ Alive
  /\ upload' = [upload EXCEPT ![u] = "refused"]
  /\ cpu' = [cpu EXCEPT ![u] = IF @ = "queued" THEN "discarded" ELSE @]
  /\ rows' \in {rows} \cup (IF upload[u] = "submitting" THEN {Inserted(u)} ELSE {})
  /\ ServerUnchanged /\ UNCHANGED <<storing, inputs>>

\* Mutant of Leave: no deadline for the body.
LeaveLater(u) == upload[u] \in Handled \ {"receiving"} /\ Dropped(u)

\* An error, the deadline of the upload, or the client has gone.
Leave(u) == upload[u] \in Handled /\ Dropped(u)

\* CpuPool: a permit is kept until the output is collected or destroyed.
RunCpu(u) ==
  /\ main # "exited"
  /\ \/ /\ cpu[u] = "queued"
        /\ Cardinality({v \in Uploads : cpu[v] \in {"running", "output"}}) < Threads
        /\ cpu' = [cpu EXCEPT ![u] = "running"]
     \/ cpu[u] = "running" /\ cpu' = [cpu EXCEPT ![u] = "output"]
     \/ /\ cpu[u] = "discarded" \/ (cpu[u] = "output" /\ upload[u] # "hashing")
        /\ cpu' = [cpu EXCEPT ![u] = "none"]
  /\ ServerUnchanged /\ UNCHANGED <<upload, storing, inputs, rows>>

UploadStep(u) ==
  \/ Connect(u) \/ HangUp(u) \/ Begin(u) \/ BodyEnds(u) \/ Collect(u) \/ Stored(u)
  \/ StoreFails(u) \/ Submit(u) \/ Leave(u) \/ RunCpu(u)

Process ==
  \/ Bind \/ BindFails \/ PoolIsMissed \/ StopListening \/ ServingEnds \/ ServicesEnd
  \/ ClosePool \/ Drained \/ Exit

Next ==
  \/ Signal \/ PoolStops \/ Process \/ WorkerLoop
  \/ \E k \in Keys : Proceed(k)
  \/ \E u \in Uploads : UploadStep(u)

Spec == Init /\ [][Next]_vars

\* Tasks are polled, deadlines (of attempts and of uploads) pass, closures and
\* publications end, and the pool closes (PdfiumPool, StopCompletes).
FairSpec ==
  /\ Spec
  /\ WF_vars(Process) /\ WF_vars(WorkerLoop)
  /\ \A k \in Keys : WF_vars(Proceed(k))
  /\ \A u \in Uploads :
       /\ WF_vars(HangUp(u)) /\ WF_vars(Leave(u)) /\ WF_vars(RunCpu(u))
       /\ WF_vars(Stored(u) \/ StoreFails(u))

-----------------------------------------------------------------------------
\* What was accepted is durable, and a signal loses nothing: an upload answered with
\* 202 has its row, every row has its input, and a process that leaves after a signal,
\* with no service failing, has answered every request it had begun, joined every attempt
\* it had claimed, closed its pool and destroyed what was left in the CPU pool.  A worker
\* loop that panics is the exception.
NothingAcceptedIsLost ==
  /\ TypeOK
  /\ \A u \in Uploads : upload[u] = "accepted" => rows[Key(u)] = Content(u)
  /\ \A k \in Keys : rows[k] # Nothing => rows[k] \in inputs
  /\ main = "exited" /\ ~fault /\ worker # "panicked" =>
       /\ pool = "closed" /\ Tasks = {} /\ \A k \in Keys : attempt[k] # "cut"
       /\ \A u \in Uploads : upload[u] # "cut" /\ cpu[u] = "none"

\* "Normal service shutdown drains jobs and explicitly closes the pool" (server README,
\* line 118): without a failing service, the process leaves with its pool closed.
ShutdownClosesPool == main = "exited" /\ ~fault => pool = "closed"

\* Once it is told to stop, or a service has failed, the process exits: no upload, hash,
\* publication, attempt or race of the worker loop with the signal keeps it.
ExitFollows == (token \/ main # "services") ~> (main = "exited")
=============================================================================
