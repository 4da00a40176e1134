# DocParse: formal models of the job server

TLA+ models of DocParse, a Rust service that turns PDF files into structured
documents, with TLC configurations that check them and TLAPS proofs about them.
The definitions are translated from the code under `src/crates`; `PROJECT.json`
maps each one to its lines.

## 1. The system

| Part | State it keeps | Operations | What is hard |
|---|---|---|---|
| Job table (`database/query/parse_job.rs`) | one row per submission: status, attempts, version, lease token and deadline, progress, result name, error, deletion time | submit, claim (and reap), heartbeat, finish, mark_deleted, pending_cleanup, finish_cleanup | statements of many replicas interleave; leases expire under their holders; a claim also fails exhausted rows |
| Worker (`server/worker.rs`) | per attempt: a supervising task, an owned parse task, a deadline, a figure owner | claim, heartbeat, join, time out, finish, abort, drain | native calls cannot be cancelled; late writers; lost answers; process death at any step |
| Shared storage (`server/storage.rs`), figure files (`core/wasm_compat/native.rs`) | result files `{id}-{token}.json`, figure directories with a `.pending` marker, cached artifacts, lock files | publish, remove, figure write / keep / drop | several replicas and a database that is not in the same transaction |
| Sweeps (`server/cleanup.rs`), delete handler | none of their own: a row read earlier | delete, clean, recover_figures | decisions on stale rows; partial removal; retries |
| Result artifacts (`server/service/result_files.rs`) | cached page index and Markdown, three permits, a file lock per result | build or reuse | deletion against builders, timed-out callers whose build goes on |
| Event subscriptions (`routers/jobs/events.rs`) | a watch channel and a poller per job and instance | subscribe, poll, close | a poller ending while a client joins; coalescing; error events |
| Upload, application, shutdown (`routers/jobs/upload.rs`, `app.rs`, `main.rs`) | a shutdown token, upload permits, the services joined by `run_services` | stream, hash, publish, submit; drain, close, leave in order | a signal or a failing service at any step of a request, of the worker loop or of a closure |
| PDFium pool (`server/pdfium_pool`) | one supervised child per slot, idle leases, replacement budget | reserve, request, close, recycle, stop | replies racing cancellation and process exit |
| Queues and sessions (`common/queue`, `common/session`) | FIFO of requests with permits, closed flag, worker threads | push, pop a batch, close | cancelled waiters, close against publish |
| CPU pool, leases (`common/runtime.rs`, `lease.rs`) | slots, nested leases | run, cancel, drain | cancelled work keeps its slot |
| Pipeline (`core/runtime/pipeline.rs`) and executor (`core/pdfium`) | page slots, a render producer, page tasks | pre-scan, render, analyse, recover | a slot held for ever, fatal errors, fallback |
| Page stages (`core/runtime/stages.rs`, `table.rs`, `formula.rs`, `ocr/engine.rs`) | per region: admission to a budget of crops, a deadline, an answer | lay out, recognise, resolve tables, recognise formulas | models that never answer, work that outlives its caller, one failing region |
| Page assembly (`core/page.rs`, `fusion/order.rs`, `semantic/normalize.rs`, `semantic/list.rs`, `validate.rs`) | the blocks of one page, between assigned text and a page result | merge, order, relabel, recover lists, validate | several sources of evidence that contradict each other; the page is refused when the passes disagree |
| Text assignment, line assembly, formulas, rendering, model crates, bindings, web | per document, pure | geometry and text | numerics, not concurrency |

How they interact: a client uploads a file, which is published to storage before
a row is submitted. Workers of any replica reserve a PDFium process, claim a row
and start an attempt: one task parses and publishes, another renews the lease,
watches the deadline and finally writes the outcome through the lease's token.
Clients poll the row, or subscribe to its versions, and read the result file the
row names. Deleting commits a mark in the row first; the handler and every
replica's 30-second sweep then remove the files and acknowledge. The sweep also
reconciles figure directories with the rows. Nothing but the row is transactional.

`PROJECT.json` lists the hazards line by line. What must hold, per part:

- table: one live owner; expired owners fenced; attempts bounded; one outcome,
  final; versions order what clients see;
- worker, storage, sweeps: a visible result is whole and readable; nothing is
  removed that can still be served; a forgotten result is gone; deletions,
  markers and jobs come to an end;
- artifacts: no cache file after its source's deletion; permits return;
- subscriptions: every subscriber reaches the terminal snapshot or an end of stream;
- pool: a process serves one document at a time; clean replies are not lost;
  two crashes in a row stop it, cancellations do not;
- queues: order, capacity, no request accepted after close, none lost before it;
- pipeline: every page analysed exactly once, or one fatal error and no leaked task;
- page stages: pixels stay within the budgets, every region gets one answer, every
  page ends;
- page assembly: every line stays in one block, every page has a reading order, the order
  respects the evidence, and the analyzer never builds a page that its own validator refuses;
- services: what was answered with success is durable, a signal cuts nothing short, and
  the process always exits.

## 2. Modules

| Module | Models | Instance |
|---|---|---|
| `ParseJobs` | the table; one action per statement or transaction, called by anyone with any token | `MCParseJobs` |
| `JobContract` | abstract: what a client of one server is promised about a job | |
| `JobAttempts` | extends `ParseJobs`: attempts, files, sweeps, crashes; refines `JobContract` | `MCJobAttempts` |
| `JobAttemptsProofs` | theorems about `ParseJobs`, then about `JobAttempts` and its contract | |
| `PdfiumPool` | supervised PDFium processes, their leases and requests | `MCPdfiumPool` |
| `PdfiumPoolProofs` | theorems about `PdfiumPool` | |
| `Subscriptions` | the event streams of one job on one server | `MCSubscriptions` |
| `ServerProofs` | theorems about `Services` and about `Subscriptions` | |
| `ModelCalls` | abstract: what a model's shared queue promises its callers | |
| `Lines` | leaving a line that is served from the front | |
| `LineProofs` | lemmas about lines: joining, serving, leaving | |
| `ModelQueue` | the bounded queue and the native sessions behind it; refines `ModelCalls` | `MCModelQueue` |
| `ModelQueueProofs` | theorems about `ModelQueue` | |
| `AnalyzePages` | the page pipeline of documents that share render slots | `MCAnalyzePages` |
| `PageStages` | what the task of a page does with its regions, crops and models | `MCPageStages` |
| `PagePipelineProofs` | theorems about `AnalyzePages` and about `PageStages` | |
| `ResultArtifacts` | derived files of a result, against its removal | `MCResultArtifacts` |
| `ResultArtifactsProofs` | theorems about `ResultArtifacts` | |
| `Services` | uploads, the worker loop, the services of a process and their end | `MCServices` |
| `PageBlocks` | blocks, lines and boxes of a page | |
| `LayoutMerge` | lists of rows aligned across blocks, merging of blocks that contain each other, growth of figures | |
| `PageOrder` | reading order: constraints, removal of cycles, the sort | |
| `ListRecovery` | lists: joining their blocks, their items, what the validator asks of them | |
| `PageAssembly` | the three in their order, and the validator | `MCPageAssembly` |
| `PageAssemblyProofs` | theorems about `PageAssembly` | |

How they fit. `JobAttempts` sees a parse as one task that may publish, fail or hang;
`AnalyzePages` is the inside of that task, its `task[d][p]` is what `PageStages`
details for one page, and `PageStages` sees a model as something that may or may not
answer, which `ModelQueue` details. `PdfiumPool` supplies the processes that render
for `AnalyzePages`. `ResultArtifacts` details the removal of a result, which is
`RemoveFigures` and `RemoveResult` in `JobAttempts`, for the files derived from it.
`Services` puts the attempts (three phases of each), the pool (up, stopped, closed) and
the uploads into one process and ends them together. `PageAssembly` is the inside of the
last stage of a page in `PageStages`, after the models have answered. The semaphores of
`ModelQueue`, `AnalyzePages` and `PageStages` are fair lines in which nobody stands twice:
`Lines` defines leaving one from the middle, for all three.

### ParseJobs

`rows[j]` is the row, `issued[j]` (a history variable) counts the tokens ever
generated for it. A token is a fresh UUID per claim and is only compared within
its row, so the n-th claim hands out token n. Columns that no property reads
(file name, size, other timestamps) are left out; `error`, `finished` and `timed`
record that `error`, `finished_at` and `duration_ms` are set. PostgreSQL's clock is
reduced to what the statements ask of it: `lease` is `live` while `lease_until` is
in the future and `expired` afterwards; `LeaseExpires` is time passing.

| Action | Code |
|---|---|
| `Submit` | `submit` (a replay changes nothing) |
| `Claim`, `Reap` | `claim`: one transaction that fails up to `ReapBatch` exhausted rows and then takes one. SKIP LOCKED passes over rows other sessions hold, so any subset and any claimable row may be chosen |
| `Heartbeat`, `Succeed`, `Requeue` | `heartbeat`, `finish(Ok)`, `finish(Err)`, guarded by `Owns` = `Lease::condition` |
| `MarkDeleted`, `FinishCleanup` | `mark_deleted`, `finish_cleanup` |

### JobAttempts

An attempt is a pair of a job and a token, so no replica is named and any number
is covered. `sup[a]` is where its supervisor is, `op[a]` its parse task; `results`,
`dirs`, `markers` are the files in storage, `armed` the directories whose owner will
delete them on drop, `drawn` the documents that refer to images. The sweeps are sets
of decisions (`removals`, `acks`, `seen`, `adopt`, `discard`): reading a row adds an
element, acting on it removes one, a crash, timeout or error drops one
(`DropDecision`), and several replicas may decide the same.

Each `await` in the code where something else may happen is a step boundary: the
claim's commit and the start of the attempt (`StartAttempt` against `LoseClaim`),
the parse's return and the completion (`JoinOk`, then `FinishOk` or
`FinishRejected`), creating a directory and marking it, seeing a marker, judging it
by the row, and acting. A blocking call that was started runs to its end even when
its task is aborted (`Publish` and `MarkFigureDir` have no supervisor guard).
`Crash` removes an attempt's memory at any time. A lost answer is `FinishOk` with
the supervisor going to `ended`. A heartbeat that commits late leaves a live lease
live, which is no change here.

### PdfiumPool

A lease is a slot and the number its supervisor gave it. `phase[s]` is the point
`supervise` has reached, `bridge[s]` what the thread between supervisor and child is
doing, `holder[h]` where the handle of a lease is (in the inventory, reserved, with a
document, gone), `call[h]` and `reply[h]` the request in flight. `cancelled`,
`unresponsive` and `failed` are the three flags that decide whether a child is
reused, retired or charged to the crash budget; `crashes` and `late` are history.

| Action | Code |
|---|---|
| `Boot`, `BootFails`, `SpawnSupervisors` | `PdfiumPool::start`, its rollback |
| `Reserve`, `SkipStale`, `ReturnReservation` | `reserve`, which passes over dead handles; dropping a `Reservation` |
| `Request`, `Receive`, `Abandon` | `Lease::request`, its `biased` select over reply and cancellation, dropped futures |
| `Offer`, `TakeCall`, `Settle`, `SettleFatal`, `Condemn`, `NoticeExit`, `Interrupt` | the loop of `supervise` |
| `MissDeadline`, `MarkUnresponsive`, `ReportTimeout` | the three things a missed deadline does, in their order |
| `ShutdownAcknowledged`, `Kill`, `Reap`, `BridgeStuck`, `Retire`, `Replace`, `ReplaceFails` | `Process::stop` with its two deadlines, and the replacement budget |
| `ChildReplies`, `ChildExits`, `GlyphCallback`, `CallbackReturns`, `BridgeEnds` | the child and the bridge thread |

### Subscriptions

`row` is the durable version; `value[c]` and `stamp[c]` are the content of a watch
channel and how often it was modified, `poller[c]` where its poller is, `registry` the
channel new subscribers join. A client reads the row (`ReadRow`) before it takes the
registry's lock (`JoinChannel`, `Create`), and a poller leaves its loop (`StopPolling`, a terminal
`Publish`, `PublishError`) before it takes the lock to remove its entry (`Remove`).
`Deliver` shows the latest value only: watch channels coalesce. `late` marks clients
that joined in between.

### ModelQueue and ModelCalls

`request[r]` follows one input through `push_async` (`Push`, `Refuse`, `Drop`),
`publish` under the lock (`Publish`), the queue and a session's batch (`Pop`, `Reply`).
Permits are a FIFO semaphore (`free`, `waiters`): a permit passes directly to the
oldest waiter, a session gives permits back only after it has unlocked (`Release`; `unlocked[i]` are the
requests it took them from), and
`NotifyOne` wakes one parked session. `Panic` is `SessionExit`, which closes the queue
while the thread unwinds; `Spawn`, `Load`, `LoadFails`, `DropManager` and `JoinThreads`
are the life of the manager. `ModelCalls` has no permits, sessions or wakeups: a call is
pending, admitted, running and ended, at most `Capacity` are admitted, a stopped queue
takes nothing. `ImplementsCalls` maps `waiting` and `reserved` to pending.

### AnalyzePages

Per document: a producer that reserves a slot, renders and sends (`Reserve`, `Queue`,
`Granted`, `RenderEnds`, `RenderTimesOut`, `Deliver`), a driver that receives, collects,
aborts, drains and recovers (`Receive`, `Collect`, `Abort`, `Drained`, `LeaveLoop`,
`Recover`, `Finish`), and one task per page. `holders[d][p]` is the set of owners of a
slot; it is free when the last has let go. `TaskEnds` and `TaskAborted` may leave an
owner `background`: a crop that missed its deadline, or a blocking call, still works on
the page's pixels (see `PageStages`).

Two abstractions. The worker's reply and the revocation of its share of the slot
(`executor.rs:531-532`) are one step, `RenderEnds`, because nothing observes the state
between them. And a session that cannot be closed in time fails its whole parse although
every page was delivered: that is what `CloseSession` and `Abort` do, as in the code.

### PageStages

`stage[p]` is the stage of a page's task; `phase[r]` where a region is: waiting in the
queue of its kind's budget, being cropped on the CPU, in a model, being finished, done.
`lease[r]` holds the owners of its unit of the budget (`ResourceLease` is cloned into CPU
work, images and requests), `cpu` and `model` say where its pixels really are. `Begin`
is the window of `buffer_unordered`, `Admit` the semaphore, `Deadline` the per-region
timeout of tables and formulas, `TextDeadline` the per-page timeout of recognition,
which covers detection and lines together. `CpuFails` keeps the asymmetry of the code: a
panic while a table is cropped or filled fails the page, one while a text line or a
formula is cropped is an error of that recognition only. `Layout` may fall back to
geometry, and then the page has no tables and no formulas. The module follows the
`Fallback` table mode, in which rules run before the model.

### ResultArtifacts

Readers ask for a page or for Markdown, removers remove; each actor belongs to a
process. `CheckCache`, `Admit` (a permit), `Enter` (a thread of the HTTP CPU pool),
`TryLock` (the file lock, tried and not waited for), `Open`, `Persist`, `BuildReturns`
are `result_artifact`; `Decode` and `Answer` are the page request's use of an index;
`Unlink`, `RemoveSource`, `Acknowledge` are `SharedStorage::remove`. `Leave` is a caller
that gives up while its closure runs on, `Hang` a build that never returns, `Crash` a
process that dies, whose locks the kernel drops.

### Services

`token` is the shutdown token, `main` how far `main` has come (services, closing the
pool, draining the CPU, dropping the runtime, exited), `serving` the HTTP server,
`worker` the point `Worker::run` has reached and `armed` the branches of its `select!`
whose precondition held. `attempt[k]` is the task of a claimed job, `upload[u]` a request,
`cpu[u]` its closure in the HTTP CPU pool, `storing` the blocking publications, `inputs`
and `rows` what is durable. `fault` remembers that a service failed.

| Action | Code |
|---|---|
| `Signal`, `PoolStops` | the signal task; the pool's own end (`PdfiumPool`) |
| `Bind`, `BindFails`, `PoolIsMissed`, `StopListening`, `ServingEnds`, `ServicesEnd`, `Fail` | the three branches of `try_join!` in `run_services`, and what dropping them does |
| `ClosePool`, `Drained`, `Exit` | the rest of `main`; `DropRuntime` |
| `Top`, `First`, `Second`, `AllDisabled`, `Join`, `Notice`, `Reserve`, `ReserveFails`, `Claim`, `ClaimNothing`, `DropClaim` | `Worker::run`. `select!` evaluates its preconditions one after the other before it polls, and each reads the token again |
| `Proceed` | an attempt gives back its process, then reports |
| `Connect`, `HangUp`, `Begin`, `BodyEnds`, `Collect`, `Stored`, `StoreFails`, `Submit`, `Leave` | `upload`, up to its answer; a handler may be dropped at any await |
| `RunCpu` | `CpuPool::run`: a permit is kept until the output is collected or destroyed |

Abstractions: one hash closure per upload stands for the closures of its chunks; the
sweep, which only reads the token, ends at once; admission of an attempt is an idle
process; `drain_cpu` waits for the HTTP pool only, since the pages' closures are those of
`AnalyzePages`. Clients that read an answer slowly, and event streams, which end by
themselves (`StreamsEnd`), are left out of the drain of connections.

### PageAssembly

`phase` is the point in `PageAnalyzer::compose` and `complete`, `blocks` the blocks by
id; `runs`, `lists`, `groups`, `left` and `passed` belong to merging, which compares the group
of the block `left` with those after the block `passed`; `edges`, `active` and `ordered` to the
reading order; `page` is the result and `expected` the lines it must own.

| Action | Code |
|---|---|
| `Align`, `Group` | `aligned_row_groups`: the densest run of rows that still has enough blocks becomes a list; then every list and every other block is a group |
| `Absorb`, `Advance`, `Compose` | the merge loop over the blocks, then the growth of figures |
| `Connect` | the graph of constraints: structure, captions, residual cut, model |
| `Cut`, `Resolved` | removal of the weakest edge of a cyclic component |
| `Pop` | the topological sort and its choice among the ready blocks |
| `Complete` | relabelling of references and `RecoverLists` |
| `Validate` | the validator of a page, as far as blocks and lists go |

Boxes are in whole points and the text is ten points high. A line is an id, a box and what
its text looks like: its list marker by family and value, digits, vertical, closed, bold.
A region is one block. Which rows of one line are a symbol and its definition, and which of
them form a run, is computed from the boxes of the page (`Rows`, `AlignedRuns`).

### Mutants

Operators commented "Mutant of ..." are faulty variants of the definition that
follows them, one per checked property, listed in `PROJECT.json`. The specification
does not use them; each run's property fails with its mutant in place.

## 3. Runs

| Run | Instance | States | Checks |
|---|---|---|---|
| `table` | 2 jobs, 3 attempts, 1 progress value, batch 1, symmetric jobs | 13,530 | `LeaseIsNewest`, `OneOutcome`, `LiveLeaseIsExclusive`, `ExpiredLeaseIsFenced`, `TerminalIsFinal`, `VersionOrdersSnapshots` |
| `attempts` | 1 job, 2 attempts, both with figures | 424,310 | `CommittedIsReadable`, `ForgottenIsGone`, `FiguresOutliveTheirAttempt`, `ImplementsContract` |
| `attempts_live` | 1 job, 2 attempts, the first with figures, `FairSpec` | 44,502 | `DeletionsComplete`, `MarkersResolve`, `JobsSettle` |
| `pdfium_pool` | 1 slot, 2 leases, `FairSpec` | 46,075 | `OneDocumentPerProcess`, `IdleProcessIsReachable`, `CrashBudget`, `RepliesOutrankCancellation`, `RequestsReturn`, `SlotsRecover`, `StopCompletes` |
| `subscriptions` | 2 clients, 3 revisions, 2 channels, `FairStreamSpec` | 47,953 | `StreamsEndWithOutcome`, `RevisionsAdvance`, `StreamsEnd` |
| `model_queue` | 4 requests, 2 sessions, 2 permits, batches of 2, `FairSpec` | 309,742 | `PermitsConserved`, `NothingStranded`, `ImplementsCalls`, `CallersReturn` |
| `analyze_pages` | 2 documents of 2 pages, 1 slot, `FairSpec` | 316,803 | `PixelsHaveSlots`, `EveryPageOnce`, `ParsesEnd` |
| `page_stages` | 2 pages, 6 regions, 1 crop per kind, `FairStagesSpec` | 355,504 | `PixelsAdmitted`, `PageIsWhole`, `PagesEnd` |
| `artifacts` | 3 readers, 1 removal, 2 processes, 2 results, 1 permit, 1 thread, `FairSpec` | 80,680 | `NothingOutlivesTheResult`, `OthersAreServed` |
| `page_assembly` | 5,404 pages of up to 4 blocks, 8 of which have 10 or 11 | 67,165 | `PageIsAssembled`, `OrderRespectsEvidence`, `PageIsAccepted` |
| `services` | 3 uploads, 2 keys, 2 contents, 2 upload permits, 1 thread, 1 process, `FairSpec` | 843,144 | `NothingAcceptedIsLost`, `ExitFollows` |
| `shutdown_race` | the same | violation | `ShutdownClosesPool` |

One invariant of each module carries its type invariant as first conjunct:
`LeaseIsNewest` (`TableTypeOK`), `ForgottenIsGone`, `OneDocumentPerProcess`,
`StreamsEndWithOutcome`, `PermitsConserved`, `PixelsHaveSlots`, `PixelsAdmitted`,
`NothingOutlivesTheResult`, `NothingAcceptedIsLost`.

### Bounds, and why they are enough to be interesting

`table` needs two jobs because one claim transaction touches two rows (one failed, one
taken), and three attempts so that a first, a middle and a last attempt differ; with
batch 1 some exhausted rows wait. In `attempts` the files of different jobs never meet
(every name starts with the job's id and every statement but the claim addresses one
row), so one job suffices; two attempts give a predecessor that is still writing while
its successor runs. `attempts_live` gives figures to the first of two attempts only
(`FigureAttempts`), the one that a second can supersede. Deadlock is checked in these
runs and never arises.

`pdfium_pool`: the slots share only the inventory and the stop token, so one slot has
every interleaving of a supervisor with its child, bridge and clients; two leases are
what it takes to reuse a child after a document, to replace it and to fail a second
time. `subscriptions`: two clients, one that keeps a channel open and one that joins,
two channels so that one can be superseded, three revisions so that one is neither
first nor last. `model_queue`: with four requests, two are queued while one waits for a
permit and one runs; two sessions are needed for lost wakeups and for a panic beside a
survivor. `analyze_pages`: with one slot every page competes with the other document's,
and with two pages a document can time out, be aborted or be cancelled before its last.
`page_stages`: two tables of different pages compete for one crop, two lines of one page
for its window, and a detection and a formula pass their own stages.
`artifacts`: two readers share a process, a third one and the removal another, and the
readers' wishes range over one or two results and both artifacts (`Choices`).
`services`: one key is submitted with two contents and one content under two keys
(`Crossed`), so a replay, a conflict and a shared input all occur; with three uploads and
two permits one is turned away, and with one thread closures queue.

`page_assembly` is not about interleavings but about inputs: each behaviour is one page,
and the actions only make its passes readable. Its pages come in four families.
`OrderPages` places four blocks of three casts in every choice of cells of two columns,
below them, or in the margin, with the model's order up or down: contradictions between
geometry, captions, residual cut and model, and so the cycles, come from here.
`MergePages` takes an algorithm detected twice, line numbers or an empty strip at its edge,
and a block that straddles that edge, in all orders of their ids, on which the merging depends.
`ListPages` takes four rows with every choice of indents, markers and gaps, in one block or
split in two with a figure beside them. `RowPages` places five symbols beside their five
definitions: they form a list, which other blocks join or not, or they are kept from it by one
point of drift or a gap. The empty page is there too. Cycles of more than four blocks, pages
that mix the families and lists of more than five rows are beyond the instance; that every
page is merged and put in order, whatever the number of its blocks, is proved.

The bounds themselves: `MaxAttempts` is the server's own setting; `MaxProgress` bounds
the progress snapshots of an attempt (0 where progress is irrelevant); `ReapBatch`
stands for the code's 64; `MaxLeases`, `MaxVersion`, `MaxChannels`, `PageCount` and
`Regions` bound histories that the code does not bound. Versions of a row need no bound,
because attempts and progress are bounded. In the runs over finite histories (all but
the first three) the system may really stop, when every lease, request, page or stream has
been used up or the process has exited, and deadlock is not checked there: that nobody is
left waiting is what the liveness properties say.

### Findings

`shutdown_race` checks what the server README says at line 118 ("Normal service shutdown
drains jobs and explicitly closes the pool") and fails. `Worker::run` reads the token at the
top of its loop (`worker.rs:176`) and again in two preconditions of its `select!`
(lines 194 and 214). These are evaluated one after the other, before any branch is
polled, and the signal's task runs on another thread. If the token is cancelled after the
first reading and before the others, while no attempt runs, every branch is disabled and,
without an `else`, `select!` panics: the panic unwinds through `try_join!` and
`block_on`, and neither `pool.shutdown()` (`main.rs:322`) nor `drain_cpu()` (line 89) is
reached. The counterexample is `Top`, `Signal`, `First`, `AllDisabled`, `Exit`. An `else`
branch that goes back to the top of the loop removes it. `NothingAcceptedIsLost` makes
this one exception, and shows that there is no other.

Disagreements met while modelling that have no run of their own, because the properties
that hold say where they stop:

- `cleanup.rs:161` says "abandoned attempts lose theirs", but `tempdir_in` and the write
  of `.pending` are two steps (`native.rs:228-234`), and a worker killed between them leaves
  a directory the sweep skips (`cleanup.rs:136-142`). No client notices; the space is lost,
  which the server README admits of crashes in general (line 417). `MarkersResolve` is about
  directories with a marker.
- `events.rs:112` says "never replay an older revision". A failed poll stores the error
  event with version -1 (`events.rs:177`); until its poller has removed the registry
  entry, a client that joins replaces it by the row it read earlier, and another subscriber
  is then sent an older revision and not the error. `RevisionsAdvance` shows that this is the
  only way: before an error is stored in a channel, no stream goes back.
- `result_files.rs:121` introduces a fast path so that a hit does not queue behind
  document-sized builds, but a page request still decodes its index on the same two
  threads (`result.rs:110`), and three permits let builds occupy both. `OthersAreServed`
  needs no deadline, and holds as long as builds end.
- `validate.rs:739` expects that "Only full containment should have merged", but merging
  looks at a skipped block again only when its group has grown (`normalize.rs:319`), so a
  block that lies in one that joined later without enlarging the group stays nested, and
  the page is refused. `PageIsAccepted` shows that this is the only refusal.
- The JSON of an attempt that published and was then rejected, timed out or abandoned
  is never removed; the server README documents it.

Two more were met while reading the formula consumers, which no module covers yet:

- the server README says that "sequence-level failures stay scoped to the original caller"
  (lines 529-530), but one row of a native Texo batch with a non-finite logit makes
  `Generation::advance` return an error for the whole batch (`formula-texo/src/model.rs:253`);
  it is not an ONNX error, so `complete_with_retry` (`formula/src/queue.rs:161`) does not
  retry in halves and every caller of the batch gets it.
- the comment of `Generation::cancel` says that cancelled rows only discard their own
  outputs (`model.rs:187`). It answers true when every row is finished or cancelled; the
  native loop then stops and decodes, the browser's returns "Texo batch canceled" for the
  whole batch (`wasm_compat.rs:324`), also to a caller whose row was already complete.

### Fairness

Each fair specification assumes of the code only what its scheduling does.

`JobAttempts`:

- workers poll (`worker.rs:210`, every 500 ms): weak fairness of reaping or starting;
- a supervisor leaves its loop at `job_timeout` at the latest and its database calls
  return: weak fairness of `Supervise(a)`. The parse itself is owed nothing, a native
  call may hang for ever;
- a lease without a supervisor renewing it runs out: weak fairness of
  `Expire` while `Unattended`;
- every replica sweeps every 30 seconds (`cleanup.rs:180`), lists what is pending and
  retries: weak fairness of listing and looking, strong fairness of the steps that a
  crash or error may interrupt, because storage and database failures are transient.

`PdfiumPool`: supervisor tasks and waiting requests are polled (their timers included),
and a bridge wakes when its peer is gone. The child, a glyph resolver and the clients owe
nothing, so `RequestsReturn`, `SlotsRecover` and `StopCompletes` rest on the deadlines.

`Subscriptions`: a poller sleeps for its interval and runs; the server writes what a
stream yields. `StopPolling` is strongly fair because `select!` takes a ready branch at random,
so a poller cannot for ever prefer its query to a shutdown. The job, the clients and the
shutdown owe nothing.

`ModelQueue`: runnable producers are polled, session threads run and a model returns from
every batch. Callers and the drop of the manager owe nothing.

`AnalyzePages`: producers, drivers, tasks and background work run on; a render that hangs
is stopped by `OPERATION_TIMEOUT` while somebody waits for it. A worker nobody waits for
owes nothing. Background work must end, which for a crop in a model is what `ModelQueue`
assumes of models; a model that never returns keeps the page slot for ever.

`PageStages`: the layout engine must answer, for it has no deadline of its own; CPU work
ends; deadlines pass. Text, table and formula models owe nothing.

`ResultArtifacts`: tasks and closures run, and both semaphores (permits and threads) are
FIFO, so a reader that could proceed again and again does (strong fairness per reader). No
deadline has to expire and a build may hang.

`Services`: tasks are polled and closures and publications end; `job_timeout` and
`upload_timeout` pass, so attempts proceed and handlers that wait are dropped; a graceful
shutdown closes idle connections; the pool closes (`StopCompletes`). Clients, the signal
and the pool's own failure owe nothing.

### What some properties leave out on purpose

`ParsesEnd` excludes `Pinned`: a parse cancelled while its render is wedged, before the
render's deadline, drops the future that would revoke the worker's share of the slot
(`executor.rs:356`), and only the worker's own return frees it. `OthersAreServed` excludes
the result whose lock a hanging build holds and readers of the process it exhausts:
these are released by restarting that process. `StreamsEndWithOutcome` excludes streams
that joined while their poller was leaving: they end early and the client reconnects.
`NothingAcceptedIsLost` promises nothing about requests in progress when a service
fails, which ends the process, and excludes the panic of `shutdown_race`; accepted uploads
keep their rows even then. `PageIsAccepted` excludes pages with a nested block that
merging left behind (see Findings).

## 4. Proofs

Every theorem is about every value of the constants that satisfies the assumption named in
the module that declares them (`ParseJobsAssumption`, `PdfiumPoolAssumption`, ...): naturals,
finite sets where something is counted, at least one of what the code cannot run without.
In each module the properties are not inductive; a conjunction (`IInv`, `TableInv`,
`StreamsInv`, `StagesInv`, `Assembling`) is, and its parts say what the code relies on without
writing it down. TLC checked each of them on the instance of the run before it was proved. The proofs have one lemma per action or per group
of actions of one actor, and under it one step per part of the invariant.

### The job table

`JobAttemptsProofs` begins with the table alone and proves, for every set of jobs, attempt
limit, progress bound and batch size (`ParseJobsAssumption`: naturals, at least one attempt,
at least one reaped row), every property that `table` checks.

The invariants are not inductive one by one: `OneOutcome` needs `LeaseIsNewest` to
know that the owner who finishes is the newest attempt, and type correctness needs
`attempts = issued` to know that a fresh token is within the budget. Their
conjunction `TableInv` is inductive. Because a statement computes each row from the
row alone, the argument is per row: `RowOK(r, n)` says what `TableInv` says of a row
`r` with `n` issued tokens (`TableByRow`), one lemma per statement shows that it keeps
`RowOK`, and `InvStep` assembles them. For the action properties `StepByRow` shows
that each step moves each row by one of eight moves (`RowMove`), and each theorem
goes through those.

| Theorem | States |
|---|---|
| `TableInvariant` | `TableSpec => []TableInv` |
| `TableTypeCorrect`, `NewestLease`, `SingleOutcome` | its three conjuncts |
| `LeaseExclusion`, `ExpiryFences` | `LiveLeaseIsExclusive`, `ExpiredLeaseIsFenced` |
| `OutcomeIsFinal`, `VersionsOrder` | `TerminalIsFinal`, `VersionOrdersSnapshots` |

### Attempts, storage, sweeps and the contract

The rest of `JobAttemptsProofs` is about a submission across workers, storage and sweeps, and
proves every safety property of `attempts`, the refinement included. `TableStep` shows that
each step of `JobAttempts` is a statement of the table or leaves it alone, which brings
`TableInv` into `IInv`. What is left speaks of one attempt `a` at a time (`AttemptOK`):

- `Owning`: while the table would still accept its completion, what the completion will
  promise is there. This is what carries `CommittedIsReadable` over `FinishOk`.
- `Settled`, `Joined`: once the outcome is committed the attempt's parse is gone and its
  directory disarmed, so that nothing of its own removes the files. They hold because
  `keep(false)` comes before the completion is sent.
- `Discarded`: a decision to discard a directory stays right however late it is carried out,
  because an attempt whose token the row no longer has, and whose result no visible row
  names, never gets either back (`Doomed`). `Removed` says the same of the decisions to remove a result.
- `Unborn`, `Drawing`, `Marked`: what a token that was not issued, a directory without its
  marker, and a sweep that has seen a marker imply.
- `Readable`, `Forgotten`: the two properties themselves, for one attempt.

A step moves one attempt and some rows; an attempt of which only the row moved is a
`Bystander`. `ContractIsKept` shows initial states and then each step to map to an initial
state, a step or a stutter of `JobContract`; the steps that matter are the statements that
move the status of a row and the removal of a result, and `Served` is what the invariant
says of their images.

| Theorem | States |
|---|---|
| `AttemptsInvariant` | `Spec => []IInv` |
| `CommittedCanBeRead`, `ForgottenStaysGone` | `CommittedIsReadable`, `ForgottenIsGone` |
| `FiguresOutlive` | `FiguresOutliveTheirAttempt` |
| `ContractIsKept` | `Spec => ImplementsContract`, the refinement of `JobContract` |

### The model queue

`LineProofs` has the lemmas about lines that this section and the page pipeline rest on:
joining at the end (`Joined`), serving from the front (`Served`), leaving from anywhere
(`LeftLine`), and that a line is as long as its set (`LineSize`).

`ModelQueueProofs` proves the safety properties of `model_queue` and the refinement of
`ModelCalls`, for any set of requests and any numbers of sessions, permits and requests
per batch. `PermitsConserved` counts, and counting needs the holders to be distinct: `HandsOK`
says that no request is in the hands of two sessions, and what the state of a session says
about its hands; then `PermitsOK` (free permits and holders make up the capacity) is kept
because each step moves known requests in and out of `Holders` (`WokenFirst` for those that
permits are handed to). `NothingStranded` needs `LifeOK`: an open queue has lost no session,
and none has parked before all have started.

| Theorem | States |
|---|---|
| `QueueInvariant` | `Spec => []IInv` |
| `PermitsAreConserved`, `NoLostWakeup` | `PermitsConserved`, `NothingStranded` |
| `CallsAreImplemented` | `Spec => ImplementsCalls`, the refinement of `ModelCalls` |

### The PDFium pool

`PdfiumPoolProofs` proves the four invariants of `pdfium_pool` for any finite set of slots and
any number of leases. `SlotOK` says what a supervisor's phase implies of its child, bridge,
document (`ProcessOK`) and budget (`BudgetOK`: the history `crashes` and the flags of the
code agree). `LeaseOK` relates a lease's handle to its slot: a handle exists once its lease
is handed out and a dropped one has said so (`HandleOK`), an unused one finds its process as
it was offered (`UnusedOK`), during an exchange the caller waits without an answer or has
dropped its handle (`ExchangeOK`), a lease that ended well is not cancelled under a caller
that still waits (`EndedWellOK`), and a missed deadline is published before anybody can be
woken by it (`LateOK`). `BootOK` says that no lease is handed out before every slot has
booted. A step of a supervisor, child or bridge concerns one slot and its current lease, a
step of a client one lease; everybody else is a bystander.

| Theorem | States |
|---|---|
| `PoolInvariant` | `Spec => []IInv` |
| `DocumentsAreIsolated`, `ProcessesAreReachable` | `OneDocumentPerProcess`, `IdleProcessIsReachable` |
| `BudgetIsKept`, `CallersLearnTheOutcome` | `CrashBudget`, `RepliesOutrankCancellation` |

### The page pipeline

`PagePipelineProofs` begins with `AnalyzePages` and proves both invariants of `analyze_pages`
for any documents, any number of pages and of slots. That pixels have slots follows from knowing, for every place pixels can
be in, that this place is among the owners of the page's slot (`OwnersOK`), which in turn
needs to know how far the producer has come (`PlaceOK`) and what has been rendered
(`RenderedOK`); `SlotsOK` counts the occupied slots, and when one is freed it goes to the
oldest producer in the line (`HandOver`, from `Served` and `LeftLine`). `BooksOK` is the
accounting behind `EveryPageOnce`: the facts of a page are still with the driver, or a task
has them, or its result was collected, exactly one of the three.

| Theorem | States |
|---|---|
| `PipelineInvariant` | `Spec => []IInv` |
| `PixelsAreBounded`, `PagesAreCountedOnce` | `PixelsHaveSlots`, `EveryPageOnce` |

### Page stages

The rest of `PagePipelineProofs` proves both invariants of `page_stages` for any page tasks,
any regions of any pages, any windows and any budgets (`StagesAssumption`). The
inductive invariant `StagesInv` adds to the type what the five variables that describe a
region say of one another:

- `RegionOK`: the owners of a unit of the budget are exactly the caller, the CPU work and
  the model that have the region, so that pixels a deadline, a panic or an abort left
  behind are counted as long as somebody works on them. This is `Admitted(k) = CropPixels(k)`,
  and it needs to know that a region is only worked on in its own stage of a page that runs.
- `BudgetOK` counts: only `Admit` raises it, and only below `Capacity`; every other step lets
  the admitted crops fall or stay (`BudgetsFall`).
- `QueuesOK`: who stands in the line of a budget is who is queued, once each. The lemmas of
  `LineProofs` carry it over joining, serving, and leaving from anywhere.
- `AnswerOK`, `PageOK`: a region is answered once and only when it is done, and a page leaves
  its tables and its formulas only when all of them are.

`PageIsWhole` looks at finished pages only and is hard for the step that ends a stage: there
`PageOK` has to know that no region has been done without an answer, which a page that failed
may have (`AnswerOK` excepts it, and `PageOK` never speaks of one).

| Theorem | States |
|---|---|
| `PixelsAdmittedTheorem` | `StagesSpec => []PixelsAdmitted`, with the module's types |
| `PagesAreWhole` | `StagesSpec => []PageIsWhole` |

### Services

`ServerProofs` begins with `Services` and proves `NothingAcceptedIsLost` for any uploads, keys, contents, permits and
processes. `MainOK` says which services have ended at each point of `main`, `ServicesOK` that
they end for a signal only and after their last connection and task, `UploadsOK` that only a
broken process cuts requests off and an orderly one leaves the CPU pool empty, `DurableOK`
that an upload in `submitting` has published the input its row will name.
A process is `Broken` when a service failed or the worker loop panicked (see Findings).

| Theorem | States |
|---|---|
| `ProcessInvariant` | `Spec => []IInv` |
| `AcceptedIsDurable` | `Spec => []NothingAcceptedIsLost` |

### Event streams

The rest of `ServerProofs` proves the two safety properties of `subscriptions` for any
clients, any number of channels and of revisions. `StreamsEndWithOutcome` needs two more
parts. `ChannelsOK` says that a channel in the registry has a poller, and that a poller leaves
only for a reason every listener can tell: the end of the job, an error, the shutdown, or
that all its listeners came late. `StreamsOK` says that no stream is shown more than its
channel holds, and that an open one which has seen all its channel has to show has not
seen the end: the writer of the last revision always leaves a change to be seen.

`RevisionsAdvance` is an action property. Both writers of a channel, the poller and a client
that joins with the row it has read, go through `Raise`, which only moves forward (`Raised`);
and what `StreamsOK` says of a stream and its channel is that what it will be sent is not
behind what it has shown (`ShownAdvances`).

| Theorem | States |
|---|---|
| `StreamsOutcomeTheorem` | `StreamSpec => []StreamsEndWithOutcome`, with the module's types |
| `RevisionsAdvanceTheorem` | `StreamSpec => RevisionsAdvance` |

### Derived files

`ResultArtifactsProofs` proves `NothingOutlivesTheResult` with the module's `TypeOK`, for
any number of readers, removers, processes, results, permits and threads
(`ArtifactsAssumption`: disjoint actors, finitely many readers, at least one permit and
thread). It does not follow from itself. `Coordination` is inductive: who builds, unlinks or
removes holds the lock of its result (`Exclusion`), a builder that has opened its source
still has one (`BuildsHaveSource`), a remover past the source has removed it
(`RemovalsAreDone`), and derived files exist only beside their source or in the hands of
the remover (`FilesHaveSource`). `TypeOK` bounds permits and threads by the readers that
hold them; `RoomForOne` is the counting argument behind it.

| Theorem | States |
|---|---|
| `ResultsLeaveNothing` | `Spec => []NothingOutlivesTheResult` |

### The assembly of a page

`PageAssemblyProofs` is about any set of pages that assignment can hand over: finitely many
blocks with numbers for ids, proper boxes, numbers for the bounds of images and the places of
lines, and no line in two of them (`PagesAssumption`, which TLC evaluates on the pages of the
run).

| Theorem | States |
|---|---|
| `PagesAreAssembled` | `Spec => []PageIsAssembled`: no page ends in an internal error, and each of its lines is in one block, once |
| `OrderIsSorted` | `Spec => []OrderRespectsEvidence`: structural edges survive, and every block comes after those with an active edge to it |

`PagesAreAssembled` follows the page through its passes, and its invariant `Assembling` says
what each pass leaves to the next:

- while lists are looked for, no block is in two of them and none is empty (`ListsOK`); while
  groups are joined, every block is in exactly one of them and as it was assigned (`GroupsOK`,
  `BlocksOK`). A group therefore has a primary member, because preference is a strict and
  total order (`PrefersOrders`, `PrimaryMember`), no two groups have the same one, the
  smallest box around its members is proper (`EnvelopeProper`), and so is what is left of it
  when a figure grows (`PlaceProper`);
- the lines of a group, put in order again, are the lines of its members, each once
  (`ReassembledLines`): by how many others precede it, every line of a finite set gets a
  number of its own, and every number is taken (`Ranked`). As every block is in one group, no
  line is lost or doubled (`OnceEach`, kept by `ComposeKeeps`);
- then all boxes are proper (`Sound`), and every structural constraint follows a strict order:
  the main flow by position, then the margin from top to bottom (`ConstraintsDescend`). A
  cyclic component whose edges were all structural would have a block before itself
  (`ComponentsCanBeCut`; reachability is the membership in every closed set, so no induction
  is needed), so each component has an edge to give up;
- once no component is cyclic, reaching is a strict order of finitely many blocks, and what
  is not yet placed has a first block (`FirstElement`), which is ready (`SomethingIsReady`): the
  sort ends only when all blocks are placed.

`FirstElement` replaces the inductions one would expect here: it takes the element with the
fewest predecessors, from the well-foundedness of the natural numbers.

### What is not proved

Among the safety properties only `PageIsAccepted` is model-checked and not proved: that
what lists make of a page satisfies the validator (that merging keeps the owners of lines is
proved). The items of a list and the joining of its blocks are folds over sequences, whose
results would need induction over data, and whether blocks nest after merging is a question of
the whole sequence of joins. `ShutdownClosesPool` does not hold (see Findings).
All liveness is model-checked: the prover has neither fairness nor `ENABLED`.

## 5. Plan

Modules still worth writing, in order.

1. `FormulaConsumers`: the asynchronous queue (`common/src/queue.rs`) from which PP, Texo
   and HTTP consumers take formula crops, retries in halves, cancelled and failing
   neighbours, a consumer whose session thread panicked and goes on draining the queue, the
   pool's admission and timeout; its property is that a live caller loses a good crop only
   for reasons of the whole batch.
2. The grids of tables, the merging of text sources, the assignment of text to regions and
   the cut of the rest, the page index of a result.

## 6. Not modelled

Of what happens to one page, the assembly of blocks is modelled and the rest is not:
text assignment, the cut of unclaimed text, line assembly, formulas, tables, rendering and
model inference. But for the formula consumers (see Plan),
these are numeric, pure transformations over floating-point boxes and strings, and make
up most of the source lines: they have no interleavings, most of their inputs cannot be
bounded to small sets without losing what makes them hard, and tests with real documents
reach them better. PDFium and its bindings are foreign or generated code; configuration
enters as CONSTANTS; metrics and logging change nothing. The browser builds replace
threads by cooperative tasks and are separate code.

Of the table, the read-only queries (`list`, `backlog`, `ready`) and the age order of
claims are left out; a starving row is possible under SKIP LOCKED and is not excluded by
the model. Of storage, temporary files are left out. Of uploads, limits on bytes, routing
and the compression of answers. `--max-attempts` is the same on every
replica. Losing data that was synced to disk is not considered. Of the pool, the coding of
messages and the content of replies; of the queues, the asynchronous one of
the formula consumers and the browser builds; of the pipeline, opening and text extraction, which touch nothing shared; of the
page stages, the table modes other than `Fallback`, the second budget a table's model
takes inside its crop's (it is only ever requested by the holder of a crop, and released
with the answer), and the threads of the CPU pool, which this model takes to be enough.
