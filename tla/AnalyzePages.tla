---------------------------- MODULE AnalyzePages ----------------------------
(***************************************************************************)
(* The page pipeline of documents that share one render queue (core:       *)
(* runtime/pipeline.rs, pdfium/executor.rs, common queue/page.rs). For     *)
(* each document a producer renders page after page, taking a slot before  *)
(* each, and hands the pages to a driver, which runs one task per page. A  *)
(* slot is free again when its last owner has let go: the producer, the    *)
(* native worker, the delivery, the task, or work the task left behind in  *)
(* the CPU pool or in a model (PageStages).                                *)
(***************************************************************************)
EXTENDS Lines, FiniteSetsExt

CONSTANTS
  Documents,  \* parses that run at the same time
  PageCount,  \* bound: pages of each document
  Slots       \* capacity of the render queue

ASSUME PipelineAssumption == PageCount \in Nat \ {0} /\ Slots \in Nat \ {0}

VARIABLES
  tolerant,      \* documents parsed with continue_on_error
  driver,        \* driver[d]: opening, driving, aborting, recovering, linking, or how it ended
  producer,      \* producer[d]: none, reserve, waiting, rendering, sending, closing,
                 \* finished, failed, observed, dropped
  next,          \* next[d]: the page the producer is at
  rendered,      \* rendered[d][p]: none, ok, error, fatal, timeout
  worker,        \* worker[d]: the page the native worker is in, 0 if it is idle
  channel,       \* channel[d]: the page delivered and not yet received, or 0
  extracted,     \* extracted[d]: pages whose native facts nobody has taken yet
  task,          \* task[d][p]: none, running, done, error, aborting
  results,       \* results[d][p]: how many results page p has
  holders,       \* holders[d][p]: the owners of the slot of page p
  line           \* documents whose producer waits for a slot, oldest first

slotVars == <<holders, line>>
producerVars == <<producer, next, rendered, worker>>
driverVars == <<driver, extracted, task, results>>
vars == <<tolerant, slotVars, producerVars, channel, driverVars>>

Pages == 1..PageCount
Ended == {"done", "failed", "cancelled"}
Owners == {"producer", "worker", "channel", "task", "background"}
Occupied(h) == {dp \in Documents \X Pages : h[dp[1]][dp[2]] # {}}
TimedOut(d) == \E p \in Pages : rendered[d][p] = "timeout"

Init ==
  /\ tolerant \in SUBSET Documents
  /\ driver = [d \in Documents |-> "opening"]
  /\ producer = [d \in Documents |-> "none"] /\ next = [d \in Documents |-> 1]
  /\ rendered = [d \in Documents |-> [p \in Pages |-> "none"]]
  /\ worker = [d \in Documents |-> 0] /\ channel = [d \in Documents |-> 0]
  /\ extracted = [d \in Documents |-> {}]
  /\ task = [d \in Documents |-> [p \in Pages |-> "none"]]
  /\ results = [d \in Documents |-> [p \in Pages |-> 0]]
  /\ holders = [d \in Documents |-> [p \in Pages |-> {}]] /\ line = <<>>

-----------------------------------------------------------------------------
(* Slots. A slot whose last owner lets go passes to the oldest waiter.      *)

\* Owners become h and the waiting producers l, then free slots are assigned.
Reassign(h, l) ==
  LET vacant == Slots - Cardinality(Occupied(h))
      n == Min({vacant, Len(l)})
      woken == {l[j] : j \in 1..n}
  IN /\ holders' = [d \in Documents |->
           IF d \in woken THEN [h[d] EXCEPT ![next[d]] = {"producer"}] ELSE h[d]]
     /\ line' = SubSeq(l, n + 1, Len(l))

\* Page p of d changes hands.
Pass(d, p, from, to) ==
  Reassign([holders EXCEPT ![d][p] = (@ \ from) \cup to], line)

-----------------------------------------------------------------------------
(* The producer and the native worker of a document.                        *)

StartRender(d) ==
  /\ worker' = [worker EXCEPT ![d] = next[d]]
  /\ producer' = [producer EXCEPT ![d] = "rendering"]
  /\ UNCHANGED <<tolerant, next, rendered, channel, driverVars>>

\* PageQueue::reserve, before the page is rendered.
Reserve(d) ==
  /\ producer[d] = "reserve" /\ Cardinality(Occupied(holders)) < Slots
  /\ Pass(d, next[d], {}, {"producer", "worker"})
  /\ StartRender(d)

Queue(d) ==
  /\ producer[d] = "reserve" /\ Cardinality(Occupied(holders)) = Slots
  /\ producer' = [producer EXCEPT ![d] = "waiting"]
  /\ line' = Append(line, d)
  /\ UNCHANGED <<tolerant, holders, next, rendered, worker, channel, driverVars>>

Granted(d) ==
  /\ producer[d] = "waiting" /\ holders[d][next[d]] # {}
  /\ Pass(d, next[d], {}, {"worker"})
  /\ StartRender(d)

\* The worker replies and lets go; a dead one is a fatal error.
RenderEnds(d) ==
  /\ producer[d] = "rendering" /\ worker[d] = next[d]
  /\ \E o \in {"ok", "error", "fatal"} : rendered' = [rendered EXCEPT ![d][next[d]] = o]
  /\ worker' = [worker EXCEPT ![d] = 0]
  /\ producer' = [producer EXCEPT ![d] = "sending"]
  /\ Pass(d, next[d], {"worker"}, {})
  /\ UNCHANGED <<tolerant, next, channel, driverVars>>

\* Mutant of RenderTimesOut: the wedged worker keeps its share of the slot.
RenderTimesOutUnrevoked(d) ==
  /\ producer[d] = "rendering"
  /\ rendered' = [rendered EXCEPT ![d][next[d]] = "timeout"]
  /\ producer' = [producer EXCEPT ![d] = "sending"]
  /\ UNCHANGED <<tolerant, slotVars, next, worker, channel, driverVars>>

\* OPERATION_TIMEOUT: the caller revokes the worker's share of the slot.
RenderTimesOut(d) ==
  /\ producer[d] = "rendering"
  /\ rendered' = [rendered EXCEPT ![d][next[d]] = "timeout"]
  /\ producer' = [producer EXCEPT ![d] = "sending"]
  /\ Pass(d, next[d], {"worker"}, {})
  /\ UNCHANGED <<tolerant, next, worker, channel, driverVars>>

\* A worker nobody waits for any more finishes; a wedged one never does.
WorkerReturns(d) ==
  /\ worker[d] # 0 /\ producer[d] # "rendering"
  /\ worker' = [worker EXCEPT ![d] = 0]
  /\ Pass(d, worker[d], {"worker"}, {})
  /\ UNCHANGED <<tolerant, producer, next, rendered, channel, driverVars>>

\* Mutant of Deliver: the slot is not sent along with the page.
DeliverUnleased(d) ==
  /\ producer[d] = "sending" /\ channel[d] = 0
  /\ channel' = [channel EXCEPT ![d] = next[d]]
  /\ Pass(d, next[d], {"producer"}, {})
  /\ next' = [next EXCEPT ![d] = @ + 1]
  /\ producer' = [producer EXCEPT ![d] =
       IF rendered[d][next[d]] = "timeout" \/ next[d] = PageCount THEN "closing" ELSE "reserve"]
  /\ UNCHANGED <<tolerant, rendered, worker, driverVars>>

\* The slot travels with the page; after a timeout nothing more is rendered.
Deliver(d) ==
  /\ producer[d] = "sending" /\ channel[d] = 0
  /\ channel' = [channel EXCEPT ![d] = next[d]]
  /\ Pass(d, next[d], {"producer"}, {"channel"})
  /\ next' = [next EXCEPT ![d] = @ + 1]
  /\ producer' = [producer EXCEPT ![d] =
       IF rendered[d][next[d]] = "timeout" \/ next[d] = PageCount THEN "closing" ELSE "reserve"]
  /\ UNCHANGED <<tolerant, rendered, worker, driverVars>>

\* An unresponsive worker is not asked again; any other may fail to close in time.
CloseSession(d) ==
  /\ producer[d] = "closing"
  /\ \E end \in {"finished"} \cup (IF TimedOut(d) THEN {} ELSE {"failed"}) :
       producer' = [producer EXCEPT ![d] = end]
  /\ UNCHANGED <<tolerant, slotVars, next, rendered, worker, channel, driverVars>>

-----------------------------------------------------------------------------
(* Page tasks.                                                              *)

\* A rendered page is analyzed; a page that could not be rendered falls back to its
\* native text if the parse tolerates it. Either may fail. Crops that missed their
\* deadlines share the slot with the CPU pool or a model.
TaskEnds(d, p) ==
  /\ task[d][p] = "running"
  /\ \E end \in {"done", "error"} :
       /\ end = "done" =>
            rendered[d][p] = "ok" \/ (rendered[d][p] # "fatal" /\ d \in tolerant)
       /\ task' = [task EXCEPT ![d][p] = end]
  /\ \E left \in {{}} \cup (IF rendered[d][p] = "ok" THEN {{"background"}} ELSE {}) :
       Pass(d, p, {}, left)
  /\ UNCHANGED <<tolerant, producerVars, channel, driver, extracted, results>>

\* An aborted task is gone at its next await; CPU work it started keeps the slot.
TaskAborted(d, p) ==
  /\ task[d][p] = "aborting"
  /\ task' = [task EXCEPT ![d][p] = "none"]
  /\ \E left \in {{}, {"background"}} : Pass(d, p, {"task"}, left)
  /\ UNCHANGED <<tolerant, producerVars, channel, driver, extracted, results>>

BackgroundEnds(d, p) ==
  /\ "background" \in holders[d][p]
  /\ Pass(d, p, {"background"}, {})
  /\ UNCHANGED <<tolerant, producerVars, channel, driverVars>>

-----------------------------------------------------------------------------
(* The driver: open, scan, drive, recover, link.                            *)

\* Opening and pre-scanning touch nothing shared; a damaged page passes if tolerated.
ScanDocument(d) ==
  /\ driver[d] = "opening"
  /\ \/ /\ driver' = [driver EXCEPT ![d] = "driving"]
        /\ producer' = [producer EXCEPT ![d] = "reserve"]
        /\ extracted' = [extracted EXCEPT ![d] = Pages]
     \/ /\ driver' = [driver EXCEPT ![d] = "failed"]
        /\ UNCHANGED <<producer, extracted>>
  /\ UNCHANGED <<tolerant, slotVars, next, rendered, worker, channel, task, results>>

Receive(d) ==
  LET p == channel[d] IN
  /\ driver[d] = "driving" /\ p # 0
  /\ channel' = [channel EXCEPT ![d] = 0]
  /\ extracted' = [extracted EXCEPT ![d] = @ \ {p}]
  /\ task' = [task EXCEPT ![d][p] = "running"]
  /\ Pass(d, p, {"channel"}, {"task"})
  /\ UNCHANGED <<tolerant, producerVars, driver, results>>

\* The slot of a page is kept until its result has been collected.
Collect(d, p) ==
  /\ driver[d] = "driving" /\ task[d][p] = "done"
  /\ task' = [task EXCEPT ![d][p] = "none"]
  /\ results' = [results EXCEPT ![d][p] = @ + 1]
  /\ Pass(d, p, {"task"}, {})
  /\ UNCHANGED <<tolerant, producerVars, channel, driver, extracted>>

ObserveClose(d) ==
  /\ driver[d] = "driving" /\ producer[d] = "finished"
  /\ producer' = [producer EXCEPT ![d] = "observed"]
  /\ UNCHANGED <<tolerant, slotVars, next, rendered, worker, channel, driverVars>>

\* The producer and the channel are dropped and every task is aborted; a task that
\* has already ended just goes.
TearDown(d, to) ==
  LET left(p) == IF task[d][p] = "running" THEN {"worker", "background", "task"}
                 ELSE {"worker", "background"}
  IN
  /\ driver' = [driver EXCEPT ![d] = to]
  /\ producer' = [producer EXCEPT ![d] = "dropped"]
  /\ channel' = [channel EXCEPT ![d] = 0]
  /\ task' = [task EXCEPT ![d] =
       [p \in Pages |-> IF @[p] \in {"running", "aborting"} THEN "aborting" ELSE "none"]]
  /\ Reassign([holders EXCEPT ![d] = [p \in Pages |-> @[p] \cap
                 (IF task[d][p] = "aborting" THEN Owners ELSE left(p))]],
              Without(line, {d}))
  /\ UNCHANGED <<tolerant, next, rendered, worker, extracted, results>>

\* A page failed, or the session could not be closed.
Abort(d) ==
  /\ driver[d] = "driving"
  /\ producer[d] = "failed" \/ \E p \in Pages : task[d][p] = "error"
  /\ TearDown(d, "aborting")

Drained(d) ==
  /\ driver[d] = "aborting" /\ \A p \in Pages : task[d][p] = "none"
  /\ driver' = [driver EXCEPT ![d] = "failed"]
  /\ UNCHANGED <<tolerant, slotVars, producerVars, channel, extracted, task, results>>

\* The caller drops the parse: its deadline, its lease or its own cancellation.
Cancel(d) ==
  /\ driver[d] \in {"driving", "aborting", "recovering", "linking"}
  /\ TearDown(d, "cancelled")

\* Mutant of LeaveLoop: pages a timeout left behind are not recovered.
LeaveLoopEarly(d) ==
  /\ driver[d] = "driving" /\ producer[d] = "observed" /\ channel[d] = 0
  /\ \A p \in Pages : task[d][p] = "none"
  /\ driver' = [driver EXCEPT ![d] = "linking"]
  /\ UNCHANGED <<tolerant, slotVars, producerVars, channel, extracted, task, results>>

\* Receiver closed, tasks collected, producer finished.
LeaveLoop(d) ==
  /\ driver[d] = "driving" /\ producer[d] = "observed" /\ channel[d] = 0
  /\ \A p \in Pages : task[d][p] = "none"
  /\ driver' = [driver EXCEPT ![d] = IF TimedOut(d) THEN "recovering" ELSE "linking"]
  /\ UNCHANGED <<tolerant, slotVars, producerVars, channel, extracted, task, results>>

\* What was never rendered is analyzed from native text, without slots.
Recover(d) ==
  /\ driver[d] = "recovering"
  /\ \/ \E p \in extracted[d] :
          /\ extracted' = [extracted EXCEPT ![d] = @ \ {p}]
          /\ results' = [results EXCEPT ![d][p] = @ + 1]
          /\ UNCHANGED driver
     \/ /\ extracted[d] # {} /\ driver' = [driver EXCEPT ![d] = "failed"]
        /\ UNCHANGED <<extracted, results>>
     \/ /\ extracted[d] = {} /\ driver' = [driver EXCEPT ![d] = "linking"]
        /\ UNCHANGED <<extracted, results>>
  /\ UNCHANGED <<tolerant, slotVars, producerVars, channel, task>>

\* Linking and validation of the whole document.
Finish(d) ==
  /\ driver[d] = "linking"
  /\ \E end \in {"done", "failed"} : driver' = [driver EXCEPT ![d] = end]
  /\ UNCHANGED <<tolerant, slotVars, producerVars, channel, extracted, task, results>>

-----------------------------------------------------------------------------
ProducerStep(d) ==
  Reserve(d) \/ Queue(d) \/ Granted(d) \/ RenderEnds(d) \/ RenderTimesOut(d) \/ Deliver(d)
    \/ CloseSession(d)
DriverStep(d) ==
  ScanDocument(d) \/ ObserveClose(d) \/ Abort(d) \/ Drained(d) \/ LeaveLoop(d) \/ Recover(d)
    \/ Finish(d)
TaskStep(d, p) == TaskEnds(d, p) \/ TaskAborted(d, p) \/ BackgroundEnds(d, p)

Next == \E d \in Documents :
  \/ ProducerStep(d) \/ DriverStep(d) \/ Receive(d) \/ WorkerReturns(d) \/ Cancel(d)
  \/ \E p \in Pages : TaskStep(d, p) \/ Collect(d, p)

Spec == Init /\ [][Next]_vars

\* Tasks of the runtime are polled, and CPU work ends. A native render that does not
\* end is stopped by its deadline while somebody waits for it, and by nothing after.
FairSpec ==
  /\ Spec
  /\ \A d \in Documents :
       /\ WF_vars(ProducerStep(d)) /\ WF_vars(DriverStep(d)) /\ WF_vars(Receive(d))
       /\ \A p \in Pages : WF_vars(TaskStep(d, p)) /\ WF_vars(Collect(d, p))

-----------------------------------------------------------------------------
\* Type correctness.
TypeOK ==
  /\ tolerant \subseteq Documents
  /\ driver \in [Documents -> {"opening", "driving", "aborting", "recovering", "linking"} \cup Ended]
  /\ producer \in [Documents -> {"none", "reserve", "waiting", "rendering", "sending",
                                 "closing", "finished", "failed", "observed", "dropped"}]
  /\ next \in [Documents -> 1..(PageCount + 1)]
  /\ rendered \in [Documents -> [Pages -> {"none", "ok", "error", "fatal", "timeout"}]]
  /\ worker \in [Documents -> 0..PageCount] /\ channel \in [Documents -> 0..PageCount]
  /\ extracted \in [Documents -> SUBSET Pages]
  /\ task \in [Documents -> [Pages -> {"none", "running", "done", "error", "aborting"}]]
  /\ results \in [Documents -> [Pages -> 0..1]]
  /\ holders \in [Documents -> [Pages -> SUBSET Owners]]
  /\ ToSet(line) \subseteq {d \in Documents : producer[d] = "waiting"}

\* However documents interleave, time out, fail or are cancelled, no more than Slots
\* pages have pixels: a page that is rendered, delivered, analyzed or waits to be
\* collected is counted, wherever its slot is, and no producer waits for a free one.
Pixels ==
  {dp \in Documents \X Pages :
     LET d == dp[1]
         p == dp[2]
     IN \/ producer[d] \in {"rendering", "sending"} /\ next[d] = p
        \/ channel[d] = p \/ task[d][p] \in {"running", "done", "error", "aborting"}
        \/ worker[d] = p /\ rendered[d][p] # "timeout"}
PixelsHaveSlots ==
  /\ TypeOK
  /\ Cardinality(Pixels) <= Slots
  /\ line # <<>> => Cardinality(Occupied(holders)) = Slots

\* A document that is linked has exactly one result for every page, whichever pages
\* were rendered, fell back or were recovered after a deadline, and a strict parse
\* has no page that fell back.
EveryPageOnce ==
  \A d \in Documents : driver[d] \in {"linking", "done"} => \A p \in Pages :
    results[d][p] = 1 /\ (rendered[d][p] = "ok" \/ d \in tolerant)

\* A slot is pinned by a worker whose parse was torn down before the deadline.
Pinned ==
  \E d \in Documents, p \in Pages : holders[d][p] = {"worker"} /\ rendered[d][p] = "none"

\* Every parse comes to its end, also after a native render that never returns and
\* behind documents that fail or are cancelled, unless such a slot stays pinned.
ParsesEnd == \A d \in Documents : (driver[d] \notin Ended) ~> (driver[d] \in Ended \/ Pinned)
=============================================================================
