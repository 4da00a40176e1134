----------------------------- MODULE JobAttempts -----------------------------
(***************************************************************************)
(* What happens to one submission across the server: the durable row       *)
(* (ParseJobs), the worker task supervising each attempt and the parse it  *)
(* owns (server worker.rs), the files an attempt leaves in shared storage  *)
(* (storage.rs, core FigureAssets), and the deletion and recovery sweeps   *)
(* that read a row first and act on the files later (cleanup.rs).          *)
(*                                                                         *)
(* An attempt is the pair of a job and the fencing token of its claim, so  *)
(* any number of worker replicas is covered and no process has a name.     *)
(* The sweeps run in every replica: a decision taken from a row and not    *)
(* yet carried out is an element of a set, which any replica may carry out *)
(* (again) and any crash or timeout may drop.                              *)
(***************************************************************************)
EXTENDS ParseJobs

CONSTANT
  FigureAttempts   \* bound: the attempts (by token) that come to an image kept as a
                   \* file; none unless figures.delivery = "file"

ASSUME JobAttemptsAssumption == FigureAttempts \subseteq Tokens

VARIABLES
  sup,      \* sup[a]: the supervising task of attempt a (process_with_reservation)
  op,       \* op[a]: the parse it spawned (parse_and_publish)
  results,  \* attempts whose {id}-{token}.json is in shared storage
  drawn,    \* attempts whose document refers to image files
  dirs,     \* attempts whose figure directory exists
  markers,  \* attempts whose figure directory holds a .pending marker
  armed,    \* attempts with a TempDir in memory that deletes its directory on drop
  removals, \* results a cleaner is about to remove, read from a deleted row
  acks,     \* results a cleaner removed and has yet to acknowledge in the row
  seen,     \* figure directories in which the sweep found a marker
  adopt,    \* figure directories the sweep judged committed
  discard   \* figure directories the sweep judged abandoned

fileVars == <<results, drawn, dirs, markers, armed>>
sweepVars == <<removals, acks, seen, adopt, discard>>
vars == <<rows, issued, sup, op, fileVars, sweepVars>>

Attempts == Jobs \X Tokens
JobOf(a) == a[1]
TokenOf(a) == a[2]
RowOf(a) == rows[JobOf(a)]

SupPhases == {"idle", "watching", "succeeding", "failing", "accepted", "ended"}
OpPhases == {"idle", "parsing", "drawing", "publishing", "done", "failed", "gone"}

Init ==
  /\ TableInit
  /\ sup = [a \in Attempts |-> "idle"]
  /\ op = [a \in Attempts |-> "idle"]
  /\ results = {} /\ drawn = {} /\ dirs = {} /\ markers = {} /\ armed = {}
  /\ removals = {} /\ acks = {} /\ seen = {} /\ adopt = {} /\ discard = {}

-----------------------------------------------------------------------------
(* Clients and the clock: the row alone moves. *)

SubmitJob(j) == Submit(j) /\ UNCHANGED <<sup, op, fileVars, sweepVars>>
Expire(j) == LeaseExpires(j) /\ UNCHANGED <<sup, op, fileVars, sweepVars>>
ReapJobs(R) == Reap(R) /\ UNCHANGED <<sup, op, fileVars, sweepVars>>

\* The delete handler commits its intent, then cleans at once from the row it got back.
DeleteJob(j) ==
  /\ MarkDeleted(j)
  /\ removals' = IF rows[j].result = Null THEN removals
                 ELSE removals \cup {<<j, rows[j].result>>}
  /\ UNCHANGED <<sup, op, fileVars, acks, seen, adopt, discard>>

-----------------------------------------------------------------------------
(* The worker. *)

\* Worker::run claims and spawns the attempt; its parse starts with it.
StartAttempt(j, R) ==
  LET a == <<j, issued[j] + 1>> IN
  /\ Claim(j, R)
  /\ sup' = [sup EXCEPT ![a] = "watching"]
  /\ op' = [op EXCEPT ![a] = "parsing"]
  /\ UNCHANGED <<fileVars, sweepVars>>

\* The claim commits but its lease reaches nobody: shutdown drops the claiming
\* future, the connection fails, or the process dies.
LoseClaim(j, R) == Claim(j, R) /\ UNCHANGED <<sup, op, fileVars, sweepVars>>

\* A heartbeat the database accepts.
Renew(a, p) ==
  /\ sup[a] = "watching"
  /\ Heartbeat(JobOf(a), TokenOf(a), p)
  /\ UNCHANGED <<sup, op, fileVars, sweepVars>>

\* The heartbeat finds the lease lost; or it fails or times out, and then it
\* may have committed all the same.  The supervisor leaves without finishing.
Abandon(a) ==
  /\ sup[a] = "watching"
  /\ \/ UNCHANGED tableVars
     \/ Heartbeat(JobOf(a), TokenOf(a), Null)
  /\ sup' = [sup EXCEPT ![a] = "ended"]
  /\ UNCHANGED <<op, fileVars, sweepVars>>

\* Mutant of JoinOk: the directory stays armed, as if keep(false) were not called.
JoinOkArmed(a) ==
  /\ sup[a] = "watching" /\ op[a] = "done"
  /\ sup' = [sup EXCEPT ![a] = "succeeding"]
  /\ op' = [op EXCEPT ![a] = "gone"]
  /\ UNCHANGED <<tableVars, fileVars, sweepVars>>

\* The parse returned a published result.  keep(false) disarms the directory's
\* deletion before the durable completion is attempted.
JoinOk(a) ==
  /\ sup[a] = "watching" /\ op[a] = "done"
  /\ sup' = [sup EXCEPT ![a] = "succeeding"]
  /\ op' = [op EXCEPT ![a] = "gone"]
  /\ armed' = armed \ {a}
  /\ UNCHANGED <<tableVars, results, drawn, dirs, markers, sweepVars>>

\* The parse failed or panicked.
JoinErr(a) ==
  /\ sup[a] = "watching" /\ op[a] = "failed"
  /\ sup' = [sup EXCEPT ![a] = "failing"]
  /\ op' = [op EXCEPT ![a] = "gone"]
  /\ UNCHANGED <<tableVars, fileVars, sweepVars>>

\* job_timeout passes, whatever the parse is doing, even if it has just returned.
JobTimeout(a) ==
  /\ sup[a] = "watching"
  /\ sup' = [sup EXCEPT ![a] = "failing"]
  /\ UNCHANGED <<tableVars, op, fileVars, sweepVars>>

\* Jobs::finish(Ok): the database accepts; the answer arrives, or is lost with
\* the connection or the process.
FinishOk(a, p) ==
  /\ sup[a] = "succeeding"
  /\ Succeed(JobOf(a), TokenOf(a), p)
  /\ \E next \in {"accepted", "ended"} : sup' = [sup EXCEPT ![a] = next]
  /\ UNCHANGED <<op, fileVars, sweepVars>>

\* Jobs::finish(Err): the job is queued again; the answer does not matter.
FinishErr(a, p) ==
  /\ sup[a] = "failing"
  /\ Requeue(JobOf(a), TokenOf(a), p)
  /\ sup' = [sup EXCEPT ![a] = "ended"]
  /\ UNCHANGED <<op, fileVars, sweepVars>>

\* The completion is rejected (the lease is lost) or never executes.
FinishRejected(a) ==
  /\ sup[a] \in {"succeeding", "failing"}
  /\ sup' = [sup EXCEPT ![a] = "ended"]
  /\ UNCHANGED <<tableVars, op, fileVars, sweepVars>>

\* keep(true) clears the marker; failing to remove it is only logged.
KeepFigures(a) ==
  /\ sup[a] = "accepted"
  /\ markers' \in {markers, markers \ {a}}
  /\ sup' = [sup EXCEPT ![a] = "ended"]
  /\ UNCHANGED <<tableVars, op, results, drawn, dirs, armed, sweepVars>>

-----------------------------------------------------------------------------
(* The parse.  Once its supervisor has stopped watching it is aborted at its *)
(* next await, but the blocking call it is in runs to its end.               *)

\* The first image: create the directory, then write its marker.
CreateFigureDir(a) ==
  /\ TokenOf(a) \in FigureAttempts
  /\ op[a] = "parsing" /\ a \notin drawn
  /\ op' = [op EXCEPT ![a] = "drawing"]
  /\ dirs' = dirs \cup {a} /\ armed' = armed \cup {a}
  /\ UNCHANGED <<tableVars, sup, results, drawn, markers, sweepVars>>

MarkFigureDir(a) ==
  /\ op[a] = "drawing"
  /\ op' = [op EXCEPT ![a] = "parsing"]
  /\ markers' = markers \cup {a} /\ drawn' = drawn \cup {a}
  /\ UNCHANGED <<tableVars, sup, results, dirs, armed, sweepVars>>

\* The marker cannot be written: the directory goes at once, the image is omitted.
DiscardFigureDir(a) ==
  /\ op[a] = "drawing"
  /\ op' = [op EXCEPT ![a] = "parsing"]
  /\ dirs' = dirs \ {a} /\ armed' = armed \ {a}
  /\ UNCHANGED <<tableVars, sup, results, drawn, markers, sweepVars>>

BeginPublish(a) ==
  /\ op[a] = "parsing" /\ sup[a] = "watching"
  /\ op' = [op EXCEPT ![a] = "publishing"]
  /\ UNCHANGED <<tableVars, sup, fileVars, sweepVars>>

\* SharedStorage::publish: the complete, synced file appears under the attempt's
\* name.  Syncing the directory may still fail; the caller may be gone.
Publish(a) ==
  /\ op[a] = "publishing"
  /\ results' = results \cup {a}
  /\ \E next \in IF sup[a] = "watching" THEN {"done", "failed"} ELSE {"gone"} :
       op' = [op EXCEPT ![a] = next]
  /\ UNCHANGED <<tableVars, sup, drawn, dirs, markers, armed, sweepVars>>

ParseFails(a) ==
  /\ op[a] \in {"parsing", "publishing"} /\ sup[a] = "watching"
  /\ op' = [op EXCEPT ![a] = "failed"]
  /\ UNCHANGED <<tableVars, sup, fileVars, sweepVars>>

AbortParse(a) ==
  /\ op[a] \in {"parsing", "publishing", "done", "failed"} /\ sup[a] # "watching"
  /\ op' = [op EXCEPT ![a] = "gone"]
  /\ UNCHANGED <<tableVars, sup, fileVars, sweepVars>>

\* FigureAssets::drop: the last owner of an unkept directory deletes it.
DropFigures(a) ==
  /\ a \in armed /\ sup[a] = "ended" /\ op[a] = "gone"
  /\ dirs' = dirs \ {a} /\ markers' = markers \ {a} /\ armed' = armed \ {a}
  /\ UNCHANGED <<tableVars, sup, op, results, drawn, sweepVars>>

\* The worker's process dies: nothing of the attempt's memory remains, and a
\* directory whose deletion had begun may have lost only its marker.
Crash(a) ==
  /\ sup[a] \notin {"idle", "ended"} \/ op[a] \notin {"idle", "gone"} \/ a \in armed
  /\ sup' = [sup EXCEPT ![a] = "ended"]
  /\ op' = [op EXCEPT ![a] = "gone"]
  /\ armed' = armed \ {a}
  /\ markers' \in IF a \in armed /\ sup[a] = "ended" /\ op[a] = "gone"
                  THEN {markers, markers \ {a}} ELSE {markers}
  /\ UNCHANGED <<tableVars, results, drawn, dirs, sweepVars>>

-----------------------------------------------------------------------------
(* The sweeps (DeletedResults), in every replica. *)

\* Mutant of ListRemoval: visible rows are listed too.
ListRemovalUndeleted(j) ==
  /\ rows[j].result # Null
  /\ removals' = removals \cup {<<j, rows[j].result>>}
  /\ UNCHANGED <<tableVars, sup, op, fileVars, acks, seen, adopt, discard>>

\* pending_cleanup lists a deleted row that still names a result.
ListRemoval(j) ==
  /\ rows[j].deleted /\ rows[j].result # Null
  /\ removals' = removals \cup {<<j, rows[j].result>>}
  /\ UNCHANGED <<tableVars, sup, op, fileVars, acks, seen, adopt, discard>>

\* SharedStorage::remove: everything under the name's prefix, then the file.
RemoveFigures(a) ==
  /\ a \in removals
  /\ dirs' = dirs \ {a} /\ markers' = markers \ {a}
  /\ UNCHANGED <<tableVars, sup, op, results, drawn, armed, sweepVars>>

\* Mutant of RemoveResult: the file goes first, and figures may stay behind.
RemoveResultFirst(a) ==
  /\ a \in removals
  /\ results' = results \ {a}
  /\ removals' = removals \ {a} /\ acks' = acks \cup {a}
  /\ UNCHANGED <<tableVars, sup, op, drawn, dirs, markers, armed, seen, adopt, discard>>

RemoveResult(a) ==
  /\ a \in removals /\ a \notin dirs
  /\ results' = results \ {a}
  /\ removals' = removals \ {a} /\ acks' = acks \cup {a}
  /\ UNCHANGED <<tableVars, sup, op, drawn, dirs, markers, armed, seen, adopt, discard>>

\* Mutant of AckRemoval: the acknowledgement never reaches the row.
AckRemovalNowhere(a) ==
  /\ a \in acks
  /\ acks' = acks \ {a}
  /\ UNCHANGED <<tableVars, sup, op, fileVars, removals, seen, adopt, discard>>

AckRemoval(a) ==
  /\ a \in acks
  /\ \/ FinishCleanup(JobOf(a), TokenOf(a))
     \/ RowOf(a).result # TokenOf(a) /\ UNCHANGED tableVars
  /\ acks' = acks \ {a}
  /\ UNCHANGED <<sup, op, fileVars, removals, seen, adopt, discard>>

\* recover_figures: find_by_id hides deleted rows.
Committed(a) == ~RowOf(a).deleted /\ RowOf(a).result = TokenOf(a)
StillRunning(a) ==
  ~RowOf(a).deleted /\ RowOf(a).status = "running" /\ RowOf(a).token = TokenOf(a)

\* The scan meets a marker; the row is read afterwards.
SeeMarker(a) ==
  /\ a \in markers
  /\ seen' = seen \cup {a}
  /\ UNCHANGED <<tableVars, sup, op, fileVars, removals, acks, adopt, discard>>

\* Mutants of JudgeFigures: running attempts are not spared; committed ones are
\* left alone.
JudgeFiguresRunning(a) ==
  /\ a \in seen
  /\ seen' = seen \ {a}
  /\ adopt' = IF Committed(a) THEN adopt \cup {a} ELSE adopt
  /\ discard' = IF Committed(a) THEN discard ELSE discard \cup {a}
  /\ UNCHANGED <<tableVars, sup, op, fileVars, removals, acks>>
JudgeFiguresSkipCommitted(a) ==
  /\ a \in seen
  /\ seen' = seen \ {a}
  /\ discard' = IF Committed(a) \/ StillRunning(a) THEN discard ELSE discard \cup {a}
  /\ UNCHANGED <<tableVars, sup, op, fileVars, removals, acks, adopt>>

JudgeFigures(a) ==
  /\ a \in seen
  /\ seen' = seen \ {a}
  /\ adopt' = IF Committed(a) THEN adopt \cup {a} ELSE adopt
  /\ discard' = IF Committed(a) \/ StillRunning(a) THEN discard ELSE discard \cup {a}
  /\ UNCHANGED <<tableVars, sup, op, fileVars, removals, acks>>

AdoptFigures(a) ==
  /\ a \in adopt
  /\ markers' = markers \ {a} /\ adopt' = adopt \ {a}
  /\ UNCHANGED <<tableVars, sup, op, results, drawn, dirs, armed, removals, acks, seen, discard>>

\* remove_dir_all; interrupted, it may have removed the marker and not the rest.
DiscardFigures(a) ==
  /\ a \in discard
  /\ markers' = markers \ {a} /\ dirs' \in {dirs, dirs \ {a}}
  /\ discard' = discard \ {a}
  /\ UNCHANGED <<tableVars, sup, op, results, drawn, armed, removals, acks, seen, adopt>>

\* A crash, a timeout or an error ends a cleaner before its next step; one that
\* was removing a directory may have removed its marker and not the rest.
DropDecision(a) ==
  /\ \/ /\ a \in removals
        /\ removals' = removals \ {a} /\ markers' \in {markers, markers \ {a}}
        /\ UNCHANGED <<acks, seen, adopt, discard>>
     \/ /\ a \in acks
        /\ acks' = acks \ {a} /\ UNCHANGED <<markers, removals, seen, adopt, discard>>
     \/ /\ a \in seen
        /\ seen' = seen \ {a} /\ UNCHANGED <<markers, removals, acks, adopt, discard>>
     \/ /\ a \in adopt
        /\ adopt' = adopt \ {a} /\ UNCHANGED <<markers, removals, acks, seen, discard>>
     \/ /\ a \in discard
        /\ discard' = discard \ {a} /\ UNCHANGED <<markers, removals, acks, seen, adopt>>
  /\ UNCHANGED <<tableVars, sup, op, results, drawn, dirs, armed>>

-----------------------------------------------------------------------------
Supervise(a) ==
  \/ Abandon(a) \/ JoinOk(a) \/ JoinErr(a) \/ JobTimeout(a)
  \/ FinishRejected(a) \/ KeepFigures(a)
  \/ \E p \in 0..MaxProgress : FinishOk(a, p) \/ FinishErr(a, p)

Parse(a) ==
  \/ CreateFigureDir(a) \/ MarkFigureDir(a) \/ DiscardFigureDir(a)
  \/ BeginPublish(a) \/ Publish(a) \/ ParseFails(a) \/ AbortParse(a) \/ DropFigures(a)

Sweep(a) ==
  \/ RemoveFigures(a) \/ RemoveResult(a) \/ AckRemoval(a)
  \/ SeeMarker(a) \/ JudgeFigures(a) \/ AdoptFigures(a) \/ DiscardFigures(a)

Next ==
  \/ \E R \in SUBSET Reapable : ReapJobs(R)
  \/ \E j \in Jobs :
       \/ SubmitJob(j) \/ Expire(j) \/ DeleteJob(j) \/ ListRemoval(j)
       \/ \E R \in SUBSET Reapable : StartAttempt(j, R) \/ LoseClaim(j, R)
  \/ \E a \in Attempts :
       \/ Supervise(a) \/ Parse(a) \/ Crash(a) \/ Sweep(a) \/ DropDecision(a)
       \/ \E p \in 0..MaxProgress : Renew(a, p)

Spec == Init /\ [][Next]_vars

(***************************************************************************)
(* Fairness.  Workers poll for work every 500 ms.  A supervisor leaves its *)
(* loop at the job timeout at the latest and its statements return; the    *)
(* parse itself is owed nothing, a native call may never return.  A lease  *)
(* nobody renews runs out.  Every replica sweeps every 30 seconds, and     *)
(* storage and database failures are transient: a sweep that is retried    *)
(* again and again gets through in the end (strong fairness).              *)
(***************************************************************************)
WorkerPolls == \E R \in SUBSET Reapable : ReapJobs(R) \/ \E j \in Jobs : StartAttempt(j, R)

Unattended(j) == \A a \in Attempts :
  JobOf(a) = j /\ TokenOf(a) = rows[j].token => sup[a] # "watching"

Fairness ==
  /\ WF_vars(WorkerPolls)
  /\ \A j \in Jobs : WF_vars(Unattended(j) /\ Expire(j))
  /\ \A a \in Attempts : WF_vars(Supervise(a))
  /\ WF_vars(\E j \in Jobs : ListRemoval(j))
  /\ WF_vars(\E a \in Attempts : SeeMarker(a))
  /\ SF_vars(\E a \in Attempts : JudgeFigures(a))
  /\ SF_vars(\E a \in Attempts : RemoveFigures(a))
  /\ SF_vars(\E a \in Attempts : RemoveResult(a))
  /\ SF_vars(\E a \in Attempts : AckRemoval(a))
  /\ SF_vars(\E a \in Attempts : AdoptFigures(a) \/ DiscardFigures(a))

FairSpec == Spec /\ Fairness

-----------------------------------------------------------------------------
\* Type correctness: phases, sets of attempts, and a marker only inside its directory.
TypeOK ==
  /\ TableTypeOK
  /\ sup \in [Attempts -> SupPhases] /\ op \in [Attempts -> OpPhases]
  /\ results \subseteq Attempts /\ drawn \subseteq Attempts
  /\ dirs \subseteq Attempts /\ markers \subseteq dirs /\ armed \subseteq Attempts
  /\ removals \subseteq Attempts /\ acks \subseteq Attempts
  /\ seen \subseteq Attempts /\ adopt \subseteq Attempts /\ discard \subseteq Attempts

\* A document that can be served whole: its JSON and the images it refers to.
Intact(a) == a \in results /\ (a \in drawn => a \in dirs)

\* Whenever a client can see a succeeded job, its result and its images are in
\* storage: whatever was published late, swept, dropped or crashed meanwhile.
CommittedIsReadable ==
  \A j \in Jobs : rows[j].status = "succeeded" /\ ~rows[j].deleted =>
    Intact(<<j, rows[j].result>>)

\* A deleted row forgets its result only when nothing of it is left in storage,
\* and nothing reappears: no late writer brings the result or its images back.
ForgottenIsGone ==
  /\ TypeOK
  /\ \A j \in Jobs : rows[j].status = "succeeded" /\ rows[j].result = Null =>
       <<j, issued[j]>> \notin results \cup dirs

\* An attempt whose completion the table would no longer accept and whose
\* result no visible row names.
Doomed(a) ==
  /\ TokenOf(a) <= issued[JobOf(a)]
  /\ RowOf(a).token # TokenOf(a)
  /\ RowOf(a).result = TokenOf(a) => RowOf(a).deleted

\* Once written to, a figure directory disappears only when its attempt can never
\* (again) be served, however old the row is that the sweep decided on; until
\* then only its own worker, having given up, may drop it.
FiguresOutliveTheirAttempt ==
  [][\A a \in drawn : a \in dirs /\ a \notin dirs' =>
       Doomed(a) \/ (sup[a] = "ended" /\ ~Committed(a))]_vars

\* Every submitted job ends, by success or by exhausting its attempts, even if
\* every worker that takes it dies.
JobsSettle == \A j \in Jobs : (rows[j].status = "queued") ~> Terminal(rows[j])

\* A deletion is carried through: the name is forgotten, and with
\* ForgottenIsGone the result is gone.
DeletionsComplete == \A j \in Jobs : rows[j].deleted ~> (rows[j].result = Null)

\* No pending marker stays: each is cleared by its worker, or reconciled with the
\* row by a sweep, also after a crash or a lost acknowledgement.
MarkersResolve == \A a \in Attempts : (a \in markers) ~> (a \notin markers)

-----------------------------------------------------------------------------
(* What the client was promised, and how the system's state maps to it. *)
Contract == INSTANCE JobContract WITH
  view <- [j \in Jobs |-> IF rows[j].deleted THEN "deleted" ELSE rows[j].status],
  tries <- [j \in Jobs |-> rows[j].attempts],
  readable <- [j \in Jobs |-> /\ rows[j].status = "succeeded" /\ ~rows[j].deleted
                               /\ Intact(<<j, rows[j].result>>)]

\* The workers, the storage and the sweeps together implement the job contract.
ImplementsContract == Contract!Spec
=============================================================================
