------------------------------ MODULE ParseJobs ------------------------------
(***************************************************************************)
(* The durable job table (crates/database, query/parse_job.rs): one row    *)
(* per submission, and the SQL statements that move it.  Every action is   *)
(* one committed statement or transaction; its callers are arbitrary: any  *)
(* replica, holding any lease that was ever handed out, at any time.       *)
(*                                                                         *)
(* The PostgreSQL clock is abstracted to what the statements compare: a    *)
(* lease is "live" while lease_until > clock_timestamp() and "expired"     *)
(* once it is not.  LeaseExpires is the passing of time.                   *)
(*                                                                         *)
(* A fencing token is a fresh UUID per claim and is only ever compared     *)
(* within its own row, so the n-th claim of a row hands out token n.       *)
(***************************************************************************)
EXTENDS Integers, FiniteSets

CONSTANTS
  Jobs,         \* submission identities (Idempotency-Key UUIDs)
  MaxAttempts,  \* --max-attempts, the same on every replica
  MaxProgress,  \* distinct progress snapshots one attempt may report
  ReapBatch     \* rows one claim transaction may reap (64 in the code)

ASSUME ParseJobsAssumption ==
  /\ MaxAttempts \in Nat /\ MaxAttempts >= 1
  /\ MaxProgress \in Nat
  /\ ReapBatch \in Nat /\ ReapBatch >= 1

VARIABLES
  rows,    \* rows[j]: the table's row for j, or NoRow
  issued   \* issued[j]: how many tokens were ever generated for j

tableVars == <<rows, issued>>

Null == 0                      \* SQL NULL for tokens, names and progress
Tokens == 1..MaxAttempts
Status == {"absent", "queued", "running", "succeeded", "failed"}

\* The result name {id}-{token}.json is identified by its token.  error,
\* finished and timed say that error, finished_at and duration_ms are set.
Row == [status: Status, attempts: 0..MaxAttempts, version: Nat,
        token: Tokens \cup {Null}, lease: {"none", "live", "expired"},
        progress: 0..MaxProgress, result: Tokens \cup {Null},
        error: BOOLEAN, finished: BOOLEAN, timed: BOOLEAN, deleted: BOOLEAN]

NoRow == [status |-> "absent", attempts |-> 0, version |-> 0,
          token |-> Null, lease |-> "none", progress |-> Null,
          result |-> Null, error |-> FALSE, finished |-> FALSE,
          timed |-> FALSE, deleted |-> FALSE]

Terminal(r) == r.status \in {"succeeded", "failed"}

\* Mutant of Owns: only the token is compared, not the clock.
OwnsByToken(r, t) == r.status = "running" /\ r.token = t

\* Lease::condition: the caller's token still owns a lease that has not expired.
Owns(r, t) == r.status = "running" /\ r.token = t /\ r.lease = "live"

\* Mutant of Available: every running row is taken for an abandoned one.
AvailableAnyLease(r) == r.status \in {"queued", "running"}

\* ParseJobQuery::available: queue entries and expired attempts.
Available(r) == r.status = "queued" \/ (r.status = "running" /\ r.lease = "expired")

\* Mutants of Reapable: the attempt limit off by one.
ReapableEarly == {j \in Jobs : Available(rows[j]) /\ rows[j].attempts >= MaxAttempts - 1}
ReapableLate == {j \in Jobs : Available(rows[j]) /\ rows[j].attempts > MaxAttempts}

\* The rows a claim may fail, and those it may take.
Reapable == {j \in Jobs : Available(rows[j]) /\ rows[j].attempts >= MaxAttempts}
Claimable == {j \in Jobs : Available(rows[j]) /\ rows[j].attempts < MaxAttempts}

TableInit ==
  /\ rows = [j \in Jobs |-> NoRow]
  /\ issued = [j \in Jobs |-> 0]

-----------------------------------------------------------------------------
\* INSERT ... ON CONFLICT DO NOTHING: a replay leaves the row alone, even a
\* deleted one (its answer is read afterwards and changes nothing).
Submit(j) ==
  /\ rows[j].status = "absent"
  /\ rows' = [rows EXCEPT ![j] = [NoRow EXCEPT !.status = "queued", !.version = 1]]
  /\ UNCHANGED issued

\* Mutant of Reaped: the lease columns of the exhausted row are not cleared.
ReapedKeepsLease(r) ==
  [r EXCEPT !.status = "failed", !.finished = TRUE, !.error = TRUE, !.version = @ + 1]

Reaped(r) ==
  [r EXCEPT !.status = "failed", !.finished = TRUE, !.token = Null,
            !.lease = "none", !.error = TRUE, !.version = @ + 1]

Claimed(r, t) ==
  [r EXCEPT !.status = "running", !.attempts = @ + 1, !.version = @ + 1,
            !.token = t, !.lease = "live", !.progress = Null,
            !.timed = FALSE, !.error = FALSE]

\* One claim transaction: fail a batch R of exhausted rows, then take j.  SKIP
\* LOCKED passes over rows that other sessions hold, so R is any batch and j
\* any claimable row; a row that is free to be taken is taken in the end.
Claim(j, R) ==
  /\ j \in Claimable
  /\ R \subseteq Reapable /\ Cardinality(R) <= ReapBatch
  /\ rows' = [k \in Jobs |-> IF k = j THEN Claimed(rows[k], issued[j] + 1)
                             ELSE IF k \in R THEN Reaped(rows[k])
                             ELSE rows[k]]
  /\ issued' = [issued EXCEPT ![j] = @ + 1]

\* The same transaction when it finds nothing to claim: only the reaping commits.
Reap(R) ==
  /\ R \subseteq Reapable /\ R # {} /\ Cardinality(R) <= ReapBatch
  /\ rows' = [k \in Jobs |-> IF k \in R THEN Reaped(rows[k]) ELSE rows[k]]
  /\ UNCHANGED issued

\* Mutant of Renewed: progress is stored under the old version.
RenewedSilently(r, p) ==
  [r EXCEPT !.lease = "live", !.progress = IF p = Null THEN @ ELSE p]

\* The row after a heartbeat with a changed progress snapshot p, or with none (Null).
Renewed(r, p) ==
  IF p = Null THEN [r EXCEPT !.lease = "live"]
  ELSE [r EXCEPT !.lease = "live", !.progress = p, !.version = @ + 1]

\* Within an attempt the reported progress only grows.
Heartbeat(j, t, p) ==
  /\ Owns(rows[j], t)
  /\ p = Null \/ p > rows[j].progress
  /\ rows' = [rows EXCEPT ![j] = Renewed(@, p)]
  /\ UNCHANGED issued

Reported(r, p) == IF p = Null THEN r.progress ELSE p

\* finish with Ok(name): the attempt's result becomes the job's.
Succeeded(r, t, p) ==
  [r EXCEPT !.status = "succeeded", !.token = Null, !.lease = "none",
            !.version = @ + 1, !.timed = TRUE, !.progress = Reported(r, p),
            !.finished = TRUE, !.result = t, !.error = FALSE]

\* finish with Err(message): the job goes back to the queue.
Requeued(r, p) ==
  [r EXCEPT !.status = "queued", !.token = Null, !.lease = "none",
            !.version = @ + 1, !.timed = TRUE, !.progress = Reported(r, p),
            !.finished = FALSE, !.result = Null, !.error = TRUE]

Succeed(j, t, p) ==
  /\ Owns(rows[j], t)
  /\ rows' = [rows EXCEPT ![j] = Succeeded(@, t, p)]
  /\ UNCHANGED issued

Requeue(j, t, p) ==
  /\ Owns(rows[j], t)
  /\ rows' = [rows EXCEPT ![j] = Requeued(@, p)]
  /\ UNCHANGED issued

\* mark_deleted: coalesce keeps the first deletion time, so a repeat is a no-op.
MarkDeleted(j) ==
  /\ Terminal(rows[j])
  /\ rows' = [rows EXCEPT ![j].deleted = TRUE]
  /\ UNCHANGED issued

\* Mutant of FinishCleanup: the row need not be deleted.
FinishCleanupAnyRow(j, t) ==
  /\ rows[j].result = t
  /\ rows' = [rows EXCEPT ![j].result = Null]
  /\ UNCHANGED issued

\* finish_cleanup: forget the name, but only the one the caller removed.
FinishCleanup(j, t) ==
  /\ rows[j].deleted /\ rows[j].result = t
  /\ rows' = [rows EXCEPT ![j].result = Null]
  /\ UNCHANGED issued

\* The database clock passes lease_until.
LeaseExpires(j) ==
  /\ rows[j].lease = "live"
  /\ rows' = [rows EXCEPT ![j].lease = "expired"]
  /\ UNCHANGED issued

TableNext ==
  \/ \E R \in SUBSET Reapable : Reap(R)
  \/ \E j \in Jobs :
       \/ Submit(j) \/ MarkDeleted(j) \/ LeaseExpires(j)
       \/ \E R \in SUBSET Reapable : Claim(j, R)
       \/ \E t \in Tokens : FinishCleanup(j, t)
       \/ \E t \in Tokens, p \in 0..MaxProgress :
            Heartbeat(j, t, p) \/ Succeed(j, t, p) \/ Requeue(j, t, p)

TableSpec == TableInit /\ [][TableNext]_tableVars

-----------------------------------------------------------------------------
\* Type correctness of the table: every column holds a value of its domain.
TableTypeOK ==
  /\ rows \in [Jobs -> Row]
  /\ issued \in [Jobs -> 0..MaxAttempts]

\* A lease belongs to a running row and to nothing else, and a running row's
\* token is the newest one ever generated for it: an older holder is fenced.
LeaseIsNewest ==
  /\ TableTypeOK
  /\ \A j \in Jobs : LET r == rows[j] IN
    /\ r.status = "running" <=> r.lease # "none"
    /\ r.status = "running" => r.token = issued[j] /\ r.token # Null
    /\ r.status # "running" => r.token = Null
    /\ r.attempts = issued[j]

\* Exactly one outcome is published (finish admits Ok or Err, never both): only a
\* succeeded row names a result, the newest attempt's, until its cleanup; a
\* failed row spent its whole retry budget and keeps an error.
OneOutcome ==
  \A j \in Jobs : LET r == rows[j] IN
    /\ r.result # Null => r.status = "succeeded" /\ r.result = issued[j]
    /\ r.status = "succeeded" => ~r.error /\ r.timed /\ (r.result = Null => r.deleted)
    /\ r.status = "failed" => r.error /\ r.attempts = MaxAttempts
    /\ r.status = "running" => ~r.error /\ ~r.timed
    /\ r.finished <=> Terminal(r)
    /\ r.deleted => Terminal(r)
    /\ r.status = "absent" => r = NoRow

\* While a lease is live no other claimer can take or close the row: the token
\* stays until its owner gives it up (Lease::condition and available()
\* partition the running rows by the same clock).
LiveLeaseIsExclusive ==
  [][\A j \in Jobs : rows[j].lease = "live" =>
       /\ issued'[j] = issued[j]
       /\ rows'[j].token \in {rows[j].token, Null}
       /\ rows'[j].status # "failed"]_tableVars

\* Once a lease has expired its holder can neither renew it nor report through
\* it: the row only moves by a new claim or by the reaper.
ExpiredLeaseIsFenced ==
  [][\A j \in Jobs : rows[j].lease = "expired" /\ rows'[j] # rows[j] =>
       \/ rows'[j].status = "running" /\ rows'[j].token = rows[j].token + 1
       \/ rows'[j].status = "failed" /\ rows'[j].progress = rows[j].progress]_tableVars

\* A terminal outcome is final: no late heartbeat, finish, claim or resubmission
\* changes it.  Deletion is never undone, and the result name is only ever
\* forgotten, after deletion.
TerminalIsFinal ==
  [][\A j \in Jobs : Terminal(rows[j]) =>
       /\ rows'[j].status = rows[j].status
       /\ rows'[j].version = rows[j].version
       /\ rows[j].deleted => rows'[j].deleted
       /\ rows'[j].result # rows[j].result => rows[j].deleted /\ rows'[j].result = Null]_tableVars

\* What a client of the status and event endpoints can see of a row.
Snapshot(r) == <<r.status, r.attempts, r.progress, r.error, r.finished, r.timed>>

\* Event streams deduplicate by version, so a snapshot never changes under the
\* same version and versions never go back.
VersionOrdersSnapshots ==
  [][\A j \in Jobs :
       /\ rows'[j].version >= rows[j].version
       /\ Snapshot(rows'[j]) # Snapshot(rows[j]) => rows'[j].version > rows[j].version]_tableVars
=============================================================================
