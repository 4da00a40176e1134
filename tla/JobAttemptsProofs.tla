-------------------------- MODULE JobAttemptsProofs --------------------------
(***************************************************************************)
(* Proofs about submissions, for any set of jobs, any number of worker     *)
(* replicas and sweeps, and any bounds.                                    *)
(*                                                                         *)
(* First the durable table alone, under any interleaving of its            *)
(* statements.  TableInv is inductive: LeaseIsNewest needs the equality of *)
(* attempts and issued tokens to keep a fresh token within the budget, and *)
(* OneOutcome needs LeaseIsNewest to know that a finishing owner is the    *)
(* newest attempt.  A row is reasoned about alone: RowOK says what         *)
(* TableInv says of one row.                                               *)
(*                                                                         *)
(* Then a submission across the server.  A step of the system moves at     *)
(* most one attempt and some rows: an attempt of which only the row moved  *)
(* is a Bystander and keeps what IInv says of it, unless the step          *)
(* committed or forgot its own outcome; the attempt that moved is reasoned *)
(* about action by action.                                                 *)
(***************************************************************************)
EXTENDS JobAttempts, TLAPS

(***************************************************************************)
(* The durable table.                                                      *)
(***************************************************************************)

TableInv == TableTypeOK /\ LeaseIsNewest /\ OneOutcome

RowOK(r, n) ==
  /\ r \in Row /\ n \in 0..MaxAttempts
  /\ r.status = "running" <=> r.lease # "none"
  /\ r.status = "running" => r.token = n /\ r.token # Null
  /\ r.status # "running" => r.token = Null
  /\ r.attempts = n
  /\ r.result # Null => r.status = "succeeded" /\ r.result = n
  /\ r.status = "succeeded" => ~r.error /\ r.timed /\ (r.result = Null => r.deleted)
  /\ r.status = "failed" => r.error /\ r.attempts = MaxAttempts
  /\ r.status = "running" => ~r.error /\ ~r.timed
  /\ r.finished <=> Terminal(r)
  /\ r.deleted => Terminal(r)
  /\ r.status = "absent" => r = NoRow

\* TableInv is RowOK of every row.
LEMMA TableByRow ==
  TableInv <=> /\ rows = [j \in Jobs |-> rows[j]]
               /\ issued = [j \in Jobs |-> issued[j]]
               /\ \A j \in Jobs : RowOK(rows[j], issued[j])
<1>1. TableTypeOK <=> /\ rows = [j \in Jobs |-> rows[j]]
                      /\ issued = [j \in Jobs |-> issued[j]]
                      /\ \A j \in Jobs : rows[j] \in Row /\ issued[j] \in 0..MaxAttempts
  BY DEF TableTypeOK
<1> QED BY <1>1 DEF TableInv, LeaseIsNewest, OneOutcome, RowOK

LEMMA TableByRowPrime ==
  TableInv' <=> /\ rows' = [j \in Jobs |-> rows'[j]]
                /\ issued' = [j \in Jobs |-> issued'[j]]
                /\ \A j \in Jobs : RowOK(rows'[j], issued'[j])
<1>1. TableTypeOK' <=> /\ rows' = [j \in Jobs |-> rows'[j]]
                       /\ issued' = [j \in Jobs |-> issued'[j]]
                       /\ \A j \in Jobs : rows'[j] \in Row /\ issued'[j] \in 0..MaxAttempts
  BY DEF TableTypeOK
<1> QED BY <1>1 DEF TableInv, LeaseIsNewest, OneOutcome, RowOK

-----------------------------------------------------------------------------
(* What each statement does to the row it moves. *)

LEMMA FreshRow ==
  RowOK(NoRow, 0) /\ RowOK([NoRow EXCEPT !.status = "queued", !.version = 1], 0)
<1>. DEFINE s == [NoRow EXCEPT !.status = "queued", !.version = 1]
<1>1. NoRow \in Row
  BY ParseJobsAssumption DEF NoRow, Row, Status, Tokens, Null
<1>2. s \in Row
  BY <1>1 DEF Row, Status
<1>3. /\ s.status = "queued" /\ s.lease = "none" /\ s.token = Null /\ s.result = Null
      /\ s.attempts = 0 /\ s.finished = FALSE /\ s.deleted = FALSE
  BY DEF NoRow
<1>4. RowOK(s, 0)
  BY <1>2, <1>3, ParseJobsAssumption DEF RowOK, Terminal
<1>5. RowOK(NoRow, 0)
  BY <1>1, ParseJobsAssumption DEF RowOK, Terminal, NoRow
<1> QED BY <1>4, <1>5

LEMMA ReapedRow ==
  ASSUME NEW r, NEW n, RowOK(r, n), Available(r), r.attempts >= MaxAttempts
  PROVE  RowOK(Reaped(r), n)
<1>. DEFINE s == Reaped(r)
<1>0. r \in Row
  BY DEF RowOK
<1>1. r.version + 1 \in Nat /\ Null \in Tokens \cup {Null}
  BY <1>0 DEF Row
<1>2. s \in Row
  BY <1>0, <1>1 DEF Reaped, Row, Status
<1>3. /\ s.status = "failed" /\ s.lease = "none" /\ s.token = Null
      /\ s.attempts = r.attempts /\ s.result = r.result
      /\ s.error = TRUE /\ s.finished = TRUE
  BY <1>0 DEF Reaped, Row
<1>4. r.attempts = MaxAttempts /\ r.result = Null
  BY <1>0, ParseJobsAssumption DEF RowOK, Available, Row
<1> QED BY <1>2, <1>3, <1>4 DEF RowOK, Terminal

LEMMA ClaimedRow ==
  ASSUME NEW r, NEW n, RowOK(r, n), Available(r), r.attempts < MaxAttempts
  PROVE  RowOK(Claimed(r, n + 1), n + 1)
<1>. DEFINE s == Claimed(r, n + 1)
<1>0. r \in Row /\ r.attempts = n /\ r.attempts \in 0..MaxAttempts
  BY DEF RowOK, Row
<1>1. /\ r.version + 1 \in Nat /\ Null \in 0..MaxProgress
      /\ n + 1 \in Tokens /\ n + 1 \in 0..MaxAttempts /\ n + 1 # Null
  BY <1>0, ParseJobsAssumption DEF Row, Tokens, Null
<1>2. s \in Row
  BY <1>0, <1>1 DEF Claimed, Row, Status
<1>3. /\ s.status = "running" /\ s.lease = "live" /\ s.token = n + 1
      /\ s.attempts = n + 1 /\ s.result = r.result
      /\ s.error = FALSE /\ s.timed = FALSE
      /\ s.finished = r.finished /\ s.deleted = r.deleted
  BY <1>0 DEF Claimed, Row
<1>4. r.result = Null /\ r.finished = FALSE /\ r.deleted = FALSE
  BY <1>0 DEF RowOK, Available, Terminal, Row
<1> QED BY <1>1, <1>2, <1>3, <1>4 DEF RowOK, Terminal

\* What an owner's statement may assume of its row: it is the newest attempt,
\* and nothing of an outcome is there yet.
OwnedOK(r, n, t) ==
  /\ r \in Row /\ n \in 0..MaxAttempts /\ n \in Tokens
  /\ r.status = "running" /\ r.lease = "live" /\ r.token = n /\ t = n /\ n # Null
  /\ r.attempts = n /\ r.result = Null
  /\ r.error = FALSE /\ r.timed = FALSE /\ r.finished = FALSE /\ r.deleted = FALSE

LEMMA OwnedRow ==
  ASSUME NEW r, NEW n, NEW t, RowOK(r, n), Owns(r, t)
  PROVE  OwnedOK(r, n, t)
<1>1. r \in Row /\ n \in 0..MaxAttempts /\ r.token = n /\ t = n /\ n # Null
  BY DEF RowOK, Owns
<1>2. n \in Tokens
  BY <1>1 DEF Row
<1> QED BY <1>1, <1>2 DEF OwnedOK, RowOK, Owns, Terminal, Row

LEMMA RenewedRow ==
  ASSUME NEW r, NEW n, NEW t, NEW p \in 0..MaxProgress, RowOK(r, n), Owns(r, t)
  PROVE  RowOK(Renewed(r, p), n)
<1>. DEFINE s == Renewed(r, p)
<1>o. OwnedOK(r, n, t)
  BY OwnedRow
<1>0. r.version + 1 \in Nat
  BY <1>o DEF OwnedOK, Row
<1>1. s \in Row
  BY <1>o, <1>0 DEF OwnedOK, Renewed, Row
<1>2. /\ s.status = "running" /\ s.lease = "live" /\ s.token = n /\ s.attempts = n
      /\ s.result = Null /\ s.error = FALSE /\ s.timed = FALSE
      /\ s.finished = FALSE /\ s.deleted = FALSE
  BY <1>o DEF OwnedOK, Renewed, Row
<1> QED BY <1>1, <1>2, <1>o DEF OwnedOK, RowOK, Terminal

LEMMA SucceededRow ==
  ASSUME NEW r, NEW n, NEW t, NEW p \in 0..MaxProgress, RowOK(r, n), Owns(r, t)
  PROVE  RowOK(Succeeded(r, t, p), n)
<1>. DEFINE s == Succeeded(r, t, p)
<1>o. OwnedOK(r, n, t)
  BY OwnedRow
<1>0. r.version + 1 \in Nat /\ Reported(r, p) \in 0..MaxProgress /\ Null \in Tokens \cup {Null}
  BY <1>o DEF OwnedOK, Row, Reported
<1>1. s \in Row
  BY <1>o, <1>0 DEF OwnedOK, Succeeded, Row, Status
<1>2. /\ s.status = "succeeded" /\ s.lease = "none" /\ s.token = Null /\ s.attempts = n
      /\ s.result = n /\ s.error = FALSE /\ s.timed = TRUE
      /\ s.finished = TRUE /\ s.deleted = FALSE
  BY <1>o DEF OwnedOK, Succeeded, Row
<1> QED BY <1>1, <1>2, <1>o DEF OwnedOK, RowOK, Terminal

LEMMA RequeuedRow ==
  ASSUME NEW r, NEW n, NEW t, NEW p \in 0..MaxProgress, RowOK(r, n), Owns(r, t)
  PROVE  RowOK(Requeued(r, p), n)
<1>. DEFINE s == Requeued(r, p)
<1>o. OwnedOK(r, n, t)
  BY OwnedRow
<1>0. r.version + 1 \in Nat /\ Reported(r, p) \in 0..MaxProgress /\ Null \in Tokens \cup {Null}
  BY <1>o DEF OwnedOK, Row, Reported
<1>1. s \in Row
  BY <1>o, <1>0 DEF OwnedOK, Requeued, Row, Status
<1>2. /\ s.status = "queued" /\ s.lease = "none" /\ s.token = Null /\ s.attempts = n
      /\ s.result = Null /\ s.finished = FALSE /\ s.deleted = FALSE
  BY <1>o DEF OwnedOK, Requeued, Row
<1> QED BY <1>1, <1>2, <1>o DEF OwnedOK, RowOK, Terminal

LEMMA DeletedRow ==
  ASSUME NEW r, NEW n, RowOK(r, n), Terminal(r)
  PROVE  RowOK([r EXCEPT !.deleted = TRUE], n)
<1>. DEFINE s == [r EXCEPT !.deleted = TRUE]
<1>0. r \in Row /\ r.status \in {"succeeded", "failed"}
  BY DEF RowOK, Terminal
<1>1. s \in Row
  BY <1>0 DEF Row
<1>2. /\ s.status = r.status /\ s.lease = r.lease /\ s.token = r.token
      /\ s.attempts = r.attempts /\ s.result = r.result /\ s.error = r.error
      /\ s.timed = r.timed /\ s.finished = r.finished /\ s.deleted = TRUE
  BY <1>0 DEF Row
<1> QED BY <1>0, <1>1, <1>2 DEF RowOK, Terminal

LEMMA CleanedRow ==
  ASSUME NEW r, NEW n, RowOK(r, n), r.deleted
  PROVE  RowOK([r EXCEPT !.result = Null], n)
<1>. DEFINE s == [r EXCEPT !.result = Null]
<1>0. r \in Row /\ r.status \in {"succeeded", "failed"}
  BY DEF RowOK, Terminal
<1>1. s \in Row
  BY <1>0 DEF Row
<1>2. /\ s.status = r.status /\ s.lease = r.lease /\ s.token = r.token
      /\ s.attempts = r.attempts /\ s.result = Null /\ s.error = r.error
      /\ s.timed = r.timed /\ s.finished = r.finished /\ s.deleted = r.deleted
  BY <1>0 DEF Row
<1> QED BY <1>0, <1>1, <1>2 DEF RowOK, Terminal

LEMMA ExpiredRow ==
  ASSUME NEW r, NEW n, RowOK(r, n), r.lease = "live"
  PROVE  RowOK([r EXCEPT !.lease = "expired"], n)
<1>. DEFINE s == [r EXCEPT !.lease = "expired"]
<1>0. r \in Row /\ r.status = "running"
  BY DEF RowOK
<1>1. s \in Row
  BY <1>0 DEF Row
<1>2. /\ s.status = r.status /\ s.lease = "expired" /\ s.token = r.token
      /\ s.attempts = r.attempts /\ s.result = r.result /\ s.error = r.error
      /\ s.timed = r.timed /\ s.finished = r.finished /\ s.deleted = r.deleted
  BY <1>0 DEF Row
<1> QED BY <1>0, <1>1, <1>2 DEF RowOK, Terminal
-----------------------------------------------------------------------------
(* What each statement does to the table. *)

\* A statement that moves one row and hands out no token.
LEMMA OneRowStep ==
  ASSUME TableInv, NEW j \in Jobs, NEW r, RowOK(r, issued[j]),
         rows' = [rows EXCEPT ![j] = r], issued' = issued
  PROVE  TableInv'
<1>1. /\ rows' = [k \in Jobs |-> rows'[k]]
      /\ issued' = [k \in Jobs |-> issued'[k]]
      /\ rows'[j] = r /\ \A k \in Jobs \ {j} : rows'[k] = rows[k]
  BY TableByRow
<1> QED BY <1>1, TableByRow, TableByRowPrime

LEMMA InvInit == TableInit => TableInv
  BY FreshRow, TableByRow DEF TableInit

LEMMA InvClaim ==
  ASSUME TableInv, NEW j \in Jobs, NEW R \in SUBSET Reapable, Claim(j, R)
  PROVE  TableInv'
<1>1. \A k \in Jobs : RowOK(rows[k], issued[k])
  BY TableByRow
<1>2. issued[j] \in Nat /\ rows[j].attempts < MaxAttempts /\ Available(rows[j])
  BY <1>1 DEF RowOK, Claim, Claimable
<1>3. issued = [k \in Jobs |-> issued[k]] /\ issued' = [issued EXCEPT ![j] = issued[j] + 1]
  BY TableByRow DEF Claim
<1>4. RowOK(rows'[j], issued'[j])
  BY <1>1, <1>2, <1>3, ClaimedRow DEF Claim
<1>5. ASSUME NEW k \in R, k # j
      PROVE  k \in Jobs /\ RowOK(rows'[k], issued'[k])
  BY <1>1, <1>3, <1>5, ReapedRow DEF Claim, Reapable
<1>6. ASSUME NEW k \in Jobs, k # j, k \notin R
      PROVE  RowOK(rows'[k], issued'[k])
  BY <1>1, <1>3, <1>6 DEF Claim
<1>7. rows' = [k \in Jobs |-> rows'[k]] /\ issued' = [k \in Jobs |-> issued'[k]]
  BY <1>3 DEF Claim
<1> QED BY <1>4, <1>5, <1>6, <1>7, TableByRowPrime

LEMMA InvReap ==
  ASSUME TableInv, NEW R \in SUBSET Reapable, Reap(R)
  PROVE  TableInv'
<1>1. \A k \in Jobs : RowOK(rows[k], issued[k])
  BY TableByRow
<1>2. ASSUME NEW k \in R
      PROVE  k \in Jobs /\ RowOK(rows'[k], issued'[k])
  BY <1>1, ReapedRow DEF Reap, Reapable
<1>3. ASSUME NEW k \in Jobs, k \notin R
      PROVE  RowOK(rows'[k], issued'[k])
  BY <1>1, <1>3 DEF Reap
<1>4. rows' = [k \in Jobs |-> rows'[k]] /\ issued' = [k \in Jobs |-> issued'[k]]
  BY TableByRow DEF Reap
<1> QED BY <1>2, <1>3, <1>4, TableByRowPrime

LEMMA InvStep == TableInv /\ [TableNext]_tableVars => TableInv'
<1>. SUFFICES ASSUME TableInv, [TableNext]_tableVars PROVE TableInv'
  OBVIOUS
<1>0. \A k \in Jobs : RowOK(rows[k], issued[k])
  BY TableByRow
<1>1. ASSUME NEW R \in SUBSET Reapable, Reap(R) PROVE TableInv'
  BY <1>1, InvReap
<1>2. ASSUME NEW j \in Jobs, NEW R \in SUBSET Reapable, Claim(j, R) PROVE TableInv'
  BY <1>2, InvClaim
<1>3. ASSUME NEW j \in Jobs, Submit(j) PROVE TableInv'
  <2>1. issued[j] = 0
    BY <1>0, <1>3 DEF RowOK, Submit, NoRow
  <2> QED BY <1>3, <2>1, FreshRow, OneRowStep DEF Submit
<1>4. ASSUME NEW j \in Jobs, MarkDeleted(j) PROVE TableInv'
  <2>1. rows' = [rows EXCEPT ![j] = [rows[j] EXCEPT !.deleted = TRUE]] /\ issued' = issued
    BY <1>4 DEF MarkDeleted
  <2>2. RowOK([rows[j] EXCEPT !.deleted = TRUE], issued[j])
    BY <1>0, <1>4, DeletedRow DEF MarkDeleted
  <2> QED BY <2>1, <2>2, OneRowStep
<1>5. ASSUME NEW j \in Jobs, LeaseExpires(j) PROVE TableInv'
  <2>1. rows' = [rows EXCEPT ![j] = [rows[j] EXCEPT !.lease = "expired"]] /\ issued' = issued
    BY <1>5 DEF LeaseExpires
  <2>2. RowOK([rows[j] EXCEPT !.lease = "expired"], issued[j])
    BY <1>0, <1>5, ExpiredRow DEF LeaseExpires
  <2> QED BY <2>1, <2>2, OneRowStep
<1>6. ASSUME NEW j \in Jobs, NEW t \in Tokens, FinishCleanup(j, t) PROVE TableInv'
  <2>1. rows' = [rows EXCEPT ![j] = [rows[j] EXCEPT !.result = Null]] /\ issued' = issued
    BY <1>6 DEF FinishCleanup
  <2>2. RowOK([rows[j] EXCEPT !.result = Null], issued[j])
    BY <1>0, <1>6, CleanedRow DEF FinishCleanup
  <2> QED BY <2>1, <2>2, OneRowStep
<1>7. ASSUME NEW j \in Jobs, NEW t \in Tokens, NEW p \in 0..MaxProgress, Heartbeat(j, t, p)
      PROVE  TableInv'
  <2>1. RowOK(Renewed(rows[j], p), issued[j])
    BY <1>0, <1>7, RenewedRow DEF Heartbeat
  <2> QED BY <1>7, <2>1, OneRowStep DEF Heartbeat
<1>8. ASSUME NEW j \in Jobs, NEW t \in Tokens, NEW p \in 0..MaxProgress, Succeed(j, t, p)
      PROVE  TableInv'
  <2>1. RowOK(Succeeded(rows[j], t, p), issued[j])
    BY <1>0, <1>8, SucceededRow DEF Succeed
  <2> QED BY <1>8, <2>1, OneRowStep DEF Succeed
<1>9. ASSUME NEW j \in Jobs, NEW t \in Tokens, NEW p \in 0..MaxProgress, Requeue(j, t, p)
      PROVE  TableInv'
  <2>1. RowOK(Requeued(rows[j], p), issued[j])
    BY <1>0, <1>9, RequeuedRow DEF Requeue
  <2> QED BY <1>9, <2>1, OneRowStep DEF Requeue
<1>10. CASE UNCHANGED tableVars
  BY <1>10 DEF TableInv, TableTypeOK, LeaseIsNewest, OneOutcome, tableVars
<1> QED BY <1>1, <1>2, <1>3, <1>4, <1>5, <1>6, <1>7, <1>8, <1>9, <1>10 DEF TableNext

\* The inductive invariant holds of every behaviour of the table.
THEOREM TableInvariant == TableSpec => []TableInv
<1>1. TableInit => TableInv
  BY InvInit
<1>2. TableInv /\ [TableNext]_tableVars => TableInv'
  BY InvStep
<1> QED BY <1>1, <1>2, PTL DEF TableSpec

\* Every column always holds a value of its domain; in particular no row is
\* ever attempted more than MaxAttempts times, whatever replicas claim.
THEOREM TableTypeCorrect == TableSpec => []TableTypeOK
<1>1. TableInv => TableTypeOK
  BY DEF TableInv
<1> QED BY <1>1, TableInvariant, PTL

\* A lease belongs to a running row and its token is the newest generated.
THEOREM NewestLease == TableSpec => []LeaseIsNewest
<1>1. TableInv => LeaseIsNewest
  BY DEF TableInv
<1> QED BY <1>1, TableInvariant, PTL

\* A job has at most one outcome, published by its newest attempt.
THEOREM SingleOutcome == TableSpec => []OneOutcome
<1>1. TableInv => OneOutcome
  BY DEF TableInv
<1> QED BY <1>1, TableInvariant, PTL
-----------------------------------------------------------------------------
(* What a step may never do.  The action properties speak of one row, so the *)
(* steps are first reduced to the moves of one row.                           *)

\* The move of a row r whose owner holds token t, reporting progress p.
OwnerMove(r, s, t, p) ==
  /\ Owns(r, t)
  /\ \/ s = Renewed(r, p) /\ (p = Null \/ p > r.progress)
     \/ s = Succeeded(r, t, p)
     \/ s = Requeued(r, p)

\* From row r with n tokens issued to row s with m.
RowMove(r, n, s, m) ==
  \/ s = r /\ m = n
  \/ r.status = "absent" /\ s = [NoRow EXCEPT !.status = "queued", !.version = 1] /\ m = n
  \/ Available(r) /\ r.attempts < MaxAttempts /\ s = Claimed(r, n + 1) /\ m = n + 1
  \/ Available(r) /\ r.attempts >= MaxAttempts /\ s = Reaped(r) /\ m = n
  \/ m = n /\ \E t \in Tokens, p \in 0..MaxProgress : OwnerMove(r, s, t, p)
  \/ Terminal(r) /\ s = [r EXCEPT !.deleted = TRUE] /\ m = n
  \/ r.deleted /\ s = [r EXCEPT !.result = Null] /\ m = n
  \/ r.lease = "live" /\ s = [r EXCEPT !.lease = "expired"] /\ m = n

LEMMA StepByRow ==
  ASSUME TableInv, [TableNext]_tableVars, NEW k \in Jobs
  PROVE  RowMove(rows[k], issued[k], rows'[k], issued'[k])
<1>0. rows = [j \in Jobs |-> rows[j]] /\ issued = [j \in Jobs |-> issued[j]]
  BY TableByRow
<1>1. ASSUME NEW R \in SUBSET Reapable, Reap(R)
      PROVE  RowMove(rows[k], issued[k], rows'[k], issued'[k])
  BY <1>1 DEF Reap, Reapable, RowMove
<1>2. ASSUME NEW j \in Jobs, NEW R \in SUBSET Reapable, Claim(j, R)
      PROVE  RowMove(rows[k], issued[k], rows'[k], issued'[k])
  <2>1. CASE k = j
    BY <1>0, <1>2, <2>1 DEF Claim, Claimable, RowMove
  <2>2. CASE k # j /\ k \in R
    BY <1>0, <1>2, <2>2 DEF Claim, Reapable, RowMove
  <2>3. CASE k # j /\ k \notin R
    BY <1>0, <1>2, <2>3 DEF Claim, RowMove
  <2> QED BY <2>1, <2>2, <2>3
<1>3. ASSUME NEW j \in Jobs, Submit(j) \/ MarkDeleted(j) \/ LeaseExpires(j)
      PROVE  RowMove(rows[k], issued[k], rows'[k], issued'[k])
  BY <1>0, <1>3 DEF Submit, MarkDeleted, LeaseExpires, RowMove
<1>4. ASSUME NEW j \in Jobs, NEW t \in Tokens, FinishCleanup(j, t)
      PROVE  RowMove(rows[k], issued[k], rows'[k], issued'[k])
  BY <1>0, <1>4 DEF FinishCleanup, RowMove
<1>5. ASSUME NEW j \in Jobs, NEW t \in Tokens, NEW p \in 0..MaxProgress,
             Heartbeat(j, t, p) \/ Succeed(j, t, p) \/ Requeue(j, t, p)
      PROVE  RowMove(rows[k], issued[k], rows'[k], issued'[k])
  <2>1. CASE k = j
    <3>1. OwnerMove(rows[k], rows'[k], t, p) /\ issued'[k] = issued[k]
      BY <1>0, <1>5, <2>1 DEF Heartbeat, Succeed, Requeue, OwnerMove
    <3> QED BY <3>1 DEF RowMove
  <2>2. CASE k # j
    BY <1>0, <1>5, <2>2 DEF Heartbeat, Succeed, Requeue, RowMove
  <2> QED BY <2>1, <2>2
<1>6. CASE UNCHANGED tableVars
  BY <1>6 DEF RowMove, tableVars
<1> QED BY <1>1, <1>2, <1>3, <1>4, <1>5, <1>6 DEF TableNext

\* A live lease excludes every other claimer and the reaper.
THEOREM LeaseExclusion == TableSpec => LiveLeaseIsExclusive
<1>1. ASSUME TableInv, [TableNext]_tableVars, NEW j \in Jobs, rows[j].lease = "live"
      PROVE  /\ issued'[j] = issued[j]
             /\ rows'[j].token \in {rows[j].token, Null}
             /\ rows'[j].status # "failed"
  <2>. DEFINE r == rows[j]  s == rows'[j]
  <2>1. r \in Row /\ r.status = "running" /\ ~Terminal(r) /\ ~r.deleted /\ ~Available(r)
    BY <1>1, TableByRow DEF RowOK, Terminal, Available
  <2>2. RowMove(r, issued[j], s, issued'[j])
    BY <1>1, StepByRow
  <2>3. CASE s = r
    BY <2>1, <2>2, <2>3 DEF RowMove, Available
  <2>4. CASE s = [r EXCEPT !.lease = "expired"]
    BY <2>1, <2>2, <2>4 DEF RowMove, Row
  <2>5. ASSUME NEW t \in Tokens, NEW p \in 0..MaxProgress, OwnerMove(r, s, t, p)
        PROVE  s.token \in {r.token, Null} /\ s.status # "failed"
    BY <2>1, <2>5 DEF OwnerMove, Renewed, Succeeded, Requeued, Row
  <2> QED BY <2>1, <2>2, <2>3, <2>4, <2>5 DEF RowMove
<1>2. TableInv /\ [TableNext]_tableVars =>
        [\A j \in Jobs : rows[j].lease = "live" =>
           /\ issued'[j] = issued[j]
           /\ rows'[j].token \in {rows[j].token, Null}
           /\ rows'[j].status # "failed"]_tableVars
  BY <1>1
<1> QED BY <1>2, TableInvariant, PTL DEF TableSpec, LiveLeaseIsExclusive

\* An expired holder can neither renew nor report: it is fenced.
THEOREM ExpiryFences == TableSpec => ExpiredLeaseIsFenced
<1>1. ASSUME TableInv, [TableNext]_tableVars, NEW j \in Jobs,
             rows[j].lease = "expired", rows'[j] # rows[j]
      PROVE  \/ rows'[j].status = "running" /\ rows'[j].token = rows[j].token + 1
             \/ rows'[j].status = "failed" /\ rows'[j].progress = rows[j].progress
  <2>. DEFINE r == rows[j]  s == rows'[j]
  <2>1. /\ r \in Row /\ r.status = "running" /\ r.token = issued[j]
        /\ ~Terminal(r) /\ ~r.deleted
    BY <1>1, TableByRow DEF RowOK, Terminal
  <2>2. RowMove(r, issued[j], s, issued'[j])
    BY <1>1, StepByRow
  <2>3. s = Claimed(r, issued[j] + 1) \/ s = Reaped(r)
    BY <1>1, <2>1, <2>2 DEF RowMove, OwnerMove, Owns
  <2>4. CASE s = Claimed(r, issued[j] + 1)
    <3>1. s.status = "running" /\ s.token = r.token + 1
      BY <2>1, <2>4 DEF Claimed, Row
    <3> QED BY <3>1
  <2>5. CASE s = Reaped(r)
    <3>1. s.status = "failed" /\ s.progress = r.progress
      BY <2>1, <2>5 DEF Reaped, Row
    <3> QED BY <3>1
  <2> QED BY <2>3, <2>4, <2>5
<1>2. TableInv /\ [TableNext]_tableVars =>
        [\A j \in Jobs : rows[j].lease = "expired" /\ rows'[j] # rows[j] =>
           \/ rows'[j].status = "running" /\ rows'[j].token = rows[j].token + 1
           \/ rows'[j].status = "failed" /\ rows'[j].progress = rows[j].progress]_tableVars
  BY <1>1
<1> QED BY <1>2, TableInvariant, PTL DEF TableSpec, ExpiredLeaseIsFenced

\* No late statement changes a terminal outcome; only a deletion forgets its name.
THEOREM OutcomeIsFinal == TableSpec => TerminalIsFinal
<1>1. ASSUME TableInv, [TableNext]_tableVars, NEW j \in Jobs, Terminal(rows[j])
      PROVE  /\ rows'[j].status = rows[j].status
             /\ rows'[j].version = rows[j].version
             /\ rows[j].deleted => rows'[j].deleted
             /\ rows'[j].result # rows[j].result => rows[j].deleted /\ rows'[j].result = Null
  <2>. DEFINE r == rows[j]  s == rows'[j]
  <2>1. r \in Row /\ r.lease = "none" /\ r.status \in {"succeeded", "failed"}
    BY <1>1, TableByRow DEF RowOK, Terminal, Row
  <2>2. \/ s = r
        \/ s = [r EXCEPT !.deleted = TRUE]
        \/ r.deleted /\ s = [r EXCEPT !.result = Null]
    <3>1. RowMove(r, issued[j], s, issued'[j])
      BY <1>1, StepByRow
    <3> QED BY <2>1, <3>1 DEF RowMove, OwnerMove, Owns, Available
  <2>3. CASE s = r
    BY <2>3
  <2>4. CASE s = [r EXCEPT !.deleted = TRUE]
    BY <2>1, <2>4 DEF Row
  <2>5. CASE r.deleted /\ s = [r EXCEPT !.result = Null]
    BY <2>1, <2>5 DEF Row
  <2> QED BY <2>2, <2>3, <2>4, <2>5
<1>2. TableInv /\ [TableNext]_tableVars =>
        [\A j \in Jobs : Terminal(rows[j]) =>
           /\ rows'[j].status = rows[j].status
           /\ rows'[j].version = rows[j].version
           /\ rows[j].deleted => rows'[j].deleted
           /\ rows'[j].result # rows[j].result => rows[j].deleted /\ rows'[j].result = Null]_tableVars
  BY <1>1
<1> QED BY <1>2, TableInvariant, PTL DEF TableSpec, TerminalIsFinal

\* Event streams may keep the highest version alone: it orders the snapshots.
THEOREM VersionsOrder == TableSpec => VersionOrdersSnapshots
<1>1. ASSUME TableInv, [TableNext]_tableVars, NEW j \in Jobs
      PROVE  /\ rows'[j].version >= rows[j].version
             /\ Snapshot(rows'[j]) # Snapshot(rows[j]) => rows'[j].version > rows[j].version
  <2>. DEFINE r == rows[j]  s == rows'[j]
  <2>1. r \in Row /\ r.version \in Nat /\ (r.status = "absent" => r = NoRow)
    BY <1>1, TableByRow DEF RowOK, Row
  <2>2. RowMove(r, issued[j], s, issued'[j])
    BY <1>1, StepByRow
  <2>3. CASE s.version = r.version + 1
    BY <2>1, <2>3
  <2>4. CASE s.version = r.version /\ Snapshot(s) = Snapshot(r)
    BY <2>1, <2>4
  <2>5. CASE r.status = "absent" /\ s = [NoRow EXCEPT !.status = "queued", !.version = 1]
    <3>1. r.version = 0 /\ s.version = 1
      BY <2>1, <2>5 DEF NoRow
    <3> QED BY <3>1, <2>3
  <2>6. CASE s = Claimed(r, issued[j] + 1) \/ s = Reaped(r)
    <3>1. s.version = r.version + 1
      BY <2>1, <2>6 DEF Claimed, Reaped, Row
    <3> QED BY <3>1, <2>3
  <2>7. ASSUME NEW t \in Tokens, NEW p \in 0..MaxProgress, OwnerMove(r, s, t, p)
        PROVE  s.version = r.version + 1 \/ (s.version = r.version /\ Snapshot(s) = Snapshot(r))
    <3>1. CASE s = Renewed(r, Null)
      BY <2>1, <3>1 DEF Renewed, Snapshot, Row
    <3>2. CASE p # Null /\ s = Renewed(r, p)
      BY <2>1, <3>2 DEF Renewed, Row
    <3>3. CASE s = Succeeded(r, t, p) \/ s = Requeued(r, p)
      BY <2>1, <3>3 DEF Succeeded, Requeued, Row
    <3> QED BY <2>7, <3>1, <3>2, <3>3 DEF OwnerMove
  <2>8. CASE \/ s = r \/ s = [r EXCEPT !.deleted = TRUE]
             \/ s = [r EXCEPT !.result = Null] \/ s = [r EXCEPT !.lease = "expired"]
    <3>1. s.version = r.version /\ Snapshot(s) = Snapshot(r)
      BY <2>1, <2>8 DEF Snapshot, Row
    <3> QED BY <3>1, <2>4
  <2> QED BY <2>2, <2>3, <2>4, <2>5, <2>6, <2>7, <2>8 DEF RowMove
<1>2. TableInv /\ [TableNext]_tableVars =>
        [\A j \in Jobs :
           /\ rows'[j].version >= rows[j].version
           /\ Snapshot(rows'[j]) # Snapshot(rows[j]) => rows'[j].version > rows[j].version]_tableVars
  BY <1>1
<1> QED BY <1>2, TableInvariant, PTL DEF TableSpec, VersionOrdersSnapshots

(***************************************************************************)
(* The inductive invariant.  Each part speaks of one attempt: what its own *)
(* worker, its files, the sweeps' pending decisions about it and the row   *)
(* of its job have to do with each other.                                  *)
(***************************************************************************)

IsNewest(a) == TokenOf(a) = issued[JobOf(a)]

\* A token that was not issued yet has left no trace.
Unborn(a) ==
  TokenOf(a) > issued[JobOf(a)] =>
    /\ sup[a] = "idle" /\ op[a] = "idle"
    /\ a \notin results \cup drawn \cup dirs \cup armed \cup removals \cup acks

\* Until its marker is written, nobody but its own parse touches the directory.
Drawing(a) == op[a] = "drawing" => a \in dirs /\ a \notin drawn

\* Sweeps only ever see directories that were written to.
Marked(a) == a \in markers \cup seen \cup adopt \cup discard => a \in drawn

\* A joined parse has published and let go of its directory.
Joined(a) == sup[a] \in {"succeeding", "accepted"} => op[a] = "gone" /\ a \notin armed

\* While the table would still accept the completion, what it would promise is there.
Owning(a) ==
  RowOf(a).token = TokenOf(a) /\ sup[a] \in {"watching", "succeeding"} =>
    /\ a \in drawn => a \in dirs
    /\ op[a] = "done" \/ sup[a] = "succeeding" => a \in results

\* Once an outcome is committed its attempt writes and deletes nothing any more.
Settled(a) ==
  RowOf(a).status = "succeeded" /\ IsNewest(a) =>
    op[a] = "gone" /\ a \notin armed /\ sup[a] \in {"accepted", "ended"}

\* What a visible row names can be read.
Readable(a) ==
  RowOf(a).status = "succeeded" /\ IsNewest(a) /\ ~RowOf(a).deleted => Intact(a)

\* Results are removed for deleted rows only, the file after its figures.
Removed(a) ==
  /\ a \in removals \cup acks =>
       RowOf(a).deleted /\ RowOf(a).status = "succeeded" /\ IsNewest(a)
  /\ a \in acks => a \notin results \cup dirs

\* What a row has forgotten is gone.
Forgotten(a) ==
  RowOf(a).status = "succeeded" /\ IsNewest(a) /\ RowOf(a).result = Null =>
    a \notin results \cup dirs

\* A decision to discard stays right, however late it is carried out.
Discarded(a) == a \in discard => Doomed(a)

AttemptOK(a) ==
  /\ Unborn(a) /\ Drawing(a) /\ Marked(a) /\ Joined(a) /\ Owning(a)
  /\ Settled(a) /\ Readable(a) /\ Removed(a) /\ Forgotten(a) /\ Discarded(a)

IInv ==
  /\ TableInv
  /\ TypeOK
  /\ \A a \in Attempts : AttemptOK(a)

-----------------------------------------------------------------------------
(* The row, as an attempt sees it move. *)

\* Every step of the system is a statement of the table, or leaves it alone.
LEMMA TableStep == TypeOK /\ [Next]_vars => [TableNext]_tableVars
<1>. SUFFICES ASSUME TypeOK, [Next]_vars PROVE [TableNext]_tableVars
  OBVIOUS
<1>1. CASE UNCHANGED vars
  BY <1>1 DEF vars, tableVars
<1>2. ASSUME NEW R \in SUBSET Reapable, ReapJobs(R) PROVE TableNext
  BY <1>2 DEF ReapJobs, TableNext
<1>3. ASSUME NEW j \in Jobs, SubmitJob(j) \/ Expire(j) \/ DeleteJob(j) PROVE TableNext
  BY <1>3 DEF SubmitJob, Expire, DeleteJob, TableNext
<1>4. ASSUME NEW j \in Jobs, ListRemoval(j) PROVE UNCHANGED tableVars
  BY <1>4 DEF ListRemoval
<1>5. ASSUME NEW j \in Jobs, NEW R \in SUBSET Reapable, StartAttempt(j, R) \/ LoseClaim(j, R)
      PROVE  TableNext
  BY <1>5 DEF StartAttempt, LoseClaim, TableNext
<1>6. ASSUME NEW a \in Attempts PROVE JobOf(a) \in Jobs /\ TokenOf(a) \in Tokens
  BY <1>6 DEF Attempts, JobOf, TokenOf
<1>7. Null \in 0..MaxProgress
  BY ParseJobsAssumption DEF Null
<1>8. ASSUME NEW a \in Attempts, Supervise(a) PROVE [TableNext]_tableVars
  BY <1>6, <1>7, <1>8 DEF Supervise, Abandon, JoinOk, JoinErr, JobTimeout, FinishRejected,
       KeepFigures, FinishOk, FinishErr, TableNext
<1>9. ASSUME NEW a \in Attempts, Parse(a) \/ Crash(a) \/ DropDecision(a)
      PROVE  UNCHANGED tableVars
  BY <1>9 DEF Parse, CreateFigureDir, MarkFigureDir, DiscardFigureDir, BeginPublish, Publish,
       ParseFails, AbortParse, DropFigures, Crash, DropDecision
<1>10. ASSUME NEW a \in Attempts, Sweep(a) PROVE [TableNext]_tableVars
  BY <1>6, <1>10 DEF Sweep, RemoveFigures, RemoveResult, AckRemoval, SeeMarker, JudgeFigures,
       AdoptFigures, DiscardFigures, TableNext
<1>11. ASSUME NEW a \in Attempts, NEW p \in 0..MaxProgress, Renew(a, p) PROVE TableNext
  BY <1>6, <1>11 DEF Renew, TableNext
<1> QED BY <1>1, <1>2, <1>3, <1>4, <1>5, <1>8, <1>9, <1>10, <1>11 DEF Next

\* From row r with n tokens issued to row s with m: what may happen to the token, the
\* outcome and its name.
RowShift(r, n, s, m) ==
  /\ m \in {n, n + 1}
  /\ s.token \in {r.token, Null} \/ (s.token = n + 1 /\ m = n + 1)
  /\ r.status = "succeeded" => s.status = "succeeded" /\ m = n
  /\ r.deleted => s.deleted
  /\ s.status = "succeeded" /\ r.status # "succeeded" =>
       r.token = n /\ m = n /\ s.result = n /\ ~s.deleted
  /\ s.result \in {r.result, Null} \/ (s.status = "succeeded" /\ r.status # "succeeded")

LEMMA RowShifts ==
  ASSUME TableInv, [TableNext]_tableVars, NEW k \in Jobs
  PROVE  RowShift(rows[k], issued[k], rows'[k], issued'[k])
<1>. DEFINE r == rows[k]  n == issued[k]  s == rows'[k]  m == issued'[k]
<1>1. RowOK(r, n) /\ r \in Row
  BY TableByRow DEF RowOK
<1>2. RowMove(r, n, s, m)
  BY StepByRow
<1>3. CASE s = r /\ m = n
  BY <1>3 DEF RowShift
<1>4. CASE r.status = "absent" /\ s = [NoRow EXCEPT !.status = "queued", !.version = 1] /\ m = n
  BY <1>1, <1>4 DEF RowShift, NoRow, RowOK, Terminal, Null
<1>5. CASE Available(r) /\ s = Claimed(r, n + 1) /\ m = n + 1
  <2>1. s.token = n + 1 /\ s.status = "running" /\ s.deleted = r.deleted /\ s.result = r.result
    BY <1>1, <1>5 DEF Claimed, Row
  <2> QED BY <1>1, <1>5, <2>1 DEF RowShift, Available
<1>6. CASE Available(r) /\ s = Reaped(r) /\ m = n
  <2>1. s.token = Null /\ s.status = "failed" /\ s.deleted = r.deleted /\ s.result = r.result
    BY <1>1, <1>6 DEF Reaped, Row
  <2> QED BY <1>1, <1>6, <2>1 DEF RowShift, Available
<1>7. ASSUME m = n, NEW t \in Tokens, NEW p \in 0..MaxProgress, OwnerMove(r, s, t, p)
      PROVE  RowShift(r, n, s, m)
  <2>1. OwnedOK(r, n, t)
    BY <1>1, <1>7, OwnedRow DEF OwnerMove
  <2>2. CASE s = Renewed(r, p)
    <3>1. s.token = r.token /\ s.status = r.status /\ s.deleted = r.deleted /\ s.result = r.result
      BY <1>1, <2>2 DEF Renewed, Row
    <3> QED BY <1>7, <3>1 DEF RowShift
  <2>3. CASE s = Succeeded(r, t, p)
    <3>1. s.token = Null /\ s.status = "succeeded" /\ s.deleted = r.deleted /\ s.result = t
      BY <1>1, <2>3 DEF Succeeded, Row
    <3> QED BY <1>7, <2>1, <3>1 DEF RowShift, OwnedOK
  <2>4. CASE s = Requeued(r, p)
    <3>1. s.token = Null /\ s.status = "queued" /\ s.deleted = r.deleted /\ s.result = Null
      BY <1>1, <2>4 DEF Requeued, Row
    <3> QED BY <1>7, <2>1, <3>1 DEF RowShift, OwnedOK
  <2> QED BY <1>7, <2>2, <2>3, <2>4 DEF OwnerMove
<1>8. CASE s = [r EXCEPT !.deleted = TRUE] /\ m = n
  <2>1. s.token = r.token /\ s.status = r.status /\ s.deleted = TRUE /\ s.result = r.result
    BY <1>1, <1>8 DEF Row
  <2> QED BY <1>8, <2>1 DEF RowShift
<1>9. CASE s = [r EXCEPT !.result = Null] /\ m = n
  <2>1. s.token = r.token /\ s.status = r.status /\ s.deleted = r.deleted /\ s.result = Null
    BY <1>1, <1>9 DEF Row
  <2> QED BY <1>9, <2>1 DEF RowShift
<1>10. CASE s = [r EXCEPT !.lease = "expired"] /\ m = n
  <2>1. s.token = r.token /\ s.status = r.status /\ s.deleted = r.deleted /\ s.result = r.result
    BY <1>1, <1>10 DEF Row
  <2> QED BY <1>10, <2>1 DEF RowShift
<1> QED BY <1>2, <1>3, <1>4, <1>5, <1>6, <1>7, <1>8, <1>9, <1>10 DEF RowMove

\* Nothing of attempt b but its row may have changed.
Untouched(b) ==
  /\ sup'[b] = sup[b] /\ op'[b] = op[b]
  /\ b \in results' <=> b \in results
  /\ b \in drawn' <=> b \in drawn
  /\ b \in dirs' <=> b \in dirs
  /\ b \in markers' <=> b \in markers
  /\ b \in armed' <=> b \in armed
  /\ b \in removals' <=> b \in removals
  /\ b \in acks' <=> b \in acks
  /\ b \in seen' <=> b \in seen
  /\ b \in adopt' <=> b \in adopt
  /\ b \in discard' <=> b \in discard

\* The outcome of b was neither committed nor forgotten in this step.
NotDecided(b) ==
  IsNewest(b) =>
    /\ RowOf(b)'.status = "succeeded" => RowOf(b).status = "succeeded"
    /\ RowOf(b)'.result = RowOf(b).result \/ RowOf(b).status # "succeeded"

\* An attempt that is only affected through its row, and not by its own outcome.
LEMMA Bystander ==
  ASSUME IInv, [TableNext]_tableVars, NEW b \in Attempts, Untouched(b), NotDecided(b)
  PROVE  AttemptOK(b)'
<1>. DEFINE j == JobOf(b)  t == TokenOf(b)
            r == rows[j]  n == issued[j]  s == rows'[j]  m == issued'[j]
<1>1. j \in Jobs /\ t \in Tokens /\ t \in Nat /\ t # Null
  BY DEF Attempts, JobOf, TokenOf, Tokens, Null
<1>2. RowShift(r, n, s, m)
  BY <1>1, RowShifts DEF IInv
<1>3. RowOK(r, n) /\ RowOK(s, m)
  BY <1>1, InvStep, TableByRow, TableByRowPrime DEF IInv
<1>4. n \in Nat /\ m \in Nat
  BY <1>3 DEF RowOK
<1>5. AttemptOK(b)
  BY DEF IInv
<1>. USE <1>1, <1>2, <1>3, <1>4, <1>5 DEF AttemptOK
<1>6. Unborn(b)'
  BY DEF Untouched, Unborn, RowShift
<1>7. Drawing(b)' /\ Marked(b)' /\ Joined(b)'
  BY DEF Untouched, Drawing, Marked, Joined
<1>8. Owning(b)'
  BY DEF Untouched, Owning, Unborn, RowShift, RowOf
<1>9. s.status = "succeeded" /\ t = m => r.status = "succeeded" /\ t = n
  BY DEF NotDecided, IsNewest, RowShift, RowOf
<1>10. Settled(b)'
  BY <1>9 DEF Untouched, Settled, IsNewest, RowOf
<1>11. Readable(b)'
  BY <1>9 DEF Untouched, Readable, IsNewest, RowOf, Intact, RowShift
<1>12. Removed(b)'
  BY DEF Untouched, Removed, IsNewest, RowOf, RowShift
<1>13. Forgotten(b)'
  BY <1>9 DEF Untouched, Forgotten, IsNewest, RowOf, NotDecided
<1>14. Doomed(b) => Doomed(b)'
  BY DEF NotDecided, IsNewest, Doomed, RowOf, RowShift
<1>15. Discarded(b)'
  BY <1>14 DEF Untouched, Discarded
<1> QED BY <1>6, <1>7, <1>8, <1>10, <1>11, <1>12, <1>13, <1>15

\* A step that touches one attempt only.
LEMMA OneAttempt ==
  ASSUME IInv, [TableNext]_tableVars, NEW a \in Attempts, AttemptOK(a)',
         \A b \in Attempts : b # a => Untouched(b) /\ NotDecided(b)
  PROVE  \A b \in Attempts : AttemptOK(b)'
<1>. TAKE b \in Attempts
<1>1. CASE b = a
  BY <1>1
<1>2. CASE b # a
  BY <1>2, Bystander
<1> QED BY <1>1, <1>2

\* The statements that decide nothing: all but a completion and an acknowledgement.
LEMMA Undecided ==
  ASSUME IInv, NEW b \in Attempts,
         \/ UNCHANGED tableVars
         \/ \E R \in SUBSET Reapable : Reap(R)
         \/ \E j \in Jobs :
              \/ Submit(j) \/ MarkDeleted(j) \/ LeaseExpires(j)
              \/ \E R \in SUBSET Reapable : Claim(j, R)
              \/ \E t \in Tokens, p \in 0..MaxProgress : Heartbeat(j, t, p) \/ Requeue(j, t, p)
  PROVE  NotDecided(b)
<1>. DEFINE k == JobOf(b)  r == rows[k]  s == rows'[k]
<1>1. k \in Jobs /\ r \in Row /\ rows \in [Jobs -> Row]
  BY DEF IInv, TypeOK, TableTypeOK, Attempts, JobOf
<1>2. (s.status = "succeeded" => r.status = "succeeded") /\ (s.result = r.result \/ r.status # "succeeded")
      => NotDecided(b)
  BY DEF NotDecided, RowOf
<1>3. CASE UNCHANGED tableVars
  BY <1>2, <1>3 DEF tableVars
<1>4. ASSUME Available(r), s = Reaped(r) PROVE NotDecided(b)
  <2>1. s.status = "failed" /\ r.status # "succeeded"
    BY <1>1, <1>4 DEF Available, Reaped, Row
  <2> QED BY <1>2, <2>1
<1>5. ASSUME NEW R \in SUBSET Reapable, Reap(R) PROVE NotDecided(b)
  BY <1>1, <1>2, <1>4, <1>5 DEF Reap, Reapable
<1>6. ASSUME NEW j \in Jobs, NEW R \in SUBSET Reapable, Claim(j, R) PROVE NotDecided(b)
  <2>1. CASE k = j
    <3>1. s.status = "running" /\ r.status # "succeeded"
      BY <1>1, <1>6, <2>1 DEF Claim, Claimable, Available, Claimed, Row
    <3> QED BY <1>2, <3>1
  <2>2. CASE k # j
    BY <1>1, <1>2, <1>4, <1>6, <2>2 DEF Claim, Reapable
  <2> QED BY <2>1, <2>2
<1>7. ASSUME NEW j \in Jobs, Submit(j) PROVE NotDecided(b)
  BY <1>1, <1>2, <1>7 DEF Submit, NoRow
<1>8. ASSUME NEW j \in Jobs, MarkDeleted(j) \/ LeaseExpires(j) PROVE NotDecided(b)
  <2>1. s.status = r.status /\ s.result = r.result
    BY <1>1, <1>8 DEF MarkDeleted, LeaseExpires, Row
  <2> QED BY <1>2, <2>1
<1>9. ASSUME NEW j \in Jobs, NEW t \in Tokens, NEW p \in 0..MaxProgress,
             Heartbeat(j, t, p) \/ Requeue(j, t, p)
      PROVE  NotDecided(b)
  <2>1. CASE k = j
    <3>1. r.status = "running" /\ (s = Renewed(r, p) \/ s = Requeued(r, p))
      BY <1>1, <1>9, <2>1 DEF Heartbeat, Requeue, Owns
    <3>2. s.status # "succeeded"
      BY <1>1, <3>1 DEF Renewed, Requeued, Row
    <3> QED BY <1>2, <3>1, <3>2
  <2>2. CASE k # j
    BY <1>1, <1>2, <1>9, <2>2 DEF Heartbeat, Requeue
  <2> QED BY <2>1, <2>2
<1> QED BY <1>3, <1>5, <1>6, <1>7, <1>8, <1>9

\* A completion or an acknowledgement decides the outcome of its own attempt only.
LEMMA DecidesOwn ==
  ASSUME IInv, NEW a \in Attempts, NEW b \in Attempts, b # a, NEW p \in 0..MaxProgress,
         Succeed(JobOf(a), TokenOf(a), p) \/ FinishCleanup(JobOf(a), TokenOf(a))
  PROVE  NotDecided(b)
<1>1. /\ JobOf(a) \in Jobs /\ JobOf(b) \in Jobs /\ TokenOf(a) # Null
      /\ JobOf(a) = JobOf(b) => TokenOf(a) # TokenOf(b)
      /\ rows \in [Jobs -> Row]
  BY DEF Attempts, JobOf, TokenOf, Tokens, Null, IInv, TypeOK, TableTypeOK
<1>2. RowOK(RowOf(a), issued[JobOf(a)])
  BY <1>1, TableByRow DEF IInv, RowOf
<1>3. CASE JobOf(a) # JobOf(b)
  BY <1>1, <1>3 DEF NotDecided, RowOf, Succeed, FinishCleanup
<1>4. CASE JobOf(a) = JobOf(b)
  <2>1. TokenOf(a) = issued[JobOf(a)]
    BY <1>1, <1>2 DEF Succeed, FinishCleanup, Owns, RowOK, RowOf
  <2> QED BY <1>1, <1>4, <2>1 DEF NotDecided, IsNewest
<1> QED BY <1>3, <1>4

-----------------------------------------------------------------------------
(* The invariant holds initially, and every action preserves it. *)

LEMMA IInvInit == Init => IInv
<1>. SUFFICES ASSUME Init PROVE IInv
  OBVIOUS
<1>1. TableInv
  BY InvInit DEF Init
<1>2. TypeOK
  BY <1>1 DEF Init, TypeOK, TableInv, SupPhases, OpPhases
<1>3. ASSUME NEW a \in Attempts PROVE AttemptOK(a)
  <2>1. JobOf(a) \in Jobs /\ RowOf(a) = NoRow
    BY DEF Attempts, JobOf, RowOf, Init, TableInit
  <2>2. RowOf(a).status # "succeeded" /\ sup[a] = "idle" /\ op[a] = "idle"
    BY <2>1 DEF NoRow, Init
  <2> QED BY <2>2 DEF Init, AttemptOK, Unborn, Drawing, Marked, Joined, Owning, Settled,
                 Readable, Removed, Forgotten, Discarded
<1> QED BY <1>1, <1>2, <1>3 DEF IInv

\* What every action may assume of its attempt.
LEMMA Facts ==
  ASSUME IInv, NEW a \in Attempts
  PROVE  /\ JobOf(a) \in Jobs /\ TokenOf(a) \in Tokens /\ TokenOf(a) \in Nat /\ TokenOf(a) # Null
         /\ issued[JobOf(a)] \in Nat /\ RowOK(RowOf(a), issued[JobOf(a)])
         /\ AttemptOK(a)
         /\ sup \in [Attempts -> SupPhases] /\ op \in [Attempts -> OpPhases]
         /\ markers \subseteq dirs
<1>1. JobOf(a) \in Jobs /\ TokenOf(a) \in Tokens
  BY DEF Attempts, JobOf, TokenOf
<1>2. RowOK(RowOf(a), issued[JobOf(a)])
  BY <1>1, TableByRow DEF IInv, RowOf
<1> QED BY <1>1, <1>2 DEF IInv, TypeOK, Tokens, Null, RowOK

\* Statements of clients, the clock and the worker that leave every attempt alone.
LEMMA RowsOnly ==
  ASSUME IInv, [TableNext]_tableVars, UNCHANGED <<sup, op, fileVars, sweepVars>>,
         \A b \in Attempts : NotDecided(b)
  PROVE  TypeOK' /\ \A b \in Attempts : AttemptOK(b)'
<1>1. TableInv'
  BY InvStep DEF IInv
<1>2. TypeOK'
  BY <1>1 DEF IInv, TypeOK, TableInv, fileVars, sweepVars
<1>3. \A b \in Attempts : Untouched(b)
  BY DEF Untouched, fileVars, sweepVars
<1> QED BY <1>2, <1>3, Bystander

\* DeleteJob and ListRemoval: a result of a deleted row is about to be removed.
LEMMA NewRemoval ==
  ASSUME IInv, [TableNext]_tableVars, NEW j \in Jobs,
         \A b \in Attempts : NotDecided(b),
         rows'[j].deleted, rows[j].result # Null,
         removals' = removals \cup {<<j, rows[j].result>>},
         UNCHANGED <<sup, op, fileVars, acks, seen, adopt, discard>>
  PROVE  TypeOK' /\ \A b \in Attempts : AttemptOK(b)'
<1>1. TableInv' /\ RowOK(rows[j], issued[j]) /\ RowShift(rows[j], issued[j], rows'[j], issued'[j])
  BY InvStep, TableByRow, RowShifts DEF IInv
<1>2. PICK a \in Attempts : a = <<j, rows[j].result>>
  BY <1>1 DEF RowOK, Row, Attempts
<1>0. removals' = removals \cup {a} /\ JobOf(a) = j /\ TokenOf(a) = rows[j].result
  BY <1>2 DEF JobOf, TokenOf
<1>3. rows[j].status = "succeeded" /\ TokenOf(a) = issued[j]
  BY <1>0, <1>1 DEF RowOK
<1>4. TypeOK'
  BY <1>0, <1>1, <1>2 DEF IInv, TypeOK, TableInv, fileVars
<1>5. AttemptOK(a)
  BY <1>2 DEF IInv
<1>6. AttemptOK(a)'
  <2>1. rows'[j].status = "succeeded" /\ issued'[j] = issued[j] /\ rows[j].token = Null /\ rows'[j].token = Null
    BY <1>1, <1>3 DEF RowShift, RowOK
  <2>2. rows'[j].result = rows[j].result
    BY <1>0, <1>3 DEF NotDecided, IsNewest, RowOf
  <2> QED BY <1>0, <1>1, <1>2, <1>3, <1>5, <2>1, <2>2
             DEF fileVars, AttemptOK, Unborn, Drawing, Marked, Joined,
        Owning, Settled, Readable, Removed, Forgotten, Discarded, IsNewest, RowOf, Doomed
<1>7. \A b \in Attempts : b # a => Untouched(b) /\ NotDecided(b)
  BY <1>0 DEF Untouched, fileVars
<1> QED BY <1>2, <1>4, <1>6, <1>7, OneAttempt

\* What a step that touches attempt a alone has to show.
StepOK(a) ==
  /\ TypeOK' /\ AttemptOK(a)'
  /\ \A b \in Attempts : b # a => Untouched(b) /\ NotDecided(b)


\* The supervisor's steps that leave the row alone.
LEMMA SupervisorSteps ==
  ASSUME IInv, TableInv', NEW a \in Attempts, UNCHANGED tableVars,
         JoinOk(a) \/ JoinErr(a) \/ JobTimeout(a) \/ FinishRejected(a) \/ KeepFigures(a)
  PROVE  StepOK(a)
<1>0. /\ AttemptOK(a) /\ TokenOf(a) # Null
      /\ sup \in [Attempts -> SupPhases] /\ op \in [Attempts -> OpPhases]
  BY Facts
<1>r. RowOK(RowOf(a), issued[JobOf(a)]) /\ TokenOf(a) \in Nat /\ issued[JobOf(a)] \in Nat
  BY Facts
<1>t. TypeOK /\ TableTypeOK'
  BY DEF IInv, TableInv
<1>l. rows' = rows /\ issued' = issued
  BY DEF tableVars
<1>u. \A b \in Attempts : NotDecided(b)
  BY Undecided
<1>. USE DEF AttemptOK, Unborn, Drawing, Marked, Joined, Owning, Settled, Readable, Removed,
        Forgotten, Discarded, Doomed, IsNewest, RowOf, Intact
<1>1. CASE JoinOk(a)
  <2>1. TypeOK'
    BY <1>0, <1>t, <1>1 DEF JoinOk, TypeOK, SupPhases, OpPhases, tableVars, fileVars, sweepVars
  <2>2. AttemptOK(a)'
    BY <1>0, <1>r, <1>1, <1>l DEF JoinOk, fileVars, sweepVars, SupPhases, OpPhases, tableVars
  <2>3. \A b \in Attempts : b # a => Untouched(b)
    BY <1>0, <1>1 DEF JoinOk, Untouched, fileVars, sweepVars
  <2> QED BY <2>1, <2>2, <2>3, <1>u DEF StepOK
<1>2. CASE JoinErr(a)
  <2>1. TypeOK'
    BY <1>0, <1>t, <1>2 DEF JoinErr, TypeOK, SupPhases, OpPhases, tableVars, fileVars, sweepVars
  <2>2. AttemptOK(a)'
    BY <1>0, <1>r, <1>2, <1>l DEF JoinErr, fileVars, sweepVars, SupPhases, OpPhases, tableVars
  <2>3. \A b \in Attempts : b # a => Untouched(b)
    BY <1>0, <1>2 DEF JoinErr, Untouched, fileVars, sweepVars
  <2> QED BY <2>1, <2>2, <2>3, <1>u DEF StepOK
<1>3. CASE JobTimeout(a)
  <2>1. TypeOK'
    BY <1>0, <1>t, <1>3
       DEF JobTimeout, TypeOK, SupPhases, OpPhases, tableVars, fileVars, sweepVars
  <2>2. AttemptOK(a)'
    BY <1>0, <1>r, <1>3, <1>l DEF JobTimeout, fileVars, sweepVars, SupPhases, OpPhases, tableVars
  <2>3. \A b \in Attempts : b # a => Untouched(b)
    BY <1>0, <1>3 DEF JobTimeout, Untouched, fileVars, sweepVars
  <2> QED BY <2>1, <2>2, <2>3, <1>u DEF StepOK
<1>4. CASE FinishRejected(a)
  <2>1. TypeOK'
    BY <1>0, <1>t, <1>4
       DEF FinishRejected, TypeOK, SupPhases, OpPhases, tableVars, fileVars, sweepVars
  <2>2. AttemptOK(a)'
    BY <1>0, <1>r, <1>4, <1>l
       DEF FinishRejected, fileVars, sweepVars, SupPhases, OpPhases, tableVars
  <2>3. \A b \in Attempts : b # a => Untouched(b)
    BY <1>0, <1>4 DEF FinishRejected, Untouched, fileVars, sweepVars
  <2> QED BY <2>1, <2>2, <2>3, <1>u DEF StepOK
<1>5. CASE KeepFigures(a)
  <2>1. TypeOK'
    BY <1>0, <1>t, <1>5
       DEF KeepFigures, TypeOK, SupPhases, OpPhases, tableVars, fileVars, sweepVars
  <2>2. AttemptOK(a)'
    BY <1>0, <1>r, <1>5, <1>l DEF KeepFigures, fileVars, sweepVars, SupPhases, OpPhases, tableVars
  <2>3. \A b \in Attempts : b # a => Untouched(b)
    BY <1>0, <1>5 DEF KeepFigures, Untouched, fileVars, sweepVars
  <2> QED BY <2>1, <2>2, <2>3, <1>u DEF StepOK
<1> QED BY <1>1, <1>2, <1>3, <1>4, <1>5

\* The parse, the drop of its directory and the crash of its process.
LEMMA ParseSteps ==
  ASSUME IInv, TableInv', NEW a \in Attempts, UNCHANGED tableVars,
         CreateFigureDir(a) \/ MarkFigureDir(a) \/ DiscardFigureDir(a) \/ BeginPublish(a) \/ Publish(a) \/
         ParseFails(a) \/ AbortParse(a) \/ DropFigures(a) \/ Crash(a)
  PROVE  StepOK(a)
<1>0. /\ AttemptOK(a) /\ TokenOf(a) # Null
      /\ sup \in [Attempts -> SupPhases] /\ op \in [Attempts -> OpPhases]
  BY Facts
<1>r. RowOK(RowOf(a), issued[JobOf(a)]) /\ TokenOf(a) \in Nat /\ issued[JobOf(a)] \in Nat
  BY Facts
<1>t. TypeOK /\ TableTypeOK'
  BY DEF IInv, TableInv
<1>l. rows' = rows /\ issued' = issued
  BY DEF tableVars
<1>u. \A b \in Attempts : NotDecided(b)
  BY Undecided
<1>. USE DEF AttemptOK, Unborn, Drawing, Marked, Joined, Owning, Settled, Readable, Removed,
        Forgotten, Discarded, Doomed, IsNewest, RowOf, Intact
<1>1. CASE CreateFigureDir(a)
  <2>1. TypeOK'
    BY <1>0, <1>t, <1>1
       DEF CreateFigureDir, TypeOK, SupPhases, OpPhases, tableVars, fileVars, sweepVars
  <2>2. AttemptOK(a)'
    BY <1>0, <1>r, <1>1, <1>l
       DEF CreateFigureDir, fileVars, sweepVars, SupPhases, OpPhases, tableVars
  <2>3. \A b \in Attempts : b # a => Untouched(b)
    BY <1>0, <1>1 DEF CreateFigureDir, Untouched, fileVars, sweepVars
  <2> QED BY <2>1, <2>2, <2>3, <1>u DEF StepOK
<1>2. CASE MarkFigureDir(a)
  <2>1. TypeOK'
    BY <1>0, <1>t, <1>2
       DEF MarkFigureDir, TypeOK, SupPhases, OpPhases, tableVars, fileVars, sweepVars
  <2>2. AttemptOK(a)'
    BY <1>0, <1>r, <1>2, <1>l
       DEF MarkFigureDir, fileVars, sweepVars, SupPhases, OpPhases, tableVars
  <2>3. \A b \in Attempts : b # a => Untouched(b)
    BY <1>0, <1>2 DEF MarkFigureDir, Untouched, fileVars, sweepVars
  <2> QED BY <2>1, <2>2, <2>3, <1>u DEF StepOK
<1>3. CASE DiscardFigureDir(a)
  <2>1. TypeOK'
    BY <1>0, <1>t, <1>3
       DEF DiscardFigureDir, TypeOK, SupPhases, OpPhases, tableVars, fileVars, sweepVars
  <2>2. AttemptOK(a)'
    BY <1>0, <1>r, <1>3, <1>l
       DEF DiscardFigureDir, fileVars, sweepVars, SupPhases, OpPhases, tableVars
  <2>3. \A b \in Attempts : b # a => Untouched(b)
    BY <1>0, <1>3 DEF DiscardFigureDir, Untouched, fileVars, sweepVars
  <2> QED BY <2>1, <2>2, <2>3, <1>u DEF StepOK
<1>4. CASE BeginPublish(a)
  <2>1. TypeOK'
    BY <1>0, <1>t, <1>4
       DEF BeginPublish, TypeOK, SupPhases, OpPhases, tableVars, fileVars, sweepVars
  <2>2. AttemptOK(a)'
    BY <1>0, <1>r, <1>4, <1>l
       DEF BeginPublish, fileVars, sweepVars, SupPhases, OpPhases, tableVars
  <2>3. \A b \in Attempts : b # a => Untouched(b)
    BY <1>0, <1>4 DEF BeginPublish, Untouched, fileVars, sweepVars
  <2> QED BY <2>1, <2>2, <2>3, <1>u DEF StepOK
<1>5. CASE Publish(a)
  <2>1. TypeOK'
    BY <1>0, <1>t, <1>5 DEF Publish, TypeOK, SupPhases, OpPhases, tableVars, fileVars, sweepVars
  <2>2. AttemptOK(a)'
    BY <1>0, <1>r, <1>5, <1>l DEF Publish, fileVars, sweepVars, SupPhases, OpPhases, tableVars
  <2>3. \A b \in Attempts : b # a => Untouched(b)
    BY <1>0, <1>5 DEF Publish, Untouched, fileVars, sweepVars
  <2> QED BY <2>1, <2>2, <2>3, <1>u DEF StepOK
<1>6. CASE ParseFails(a)
  <2>1. TypeOK'
    BY <1>0, <1>t, <1>6
       DEF ParseFails, TypeOK, SupPhases, OpPhases, tableVars, fileVars, sweepVars
  <2>2. AttemptOK(a)'
    BY <1>0, <1>r, <1>6, <1>l DEF ParseFails, fileVars, sweepVars, SupPhases, OpPhases, tableVars
  <2>3. \A b \in Attempts : b # a => Untouched(b)
    BY <1>0, <1>6 DEF ParseFails, Untouched, fileVars, sweepVars
  <2> QED BY <2>1, <2>2, <2>3, <1>u DEF StepOK
<1>7. CASE AbortParse(a)
  <2>1. TypeOK'
    BY <1>0, <1>t, <1>7
       DEF AbortParse, TypeOK, SupPhases, OpPhases, tableVars, fileVars, sweepVars
  <2>2. AttemptOK(a)'
    BY <1>0, <1>r, <1>7, <1>l DEF AbortParse, fileVars, sweepVars, SupPhases, OpPhases, tableVars
  <2>3. \A b \in Attempts : b # a => Untouched(b)
    BY <1>0, <1>7 DEF AbortParse, Untouched, fileVars, sweepVars
  <2> QED BY <2>1, <2>2, <2>3, <1>u DEF StepOK
<1>8. CASE DropFigures(a)
  <2>1. TypeOK'
    BY <1>0, <1>t, <1>8
       DEF DropFigures, TypeOK, SupPhases, OpPhases, tableVars, fileVars, sweepVars
  <2>2. AttemptOK(a)'
    BY <1>0, <1>r, <1>8, <1>l DEF DropFigures, fileVars, sweepVars, SupPhases, OpPhases, tableVars
  <2>3. \A b \in Attempts : b # a => Untouched(b)
    BY <1>0, <1>8 DEF DropFigures, Untouched, fileVars, sweepVars
  <2> QED BY <2>1, <2>2, <2>3, <1>u DEF StepOK
<1>9. CASE Crash(a)
  <2>1. TypeOK'
    BY <1>0, <1>t, <1>9 DEF Crash, TypeOK, SupPhases, OpPhases, tableVars, fileVars, sweepVars
  <2>2. AttemptOK(a)'
    BY <1>0, <1>r, <1>9, <1>l DEF Crash, fileVars, sweepVars, SupPhases, OpPhases, tableVars
  <2>3. \A b \in Attempts : b # a => Untouched(b)
    BY <1>0, <1>9 DEF Crash, Untouched, fileVars, sweepVars
  <2> QED BY <2>1, <2>2, <2>3, <1>u DEF StepOK
<1> QED BY <1>1, <1>2, <1>3, <1>4, <1>5, <1>6, <1>7, <1>8, <1>9

\* The sweeps' steps that leave the row alone.
LEMMA SweepSteps ==
  ASSUME IInv, TableInv', NEW a \in Attempts, UNCHANGED tableVars,
         RemoveFigures(a) \/ RemoveResult(a) \/ SeeMarker(a) \/ JudgeFigures(a) \/ AdoptFigures(a) \/
         DiscardFigures(a) \/ DropDecision(a)
  PROVE  StepOK(a)
<1>0. /\ AttemptOK(a) /\ TokenOf(a) # Null
      /\ sup \in [Attempts -> SupPhases] /\ op \in [Attempts -> OpPhases]
  BY Facts
<1>r. RowOK(RowOf(a), issued[JobOf(a)]) /\ TokenOf(a) \in Nat /\ issued[JobOf(a)] \in Nat
  BY Facts
<1>t. TypeOK /\ TableTypeOK'
  BY DEF IInv, TableInv
<1>l. rows' = rows /\ issued' = issued
  BY DEF tableVars
<1>u. \A b \in Attempts : NotDecided(b)
  BY Undecided
<1>. USE DEF AttemptOK, Unborn, Drawing, Marked, Joined, Owning, Settled, Readable, Removed,
        Forgotten, Discarded, Doomed, IsNewest, RowOf, Intact
<1>1. CASE RemoveFigures(a)
  <2>1. TypeOK'
    BY <1>0, <1>t, <1>1
       DEF RemoveFigures, TypeOK, SupPhases, OpPhases, tableVars, fileVars, sweepVars
  <2>2. AttemptOK(a)'
    BY <1>0, <1>r, <1>1, <1>l
       DEF RemoveFigures, fileVars, sweepVars, SupPhases, OpPhases, tableVars
  <2>3. \A b \in Attempts : b # a => Untouched(b)
    BY <1>0, <1>1 DEF RemoveFigures, Untouched, fileVars, sweepVars
  <2> QED BY <2>1, <2>2, <2>3, <1>u DEF StepOK
<1>2. CASE RemoveResult(a)
  <2>1. TypeOK'
    BY <1>0, <1>t, <1>2
       DEF RemoveResult, TypeOK, SupPhases, OpPhases, tableVars, fileVars, sweepVars
  <2>2. AttemptOK(a)'
    BY <1>0, <1>r, <1>2, <1>l
       DEF RemoveResult, fileVars, sweepVars, SupPhases, OpPhases, tableVars
  <2>3. \A b \in Attempts : b # a => Untouched(b)
    BY <1>0, <1>2 DEF RemoveResult, Untouched, fileVars, sweepVars
  <2> QED BY <2>1, <2>2, <2>3, <1>u DEF StepOK
<1>3. CASE SeeMarker(a)
  <2>1. TypeOK'
    BY <1>0, <1>t, <1>3 DEF SeeMarker, TypeOK, SupPhases, OpPhases, tableVars, fileVars, sweepVars
  <2>2. AttemptOK(a)'
    BY <1>0, <1>r, <1>3, <1>l DEF SeeMarker, fileVars, sweepVars, SupPhases, OpPhases, tableVars
  <2>3. \A b \in Attempts : b # a => Untouched(b)
    BY <1>0, <1>3 DEF SeeMarker, Untouched, fileVars, sweepVars
  <2> QED BY <2>1, <2>2, <2>3, <1>u DEF StepOK
<1>4. CASE JudgeFigures(a)
  <2>1. TypeOK'
    BY <1>0, <1>t, <1>4
       DEF JudgeFigures, TypeOK, SupPhases, OpPhases, tableVars, fileVars, sweepVars, Committed,
           StillRunning, RowOK, Terminal
  <2>2. AttemptOK(a)'
    BY <1>0, <1>r, <1>4, <1>l
       DEF JudgeFigures, fileVars, sweepVars, SupPhases, OpPhases, tableVars, Committed,
           StillRunning, RowOK, Terminal
  <2>3. \A b \in Attempts : b # a => Untouched(b)
    BY <1>0, <1>4
       DEF JudgeFigures, Untouched, fileVars, sweepVars, Committed, StillRunning, RowOK, Terminal
  <2> QED BY <2>1, <2>2, <2>3, <1>u DEF StepOK
<1>5. CASE AdoptFigures(a)
  <2>1. TypeOK'
    BY <1>0, <1>t, <1>5
       DEF AdoptFigures, TypeOK, SupPhases, OpPhases, tableVars, fileVars, sweepVars
  <2>2. AttemptOK(a)'
    BY <1>0, <1>r, <1>5, <1>l
       DEF AdoptFigures, fileVars, sweepVars, SupPhases, OpPhases, tableVars
  <2>3. \A b \in Attempts : b # a => Untouched(b)
    BY <1>0, <1>5 DEF AdoptFigures, Untouched, fileVars, sweepVars
  <2> QED BY <2>1, <2>2, <2>3, <1>u DEF StepOK
<1>6. CASE DiscardFigures(a)
  <2>1. TypeOK'
    BY <1>0, <1>t, <1>6 DEF DiscardFigures, TypeOK, tableVars, fileVars, sweepVars
  <2>0. RowOf(a).token # TokenOf(a) /\ (RowOf(a).status = "succeeded" /\ IsNewest(a) => RowOf(a).deleted)
    BY <1>0, <1>r, <1>6 DEF DiscardFigures, RowOK
  <2>2. AttemptOK(a)'
    BY <1>0, <1>6, <1>l, <2>0 DEF DiscardFigures, fileVars, sweepVars
  <2>3. \A b \in Attempts : b # a => Untouched(b)
    BY <1>0, <1>6 DEF DiscardFigures, Untouched, fileVars, sweepVars
  <2> QED BY <2>1, <2>2, <2>3, <1>u DEF StepOK
<1>7. CASE DropDecision(a)
  <2>1. TypeOK'
    BY <1>0, <1>t, <1>7
       DEF DropDecision, TypeOK, SupPhases, OpPhases, tableVars, fileVars, sweepVars
  <2>2. AttemptOK(a)'
    BY <1>0, <1>r, <1>7, <1>l
       DEF DropDecision, fileVars, sweepVars, SupPhases, OpPhases, tableVars
  <2>3. \A b \in Attempts : b # a => Untouched(b)
    BY <1>0, <1>7 DEF DropDecision, Untouched, fileVars, sweepVars
  <2> QED BY <2>1, <2>2, <2>3, <1>u DEF StepOK
<1> QED BY <1>1, <1>2, <1>3, <1>4, <1>5, <1>6, <1>7

\* The steps of an attempt that move its row: its end, and the acknowledgement of its
\* removal.
LEMMA OwnRowSteps ==
  ASSUME IInv, [TableNext]_tableVars, NEW a \in Attempts, NEW p \in 0..MaxProgress,
         Abandon(a) \/ FinishOk(a, p) \/ FinishErr(a, p) \/ AckRemoval(a)
  PROVE  StepOK(a)
<1>. DEFINE j == JobOf(a)  t == TokenOf(a)  r == rows[j]  s == rows'[j]
<1>0. /\ AttemptOK(a) /\ t # Null /\ t \in Nat /\ t \in Tokens /\ j \in Jobs /\ issued[j] \in Nat
      /\ sup \in [Attempts -> SupPhases] /\ op \in [Attempts -> OpPhases]
  BY Facts
<1>r. RowOK(r, issued[j]) /\ r \in Row /\ rows \in [Jobs -> Row]
  BY Facts DEF RowOf, RowOK, IInv, TypeOK, TableTypeOK
<1>t. TypeOK /\ TableTypeOK'
  BY InvStep DEF IInv, TableInv
<1>. USE DEF AttemptOK, Unborn, Drawing, Marked, Joined, Owning, Settled, Readable, Removed,
        Forgotten, Discarded, Doomed, IsNewest, RowOf, Intact
<1>1. CASE Abandon(a)
  <2>1. /\ \A b \in Attempts : NotDecided(b)
        /\ s.token = r.token /\ s.status = r.status /\ s.result = r.result
        /\ s.deleted = r.deleted /\ issued' = issued
    <3>1. CASE UNCHANGED tableVars
      BY <3>1, Undecided DEF tableVars
    <3>2. CASE Heartbeat(j, t, Null)
      <4>1. Null \in 0..MaxProgress
        BY ParseJobsAssumption DEF Null
      <4>2. \A b \in Attempts : NotDecided(b)
        BY <1>0, <3>2, <4>1, Undecided
      <4>3. s = Renewed(r, Null) /\ issued' = issued
        BY <1>0, <1>r, <3>2 DEF Heartbeat
      <4> QED BY <1>r, <4>2, <4>3 DEF Renewed, Row
    <3> QED BY <1>1, <3>1, <3>2 DEF Abandon
  <2>2. TypeOK'
    BY <1>0, <1>t, <1>1 DEF Abandon, TypeOK, SupPhases, fileVars, sweepVars
  <2>3. AttemptOK(a)'
    BY <1>0, <1>1, <2>1 DEF Abandon, fileVars, sweepVars
  <2>4. \A b \in Attempts : b # a => Untouched(b)
    BY <1>0, <1>1 DEF Abandon, Untouched, fileVars, sweepVars
  <2> QED BY <2>1, <2>2, <2>3, <2>4 DEF StepOK
<1>2. CASE FinishOk(a, p)
  <2>1. OwnedOK(r, issued[j], t)
    BY <1>r, <1>2, OwnedRow DEF FinishOk, Succeed
  <2>2. s = Succeeded(r, t, p) /\ issued' = issued
    BY <1>0, <1>r, <1>2 DEF FinishOk, Succeed
  <2>3. s.token = Null /\ s.status = "succeeded" /\ s.result = t /\ s.deleted = FALSE
    BY <1>r, <2>1, <2>2 DEF Succeeded, Row, OwnedOK
  <2>4. TypeOK'
    BY <1>0, <1>t, <1>2 DEF FinishOk, TypeOK, SupPhases, fileVars, sweepVars
  <2>5. AttemptOK(a)'
    BY <1>0, <1>2, <2>1, <2>2, <2>3 DEF FinishOk, OwnedOK, fileVars, sweepVars
  <2>6. \A b \in Attempts : b # a => Untouched(b) /\ NotDecided(b)
    BY <1>0, <1>2, DecidesOwn DEF FinishOk, Untouched, fileVars, sweepVars
  <2> QED BY <2>4, <2>5, <2>6 DEF StepOK
<1>3. CASE FinishErr(a, p)
  <2>1. OwnedOK(r, issued[j], t)
    BY <1>r, <1>3, OwnedRow DEF FinishErr, Requeue
  <2>2. s = Requeued(r, p) /\ issued' = issued
    BY <1>0, <1>r, <1>3 DEF FinishErr, Requeue
  <2>3. s.token = Null /\ s.status = "queued"
    BY <1>r, <2>1, <2>2 DEF Requeued, Row
  <2>4. TypeOK'
    BY <1>0, <1>t, <1>3 DEF FinishErr, TypeOK, SupPhases, fileVars, sweepVars
  <2>5. AttemptOK(a)'
    BY <1>0, <1>3, <2>1, <2>2, <2>3 DEF FinishErr, OwnedOK, fileVars, sweepVars
  <2>6. \A b \in Attempts : b # a => Untouched(b)
    BY <1>0, <1>3 DEF FinishErr, Untouched, fileVars, sweepVars
  <2>7. \A b \in Attempts : NotDecided(b)
    BY <1>0, <1>3, Undecided DEF FinishErr
  <2> QED BY <2>4, <2>5, <2>6, <2>7 DEF StepOK
<1>4. CASE AckRemoval(a)
  <2>1. TypeOK'
    BY <1>0, <1>t, <1>4 DEF AckRemoval, TypeOK, fileVars
  <2>2. \A b \in Attempts : b # a => Untouched(b)
    BY <1>0, <1>4 DEF AckRemoval, Untouched, fileVars
  <2>3. CASE FinishCleanup(j, t)
    <3>1. s = [r EXCEPT !.result = Null] /\ issued' = issued
      BY <1>0, <1>r, <2>3 DEF FinishCleanup
    <3>2. s.token = r.token /\ s.status = r.status /\ s.deleted = r.deleted
      BY <1>r, <3>1 DEF Row
    <3>3. AttemptOK(a)'
      BY <1>0, <1>r, <1>4, <2>3, <3>1, <3>2 DEF AckRemoval, FinishCleanup, fileVars, RowOK
    <3>4. \A b \in Attempts : b # a => NotDecided(b)
      BY <2>3, DecidesOwn
    <3> QED BY <2>1, <2>2, <3>3, <3>4 DEF StepOK
  <2>4. CASE UNCHANGED tableVars
    <3>1. AttemptOK(a)'
      BY <1>0, <1>4, <2>4 DEF AckRemoval, fileVars, tableVars
    <3>2. \A b \in Attempts : NotDecided(b)
      BY <2>4, Undecided
    <3> QED BY <2>1, <2>2, <3>1, <3>2 DEF StepOK
  <2> QED BY <1>4, <2>3, <2>4 DEF AckRemoval
<1> QED BY <1>1, <1>2, <1>3, <1>4

\* A claim starts the attempt of the token it issues.
LEMMA StartStep ==
  ASSUME IInv, [TableNext]_tableVars, NEW j \in Jobs, NEW R \in SUBSET Reapable, StartAttempt(j, R)
  PROVE  TypeOK' /\ \A b \in Attempts : AttemptOK(b)'
<1>1. /\ RowOK(rows[j], issued[j]) /\ issued[j] \in Nat /\ issued[j] + 1 \in Tokens
      /\ issued \in [Jobs -> 0..MaxAttempts]
  BY TableByRow, ParseJobsAssumption
     DEF IInv, RowOK, StartAttempt, Claim, Claimable, Tokens, TypeOK, TableTypeOK
<1>2. PICK a \in Attempts : a = <<j, issued[j] + 1>>
  BY <1>1 DEF Attempts
<1>3. /\ JobOf(a) = j /\ TokenOf(a) = issued[j] + 1
      /\ sup' = [sup EXCEPT ![a] = "watching"] /\ op' = [op EXCEPT ![a] = "parsing"]
      /\ UNCHANGED <<fileVars, sweepVars>>
  BY <1>2 DEF StartAttempt, JobOf, TokenOf
<1>4. /\ AttemptOK(a)
      /\ sup \in [Attempts -> SupPhases] /\ op \in [Attempts -> OpPhases]
  BY Facts
<1>5. TableInv' /\ TypeOK'
  <2>1. TableInv'
    BY InvStep DEF IInv
  <2> QED BY <1>3, <1>4, <2>1 DEF IInv, TypeOK, TableInv, SupPhases, OpPhases, fileVars, sweepVars
<1>6. \A b \in Attempts : b # a => Untouched(b)
  BY <1>3, <1>4 DEF Untouched, fileVars, sweepVars
<1>7. \A b \in Attempts : NotDecided(b)
  BY Undecided DEF StartAttempt
<1>8. rows'[j].status = "running" /\ issued'[j] = issued[j] + 1
  <2>1. rows'[j] = Claimed(rows[j], issued[j] + 1) /\ rows[j] \in Row
    BY <1>1 DEF StartAttempt, Claim, RowOK
  <2> QED BY <1>1, <2>1 DEF StartAttempt, Claim, Claimed, Row
<1>9. AttemptOK(a)'
  BY <1>1, <1>3, <1>4, <1>8 DEF fileVars, sweepVars, AttemptOK, Unborn, Drawing, Marked, Joined,
     Owning, Settled, Readable, Removed, Forgotten, Discarded, IsNewest, RowOf
<1> QED BY <1>5, <1>6, <1>7, <1>9, OneAttempt

LEMMA IInvStep == IInv /\ [Next]_vars => IInv'
<1>. SUFFICES ASSUME IInv, [Next]_vars PROVE IInv'
  OBVIOUS
<1>0. [TableNext]_tableVars /\ TableInv'
  BY TableStep, InvStep DEF IInv
<1>. DEFINE Goal == TypeOK' /\ \A b \in Attempts : AttemptOK(b)'
<1>1. ASSUME NEW a \in Attempts, StepOK(a) PROVE Goal
  BY <1>0, <1>1, OneAttempt DEF StepOK
<1>2. ASSUME UNCHANGED <<sup, op, fileVars, sweepVars>>, \A b \in Attempts : NotDecided(b) PROVE Goal
  BY <1>0, <1>2, RowsOnly
<1>. HIDE DEF Goal
<1>3. CASE UNCHANGED vars
  <2>1. UNCHANGED tableVars
    BY <1>3 DEF vars, tableVars
  <2>2. UNCHANGED <<sup, op, fileVars, sweepVars>>
    BY <1>3 DEF vars
  <2>3. \A b \in Attempts : NotDecided(b)
    BY <2>1, Undecided
  <2> QED BY <1>0, <1>2, <2>2, <2>3 DEF Goal, IInv
<1>4. ASSUME NEW R \in SUBSET Reapable, ReapJobs(R) PROVE Goal
  BY <1>2, <1>4, Undecided DEF ReapJobs
<1>5. ASSUME NEW j \in Jobs, SubmitJob(j) \/ Expire(j) PROVE Goal
  BY <1>2, <1>5, Undecided DEF SubmitJob, Expire
<1>6. ASSUME NEW j \in Jobs, NEW R \in SUBSET Reapable, LoseClaim(j, R) PROVE Goal
  BY <1>2, <1>6, Undecided DEF LoseClaim
<1>7. ASSUME NEW j \in Jobs, NEW R \in SUBSET Reapable, StartAttempt(j, R) PROVE Goal
  BY <1>0, <1>7, StartStep DEF Goal
<1>8. ASSUME NEW j \in Jobs, DeleteJob(j) PROVE Goal
  <2>1. \A b \in Attempts : NotDecided(b)
    BY <1>8, Undecided DEF DeleteJob
  <2>2. CASE rows[j].result = Null
    BY <1>2, <1>8, <2>1, <2>2 DEF DeleteJob, sweepVars
  <2>3. CASE rows[j].result # Null
    <3>1. rows'[j].deleted
      <4>1. rows \in [Jobs -> Row] /\ rows' = [rows EXCEPT ![j] = [rows[j] EXCEPT !.deleted = TRUE]]
        BY <1>8 DEF DeleteJob, MarkDeleted, IInv, TypeOK, TableTypeOK
      <4> QED BY <4>1 DEF Row
    <3> QED BY <1>0, <1>8, <2>1, <2>3, <3>1, NewRemoval DEF DeleteJob, Goal
  <2> QED BY <2>2, <2>3
<1>9. ASSUME NEW j \in Jobs, ListRemoval(j) PROVE Goal
  <2>1. (\A b \in Attempts : NotDecided(b)) /\ rows' = rows
    BY <1>9, Undecided DEF ListRemoval, tableVars
  <2> QED BY <1>0, <1>9, <2>1, NewRemoval DEF ListRemoval, Goal
<1>10. ASSUME NEW a \in Attempts, NEW p \in 0..MaxProgress, Renew(a, p) PROVE Goal
  <2>1. JobOf(a) \in Jobs /\ TokenOf(a) \in Tokens
    BY Facts
  <2> QED BY <1>2, <1>10, <2>1, Undecided DEF Renew
<1>11. ASSUME NEW a \in Attempts, Supervise(a) PROVE Goal
  <2>1. CASE Abandon(a) \/ \E p \in 0..MaxProgress : FinishOk(a, p) \/ FinishErr(a, p)
    <3>1. 0 \in 0..MaxProgress
      BY ParseJobsAssumption
    <3> QED BY <1>0, <1>1, <2>1, <3>1, OwnRowSteps
  <2>2. CASE JoinOk(a) \/ JoinErr(a) \/ JobTimeout(a) \/ FinishRejected(a) \/ KeepFigures(a)
    <3>1. UNCHANGED tableVars
      BY <2>2 DEF JoinOk, JoinErr, JobTimeout, FinishRejected, KeepFigures
    <3> QED BY <1>0, <1>1, <2>2, <3>1, SupervisorSteps
  <2> QED BY <1>11, <2>1, <2>2 DEF Supervise
<1>12. ASSUME NEW a \in Attempts, Parse(a) \/ Crash(a) PROVE Goal
  <2>1. UNCHANGED tableVars
    BY <1>12 DEF Parse, CreateFigureDir, MarkFigureDir, DiscardFigureDir, BeginPublish, Publish,
       ParseFails, AbortParse, DropFigures, Crash
  <2> QED BY <1>0, <1>1, <1>12, <2>1, ParseSteps DEF Parse
<1>13. ASSUME NEW a \in Attempts, AckRemoval(a) PROVE Goal
  <2>1. 0 \in 0..MaxProgress
    BY ParseJobsAssumption
  <2> QED BY <1>0, <1>1, <1>13, <2>1, OwnRowSteps
<1>14. ASSUME NEW a \in Attempts, (Sweep(a) /\ ~AckRemoval(a)) \/ DropDecision(a) PROVE Goal
  <2>1. UNCHANGED tableVars
    BY <1>14 DEF Sweep, RemoveFigures, RemoveResult, SeeMarker, JudgeFigures, AdoptFigures,
       DiscardFigures, DropDecision
  <2> QED BY <1>0, <1>1, <1>14, <2>1, SweepSteps DEF Sweep
<1> QED BY <1>0, <1>3, <1>4, <1>5, <1>6, <1>7, <1>8, <1>9, <1>10, <1>11, <1>12, <1>13, <1>14
       DEF Next, Goal, IInv

\* The inductive invariant holds in every state.
THEOREM AttemptsInvariant == Spec => []IInv
<1>1. Init => IInv
  BY IInvInit
<1>2. IInv /\ [Next]_vars => IInv'
  BY IInvStep
<1> QED BY <1>1, <1>2, PTL DEF Spec

-----------------------------------------------------------------------------
(* What clients are promised. *)

\* The newest attempt of a succeeded row is one that can be named.
LEMMA NewestAttempt ==
  ASSUME IInv, NEW j \in Jobs, rows[j].status = "succeeded", ~rows[j].deleted
  PROVE  /\ rows[j].result = issued[j] /\ <<j, issued[j]>> \in Attempts
         /\ JobOf(<<j, issued[j]>>) = j /\ TokenOf(<<j, issued[j]>>) = issued[j]
<1>1. RowOK(rows[j], issued[j])
  BY TableByRow DEF IInv
<1>2. rows[j].result # Null /\ rows[j].result \in Tokens \cup {Null} /\ rows[j].result = issued[j]
  BY <1>1 DEF RowOK, Row
<1> QED BY <1>2 DEF Attempts, JobOf, TokenOf

LEMMA SucceededIsIntact == IInv => CommittedIsReadable
<1>. SUFFICES ASSUME IInv, NEW j \in Jobs, rows[j].status = "succeeded", ~rows[j].deleted
              PROVE  Intact(<<j, rows[j].result>>)
  BY DEF CommittedIsReadable
<1>. DEFINE a == <<j, issued[j]>>
<1>1. a \in Attempts /\ JobOf(a) = j /\ TokenOf(a) = issued[j] /\ rows[j].result = issued[j]
  BY NewestAttempt
<1>2. Readable(a)
  BY <1>1 DEF IInv, AttemptOK
<1> QED BY <1>1, <1>2 DEF Readable, IsNewest, RowOf

\* Whenever a client sees a succeeded job, the result and its images can be read,
\* whatever was published late, swept, dropped or crashed meanwhile.
THEOREM CommittedCanBeRead == Spec => []CommittedIsReadable
  BY SucceededIsIntact, AttemptsInvariant, PTL

\* What a deleted row has forgotten is gone from storage, and stays gone.
THEOREM ForgottenStaysGone == Spec => []ForgottenIsGone
<1>1. IInv => ForgottenIsGone
  <2>. SUFFICES ASSUME IInv, NEW j \in Jobs, rows[j].status = "succeeded", rows[j].result = Null
                PROVE  <<j, issued[j]>> \notin results \cup dirs
    BY DEF ForgottenIsGone, IInv
  <2>. DEFINE a == <<j, issued[j]>>
  <2>1. CASE a \notin Attempts
    BY <2>1 DEF IInv, TypeOK
  <2>2. CASE a \in Attempts
    <3>1. Forgotten(a) /\ JobOf(a) = j /\ TokenOf(a) = issued[j]
      BY <2>2 DEF IInv, AttemptOK, JobOf, TokenOf
    <3> QED BY <3>1 DEF Forgotten, IsNewest, RowOf
  <2> QED BY <2>1, <2>2
<1> QED BY <1>1, AttemptsInvariant, PTL

\* A directory that was written to disappears only when its attempt can never be
\* served, or by the hand of its own worker after it gave up.
THEOREM FiguresOutlive == Spec => FiguresOutliveTheirAttempt
<1>1. ASSUME IInv, [Next]_vars, NEW a \in drawn, a \in dirs, a \notin dirs'
      PROVE  Doomed(a) \/ (sup[a] = "ended" /\ ~Committed(a))
  <2>1. a \in Attempts
    BY <1>1 DEF IInv, TypeOK
  <2>2. AttemptOK(a) /\ RowOK(RowOf(a), issued[JobOf(a)]) /\ TokenOf(a) # Null
        /\ TokenOf(a) \in Nat /\ issued[JobOf(a)] \in Nat
    BY <1>1, <2>1, Facts
  <2>3. DiscardFigureDir(a) \/ DropFigures(a) \/ RemoveFigures(a) \/ DiscardFigures(a)
    <3>1. ~UNCHANGED <<fileVars, sweepVars>> /\ ~UNCHANGED vars /\ dirs' # dirs
      BY <1>1 DEF vars, fileVars
    <3>2. PICK b \in Attempts : Supervise(b) \/ Parse(b) \/ Crash(b) \/ Sweep(b) \/ DropDecision(b)
      BY <1>1, <3>1 DEF Next, ReapJobs, SubmitJob, Expire, DeleteJob, ListRemoval, StartAttempt,
         LoseClaim, Renew, fileVars
    <3>3. ~Supervise(b)
      BY <3>1 DEF Supervise, Abandon, JoinOk, JoinErr, JobTimeout, FinishRejected, KeepFigures,
         FinishOk, FinishErr, fileVars
    <3>4. ~Crash(b) /\ ~DropDecision(b)
      BY <3>1 DEF Crash, DropDecision
    <3>5. CASE Parse(b)
      BY <1>1, <3>1, <3>5 DEF Parse, CreateFigureDir, MarkFigureDir, DiscardFigureDir,
         BeginPublish, Publish, ParseFails, AbortParse, DropFigures, fileVars
    <3>6. CASE Sweep(b)
      BY <1>1, <3>1, <3>6 DEF Sweep, RemoveFigures, RemoveResult, AckRemoval, SeeMarker,
         JudgeFigures, AdoptFigures, DiscardFigures, fileVars
    <3> QED BY <3>2, <3>3, <3>4, <3>5, <3>6
  <2>4. CASE DiscardFigureDir(a)
    BY <1>1, <2>2, <2>4 DEF DiscardFigureDir, AttemptOK, Drawing
  <2>5. CASE DropFigures(a)
    BY <2>2, <2>5 DEF DropFigures, Committed, AttemptOK, Settled, IsNewest, RowOK
  <2>6. CASE RemoveFigures(a)
    BY <2>2, <2>6 DEF RemoveFigures, AttemptOK, Removed, IsNewest, Doomed, RowOK
  <2>7. CASE DiscardFigures(a)
    BY <2>2, <2>7 DEF DiscardFigures, AttemptOK, Discarded
  <2> QED BY <2>3, <2>4, <2>5, <2>6, <2>7
<1>2. IInv /\ [Next]_vars => [\A a \in drawn : a \in dirs /\ a \notin dirs' =>
        Doomed(a) \/ (sup[a] = "ended" /\ ~Committed(a))]_vars
  BY <1>1
<1> QED BY <1>2, AttemptsInvariant, PTL DEF Spec, FiguresOutliveTheirAttempt

-----------------------------------------------------------------------------
(* The refinement: what the system does to a row is a move of the contract. *)

\* What the status endpoint answers for a row.
View(r) == IF r.deleted THEN "deleted" ELSE r.status

\* A move of the contract by the view and the attempts alone.
Promised(r, s) ==
  \/ View(s) = View(r) /\ s.attempts = r.attempts
  \/ View(r) = "absent" /\ View(s) = "queued" /\ s.attempts = 0
  \/ /\ View(r) \in {"queued", "running"} /\ View(s) = "running"
     /\ r.attempts < MaxAttempts /\ s.attempts = r.attempts + 1
  \/ /\ s.attempts = r.attempts
     /\ \/ View(r) = "running" /\ View(s) \in {"queued", "succeeded"}
        \/ /\ View(r) \in {"queued", "running"} /\ View(s) = "failed"
           /\ r.attempts = MaxAttempts
        \/ View(r) \in {"succeeded", "failed"} /\ View(s) = "deleted"

\* Every move of a row is a promised one.
LEMMA RowPromise ==
  ASSUME NEW r, NEW n, NEW s, NEW m, RowOK(r, n), RowMove(r, n, s, m)
  PROVE  Promised(r, s)
<1>1. r \in Row /\ r.attempts \in 0..MaxAttempts
  BY DEF RowOK, Row
<1>2. r.status \in {"absent", "queued", "running"} => ~r.deleted
  BY DEF RowOK, Terminal
<1>3. CASE s = r
  BY <1>3 DEF Promised
<1>4. CASE r.status = "absent" /\ s = [NoRow EXCEPT !.status = "queued", !.version = 1]
  <2>1. s.status = "queued" /\ s.deleted = FALSE /\ s.attempts = 0
    BY <1>4 DEF NoRow
  <2> QED BY <1>2, <1>4, <2>1 DEF Promised, View
<1>5. CASE Available(r) /\ r.attempts < MaxAttempts /\ s = Claimed(r, n + 1)
  <2>1. s.status = "running" /\ s.deleted = r.deleted /\ s.attempts = r.attempts + 1
    BY <1>1, <1>5 DEF Claimed, Row
  <2> QED BY <1>2, <1>5, <2>1 DEF Promised, View, Available
<1>6. CASE Available(r) /\ r.attempts >= MaxAttempts /\ s = Reaped(r)
  <2>1. s.status = "failed" /\ s.deleted = r.deleted /\ s.attempts = r.attempts
    BY <1>1, <1>6 DEF Reaped, Row
  <2>2. r.attempts = MaxAttempts
    BY <1>1, <1>6, ParseJobsAssumption
  <2> QED BY <1>2, <1>6, <2>1, <2>2 DEF Promised, View, Available
<1>7. ASSUME NEW t \in Tokens, NEW p \in 0..MaxProgress, OwnerMove(r, s, t, p)
      PROVE  Promised(r, s)
  <2>1. r.status = "running"
    BY <1>7 DEF OwnerMove, Owns
  <2>2. /\ s.status \in {"running", "succeeded", "queued"}
        /\ s.deleted = r.deleted /\ s.attempts = r.attempts
    BY <1>1, <1>7, <2>1 DEF OwnerMove, Renewed, Succeeded, Requeued, Row
  <2> QED BY <1>2, <2>1, <2>2 DEF Promised, View
<1>8. CASE Terminal(r) /\ s = [r EXCEPT !.deleted = TRUE]
  <2>1. s.deleted = TRUE /\ s.attempts = r.attempts
    BY <1>1, <1>8 DEF Row
  <2> QED BY <1>8, <2>1 DEF Promised, View, Terminal
<1>9. CASE s = [r EXCEPT !.result = Null] \/ s = [r EXCEPT !.lease = "expired"]
  <2>1. s.status = r.status /\ s.deleted = r.deleted /\ s.attempts = r.attempts
    BY <1>1, <1>9 DEF Row
  <2> QED BY <2>1 DEF Promised, View
<1> QED BY <1>3, <1>4, <1>5, <1>6, <1>7, <1>8, <1>9 DEF RowMove

\* A job can be read exactly when it is seen to have succeeded.
Served(j) ==
  (rows[j].status = "succeeded" /\ ~rows[j].deleted /\ Intact(<<j, rows[j].result>>))
    <=> View(rows[j]) = "succeeded"

LEMMA AllServed == IInv => \A j \in Jobs : Served(j)
<1>. SUFFICES ASSUME IInv, NEW j \in Jobs PROVE Served(j)
  OBVIOUS
<1>1. rows[j].status = "succeeded" /\ ~rows[j].deleted => Intact(<<j, rows[j].result>>)
  BY SucceededIsIntact DEF CommittedIsReadable
<1> QED BY <1>1 DEF Served, View

\* Workers, storage and sweeps together implement the contract with the submitter.
THEOREM ContractIsKept == Spec => ImplementsContract
<1>0. IInv' => (\A j \in Jobs : Served(j))'
  BY AllServed, PTL
<1>1. Init => Contract!Init
  BY DEF Init, TableInit, Contract!Init, NoRow
<1>2. ASSUME IInv, IInv', [Next]_vars PROVE Contract!Next
  <2>. SUFFICES ASSUME NEW j \in Jobs PROVE Contract!Move(j) \/ Contract!Same(j)
    BY DEF Contract!Next
  <2>. DEFINE r == rows[j]  s == rows'[j]
  <2>1. [TableNext]_tableVars
    BY <1>2, TableStep DEF IInv
  <2>2. RowOK(r, issued[j]) /\ RowMove(r, issued[j], s, issued'[j])
    BY <1>2, <2>1, TableByRow, StepByRow DEF IInv
  <2>3. Promised(r, s)
    BY <2>2, RowPromise
  <2>4. Served(j) /\ Served(j)'
    BY <1>0, <1>2, AllServed
  <2> QED BY <2>3, <2>4
             DEF Served, View, Promised, Contract!Move, Contract!Accept, Contract!Begin,
           Contract!Retry, Contract!Succeed, Contract!GiveUp, Contract!Delete, Contract!Same
<1>3. IInv /\ IInv' /\ [Next]_vars => [Contract!Next]_Contract!vars
  BY <1>2
<1> QED BY <1>1, <1>3, AttemptsInvariant, PTL DEF Spec, ImplementsContract, Contract!Spec
=============================================================================
