----------------------------- MODULE JobContract -----------------------------
(***************************************************************************)
(* What the server promises the submitter of a job: it is queued, runs at  *)
(* most MaxAttempts times, and ends either succeeded, with a result that   *)
(* stays readable until the client deletes it, or failed.  There are no    *)
(* leases, workers, files or sweeps here.                                  *)
(***************************************************************************)
EXTENDS Integers

CONSTANTS Jobs, MaxAttempts

VARIABLES
  view,     \* view[j]: what the status endpoint answers for j
  tries,    \* tries[j]: the attempts it reports
  readable  \* readable[j]: the result endpoint serves the whole document

vars == <<view, tries, readable>>

Init ==
  /\ view = [j \in Jobs |-> "absent"]
  /\ tries = [j \in Jobs |-> 0]
  /\ readable = [j \in Jobs |-> FALSE]

\* The moves of one job: from, to, attempts used, and whether it can be read.
Accept(j) ==
  /\ view[j] = "absent" /\ view'[j] = "queued"
  /\ tries'[j] = 0 /\ ~readable'[j]

Begin(j) ==
  /\ view[j] \in {"queued", "running"} /\ view'[j] = "running"
  /\ tries[j] < MaxAttempts /\ tries'[j] = tries[j] + 1 /\ ~readable'[j]

Retry(j) ==
  /\ view[j] = "running" /\ view'[j] = "queued"
  /\ tries'[j] = tries[j] /\ ~readable'[j]

Succeed(j) ==
  /\ view[j] = "running" /\ view'[j] = "succeeded"
  /\ tries'[j] = tries[j] /\ readable'[j]

GiveUp(j) ==
  /\ view[j] \in {"queued", "running"} /\ view'[j] = "failed"
  /\ tries[j] = MaxAttempts /\ tries'[j] = tries[j] /\ ~readable'[j]

Delete(j) ==
  /\ view[j] \in {"succeeded", "failed"} /\ view'[j] = "deleted"
  /\ tries'[j] = tries[j] /\ ~readable'[j]

Same(j) == view'[j] = view[j] /\ tries'[j] = tries[j] /\ readable'[j] = readable[j]

Move(j) ==
  Accept(j) \/ Begin(j) \/ Retry(j) \/ Succeed(j) \/ GiveUp(j) \/ Delete(j)

\* One transaction may move several jobs: a claim also fails exhausted ones.
Next == \A j \in Jobs : Move(j) \/ Same(j)

Spec == Init /\ [][Next]_vars
=============================================================================
