----------------------------- MODULE ModelCalls -----------------------------
(***************************************************************************)
(* What a model's shared queue promises its callers: a call whose caller   *)
(* is still there is answered once, unless the queue stops; no more than   *)
(* Capacity calls are admitted and not yet taken; a stopped queue starts   *)
(* nothing and keeps nobody.                                               *)
(***************************************************************************)
EXTENDS Naturals, FiniteSets

CONSTANTS Requests, Capacity, BatchLimit

VARIABLES
  call,  \* call[r]: new, pending, admitted, running, or how it ended
  gone,  \* calls whose caller has left
  open   \* the queue takes calls

vars == <<call, gone, open>>

Ended == {"answered", "skipped", "refused", "lost", "dropped"}
In(where) == {r \in Requests : call[r] = where}
Put(S, where) == [r \in Requests |-> IF r \in S THEN where ELSE call[r]]

Init == call = [r \in Requests |-> "new"] /\ gone = {} /\ open = TRUE

Leave(r) == gone' = gone \cup {r} /\ UNCHANGED <<call, open>>

Ask(r) ==
  /\ open /\ r \in In("new")
  /\ call' = Put({r}, "pending") /\ UNCHANGED <<gone, open>>

Admit(r) ==
  /\ open /\ r \in In("pending") /\ Cardinality(In("admitted")) < Capacity
  /\ call' = Put({r}, "admitted") /\ UNCHANGED <<gone, open>>

\* Only a call whose caller left may be passed over.
Skip(r) ==
  /\ r \in In("new") \cup In("pending") /\ r \in gone
  /\ call' = Put({r}, "skipped") /\ UNCHANGED <<gone, open>>

\* The caller drops the call itself before it is admitted.
Drop(r) ==
  /\ r \in In("pending")
  /\ call' = Put({r}, "dropped") /\ gone' = gone \cup {r} /\ UNCHANGED open

Refuse(r) ==
  /\ ~open /\ r \in In("new") \cup In("pending")
  /\ call' = Put({r}, "refused") /\ UNCHANGED <<gone, open>>

\* One session takes a batch of present callers and passes over absent ones.
Take ==
  /\ open
  /\ \E S \in SUBSET In("admitted") : \E T \in SUBSET (In("admitted") \ S) :
       /\ Cardinality(S) <= BatchLimit /\ T \subseteq gone
       /\ call' = [r \in Requests |-> IF r \in S THEN "running"
                                      ELSE IF r \in T THEN "skipped" ELSE call[r]]
  /\ UNCHANGED <<gone, open>>

Answer(r) ==
  /\ r \in In("running")
  /\ call' = Put({r}, "answered") /\ UNCHANGED <<gone, open>>

\* The queue stops: what was admitted is lost, with the batch of a session that died.
Stop ==
  /\ open' = FALSE
  /\ \E S \in SUBSET In("running") : call' = Put(S \cup In("admitted"), "lost")
  /\ UNCHANGED gone

Next ==
  \/ Take \/ Stop
  \/ \E r \in Requests :
       Leave(r) \/ Ask(r) \/ Admit(r) \/ Skip(r) \/ Drop(r) \/ Refuse(r) \/ Answer(r)

Spec == Init /\ [][Next]_vars
=============================================================================
