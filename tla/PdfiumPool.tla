------------------------------ MODULE PdfiumPool ------------------------------
(***************************************************************************)
(* The server's PDFium processes (server pdfium_pool): one supervised child *)
(* per slot, offered to clients as document leases.  A lease is the pair of *)
(* a slot and the number its supervisor gave it; a handle to it lies in the *)
(* inventory, is reserved before a job is claimed, or belongs to an open    *)
(* document.  Between the supervisor and its child stands a bridge thread,  *)
(* which alone blocks on IPC and may outlive the call it serves.            *)
(***************************************************************************)
EXTENDS Integers, FiniteSets

CONSTANTS
  Slots,      \* max_processes slots, 1..N
  MaxLeases   \* bound: leases a slot hands out in the model

ASSUME PdfiumPoolAssumption ==
  /\ Slots \subseteq Nat /\ IsFiniteSet(Slots)
  /\ MaxLeases \in Nat \ {0}

VARIABLES
  phase,        \* phase[s]: where supervise() is
  lease,        \* lease[s]: lease_id
  failed,       \* failed[s]: the current lease ended by a crash or a missed deadline
  replacement,  \* replacement[s]: the process replaced a failed one, nothing completed since
  kids,         \* kids[s]: live child processes of the slot
  doc,          \* doc[s]: the lease whose document the child has open, or 0
  bridge,       \* bridge[s]: what the bridge thread is doing
  holder,       \* holder[h]: where the handle of a lease is
  call,         \* call[h]: the request its document is waiting for
  reply,        \* reply[h]: what the supervisor answered to it
  cancelled,    \* leases whose token is cancelled
  unresponsive, \* leases whose operation missed its deadline
  stopping,     \* the pool's stop token
  crashes,      \* history: failed processes of a slot since it completed a document
  late          \* history: leases whose operation has outlived OPERATION_TIMEOUT

slotVars == <<phase, lease, failed, replacement, kids, doc, bridge, crashes>>
leaseVars == <<holder, call, reply, cancelled, unresponsive, late>>
vars == <<slotVars, leaseVars, stopping>>

Leases == Slots \X (1..MaxLeases)
SlotOf(h) == h[1]
Current(s) == <<s, lease[s]>>

Phases == {"unborn", "booted", "offering", "serving", "exchanging", "overdue",
           "tardy", "condemned", "retiring", "reaped", "done", "broken"}
Commands == {"open", "page", "close"}
\* A busy bridge waits for the child's reply, "callback" is a glyph resolver running
\* in it, a reply is there until the supervisor takes it.
Replies == {"opened", "rejected", "page", "pageError", "closed", "timeout", "fatal"}
Busy(s) == bridge[s] \in Commands \cup {"callback"}

Init ==
  /\ phase = [s \in Slots |-> "unborn"]
  /\ lease = [s \in Slots |-> 0]
  /\ failed = [s \in Slots |-> FALSE]
  /\ replacement = [s \in Slots |-> FALSE]
  /\ kids = [s \in Slots |-> 0]
  /\ doc = [s \in Slots |-> 0]
  /\ bridge = [s \in Slots |-> "ended"]
  /\ crashes = [s \in Slots |-> 0]
  /\ holder = [h \in Leases |-> "none"]
  /\ call = [h \in Leases |-> "none"]
  /\ reply = [h \in Leases |-> "none"]
  /\ cancelled = {} /\ unresponsive = {} /\ late = {}
  /\ stopping = FALSE

-----------------------------------------------------------------------------
(* PdfiumPool::start: children one after the other; a failure rolls all back. *)

\* Process::start succeeded: a fresh child behind a fresh bridge.
Fresh(s) ==
  /\ kids' = [kids EXCEPT ![s] = @ + 1]
  /\ doc' = [doc EXCEPT ![s] = 0]
  /\ bridge' = [bridge EXCEPT ![s] = "idle"]

Boot(s) ==
  /\ phase[s] = "unborn" /\ ~stopping
  /\ \A t \in Slots : t < s => phase[t] = "booted"
  /\ Fresh(s)
  /\ phase' = [phase EXCEPT ![s] = "booted"]
  /\ UNCHANGED <<lease, failed, replacement, crashes, leaseVars, stopping>>

\* One child cannot be started: nobody is served and every child is stopped.
BootFails ==
  /\ \E s \in Slots : phase[s] = "unborn"
  /\ stopping' = TRUE
  /\ phase' = [s \in Slots |-> IF phase[s] = "booted" THEN "retiring" ELSE "done"]
  /\ failed' = [s \in Slots |-> TRUE]     \* process.stop(false)
  /\ UNCHANGED <<lease, replacement, kids, doc, bridge, crashes, leaseVars>>

SpawnSupervisors ==
  /\ \A s \in Slots : phase[s] = "booted"
  /\ phase' = [s \in Slots |-> "offering"]
  /\ UNCHANGED <<lease, failed, replacement, kids, doc, bridge, crashes, leaseVars, stopping>>

-----------------------------------------------------------------------------
(* The supervisor of a slot. *)

\* A new lease is put into the inventory.  Stopping and a child known to have
\* exited come first (NoticeExit, Interrupt).
Offer(s) ==
  LET h == <<s, lease[s] + 1>> IN
  /\ phase[s] = "offering" /\ ~stopping /\ lease[s] < MaxLeases
  /\ lease' = [lease EXCEPT ![s] = @ + 1]
  /\ failed' = [failed EXCEPT ![s] = FALSE]
  /\ holder' = [holder EXCEPT ![h] = "inventory"]
  /\ phase' = [phase EXCEPT ![s] = "serving"]
  /\ UNCHANGED <<replacement, kids, doc, bridge, crashes,
                 call, reply, cancelled, unresponsive, late, stopping>>

\* The loop is left for good: an offered lease is cancelled next (Condemn).
LeaveLoop(s, crashed) ==
  /\ failed' = [failed EXCEPT ![s] = crashed]
  /\ phase' = [phase EXCEPT ![s] = IF @ = "offering" THEN "retiring" ELSE "condemned"]

\* Mutant of Interrupt: only the lease's own token is watched.
InterruptIgnoresStop(s) ==
  /\ phase[s] \in {"serving", "exchanging"} /\ Current(s) \in cancelled
  /\ LeaveLoop(s, FALSE)
  /\ reply' = IF phase[s] = "exchanging" THEN [reply EXCEPT ![Current(s)] = "fatal"] ELSE reply
  /\ UNCHANGED <<lease, replacement, kids, doc, bridge, crashes,
                 holder, call, cancelled, unresponsive, late, stopping>>

\* The pool stops, or the lease is dropped.  Both take precedence over the child's
\* exit and over any reply, and neither counts as a crash.
Interrupt(s) ==
  /\ phase[s] \in {"offering", "serving", "exchanging"}
  /\ stopping \/ (phase[s] # "offering" /\ Current(s) \in cancelled)
  /\ LeaveLoop(s, FALSE)
  /\ reply' = IF phase[s] = "exchanging" THEN [reply EXCEPT ![Current(s)] = "fatal"] ELSE reply
  /\ UNCHANGED <<lease, replacement, kids, doc, bridge, crashes,
                 holder, call, cancelled, unresponsive, late, stopping>>

Undisturbed(s) == ~stopping /\ (phase[s] = "offering" \/ Current(s) \notin cancelled)

\* child.wait() returned, before or after the lease was offered or during a call.
NoticeExit(s) ==
  /\ phase[s] \in {"offering", "serving", "exchanging"} /\ Undisturbed(s) /\ kids[s] = 0
  /\ LeaveLoop(s, TRUE)
  /\ reply' = IF phase[s] = "exchanging" THEN [reply EXCEPT ![Current(s)] = "fatal"] ELSE reply
  /\ UNCHANGED <<lease, replacement, kids, doc, bridge, crashes,
                 holder, call, cancelled, unresponsive, late, stopping>>

\* requests.recv(): the call goes to the bridge.
TakeCall(s) ==
  LET h == Current(s) IN
  /\ phase[s] = "serving" /\ Undisturbed(s)
  /\ call[h] # "none" /\ reply[h] = "none"
  /\ phase' = [phase EXCEPT ![s] = "exchanging"]
  /\ bridge' = [bridge EXCEPT ![s] = IF @ = "idle" THEN call[h] ELSE @]
  /\ UNCHANGED <<lease, failed, replacement, kids, doc, crashes, leaseVars, stopping>>

\* Mutant of Settle: every lease that ends is cancelled, a completed one too.
SettleCancels(s) ==
  LET h == Current(s) IN
  /\ phase[s] = "exchanging" /\ Undisturbed(s)
  /\ bridge[s] \in Replies \ {"fatal"}
  /\ reply' = [reply EXCEPT ![h] = bridge[s]]
  /\ bridge' = [bridge EXCEPT ![s] = "idle"]
  /\ phase' = [phase EXCEPT ![s] =
                 IF bridge[s] \in {"rejected", "closed"} THEN "condemned" ELSE "serving"]
  /\ UNCHANGED <<lease, failed, replacement, kids, doc, crashes, holder, call, cancelled,
                 unresponsive, late, stopping>>

\* The reply of a healthy exchange reaches the caller.  A rejected Open and an
\* acknowledged Close end the lease without cancelling it; the process goes on to
\* its next lease, unless the pool stops.
Settle(s) ==
  LET h == Current(s) IN
  /\ phase[s] = "exchanging" /\ Undisturbed(s)
  /\ bridge[s] \in Replies \ {"fatal"}
  /\ reply' = [reply EXCEPT ![h] = bridge[s]]
  /\ bridge' = [bridge EXCEPT ![s] = "idle"]
  /\ phase' = [phase EXCEPT ![s] =
                 IF bridge[s] \in {"rejected", "closed"} THEN "offering" ELSE "serving"]
  /\ replacement' = [replacement EXCEPT ![s] = @ /\ bridge[s] # "closed"]
  /\ crashes' = [crashes EXCEPT ![s] = IF bridge[s] = "closed" THEN 0 ELSE @]
  /\ UNCHANGED <<lease, failed, kids, doc, holder, call, cancelled,
                 unresponsive, late, stopping>>

\* The bridge is gone or reports a broken transport; or Close took too long.
SettleFatal(s) ==
  LET h == Current(s) IN
  /\ phase[s] = "exchanging" /\ Undisturbed(s)
  /\ bridge[s] \in {"fatal", "ended"} \/ call[h] = "close"
  /\ reply' = [reply EXCEPT ![h] = "fatal"]
  /\ LeaveLoop(s, TRUE)
  /\ UNCHANGED <<lease, replacement, kids, doc, bridge, crashes,
                 holder, call, cancelled, unresponsive, late, stopping>>

\* Mutants of MissDeadline: the callers are woken before the recovery state is
\* published; there is no deadline.
MissDeadlineCancelsFirst(s) ==
  /\ phase[s] = "exchanging" /\ Undisturbed(s) /\ call[Current(s)] # "close"
  /\ failed' = [failed EXCEPT ![s] = TRUE]
  /\ late' = late \cup {Current(s)} /\ cancelled' = cancelled \cup {Current(s)}
  /\ phase' = [phase EXCEPT ![s] = "overdue"]
  /\ UNCHANGED <<lease, replacement, kids, doc, bridge, crashes,
                 holder, call, reply, unresponsive, stopping>>
MissDeadlineNever(s) == phase[s] = "exchanging" /\ lease[s] = 0 /\ UNCHANGED vars

\* OPERATION_TIMEOUT elapses.
MissDeadline(s) ==
  /\ phase[s] = "exchanging" /\ Undisturbed(s) /\ call[Current(s)] # "close"
  /\ failed' = [failed EXCEPT ![s] = TRUE]
  /\ late' = late \cup {Current(s)}
  /\ phase' = [phase EXCEPT ![s] = "overdue"]
  /\ UNCHANGED <<lease, replacement, kids, doc, bridge, crashes,
                 holder, call, reply, cancelled, unresponsive, stopping>>

\* The recovery state is published before the reply and the cancellation.
MarkUnresponsive(s) ==
  /\ phase[s] = "overdue"
  /\ unresponsive' = unresponsive \cup {Current(s)}
  /\ phase' = [phase EXCEPT ![s] = "tardy"]
  /\ UNCHANGED <<lease, failed, replacement, kids, doc, bridge, crashes,
                 holder, call, reply, cancelled, late, stopping>>

ReportTimeout(s) ==
  /\ phase[s] = "tardy"
  /\ reply' = [reply EXCEPT ![Current(s)] = "timeout"]
  /\ phase' = [phase EXCEPT ![s] = "condemned"]
  /\ UNCHANGED <<lease, failed, replacement, kids, doc, bridge, crashes,
                 holder, call, cancelled, unresponsive, late, stopping>>

\* Mutant of Condemn: the process of a cancelled lease is offered again.
CondemnReuses(s) ==
  /\ phase[s] = "condemned"
  /\ cancelled' = cancelled \cup {Current(s)}
  /\ phase' = [phase EXCEPT ![s] = IF failed[s] THEN "retiring" ELSE "offering"]
  /\ UNCHANGED <<lease, failed, replacement, kids, doc, bridge, crashes,
                 holder, call, reply, unresponsive, late, stopping>>

\* Neither completed nor rejected: the lease is cancelled and its queue closed.
Condemn(s) ==
  /\ phase[s] = "condemned"
  /\ cancelled' = cancelled \cup {Current(s)}
  /\ phase' = [phase EXCEPT ![s] = "retiring"]
  /\ UNCHANGED <<lease, failed, replacement, kids, doc, bridge, crashes,
                 holder, call, reply, unresponsive, late, stopping>>

-----------------------------------------------------------------------------
(* Process::stop and replacement. *)

\* Shutdown reaches the child through an idle bridge; it drops its document and exits.
ShutdownAcknowledged(s) ==
  /\ phase[s] = "retiring" /\ ~failed[s] /\ kids[s] > 0 /\ ~Busy(s) /\ bridge[s] \notin {"fatal", "ended"}
  /\ kids' = [kids EXCEPT ![s] = 0]
  /\ doc' = [doc EXCEPT ![s] = 0]
  /\ UNCHANGED <<phase, lease, failed, replacement, bridge, crashes, leaseVars, stopping>>

\* Mutant of Kill: a graceful stop waits for its acknowledgement for ever.
KillOnlyFailed(s) ==
  /\ phase[s] = "retiring" /\ kids[s] > 0 /\ failed[s]
  /\ kids' = [kids EXCEPT ![s] = 0]
  /\ doc' = [doc EXCEPT ![s] = 0]
  /\ UNCHANGED <<phase, lease, failed, replacement, bridge, crashes, leaseVars, stopping>>

\* No acknowledgement, or none asked for: the child is killed and reaped.
Kill(s) ==
  /\ phase[s] = "retiring" /\ kids[s] > 0
  /\ kids' = [kids EXCEPT ![s] = 0]
  /\ doc' = [doc EXCEPT ![s] = 0]
  /\ UNCHANGED <<phase, lease, failed, replacement, bridge, crashes, leaseVars, stopping>>

\* Both the child and its bridge are gone.
Reap(s) ==
  /\ phase[s] = "retiring" /\ kids[s] = 0 /\ bridge[s] = "ended"
  /\ phase' = [phase EXCEPT ![s] = "reaped"]
  /\ crashes' = [crashes EXCEPT ![s] = IF failed[s] THEN @ + 1 ELSE @]
  /\ UNCHANGED <<lease, failed, replacement, kids, doc, bridge, leaseVars, stopping>>

\* A glyph resolver that does not return keeps the bridge; the slot gives up.
BridgeStuck(s) ==
  /\ phase[s] = "retiring" /\ kids[s] = 0 /\ bridge[s] = "callback"
  /\ phase' = [phase EXCEPT ![s] = "broken"]
  /\ UNCHANGED <<lease, failed, replacement, kids, doc, bridge, crashes, leaseVars, stopping>>

\* Nothing replaces the process: the pool stops, or this is the second failure in a
\* row without a completed document.
Retire(s) ==
  /\ phase[s] = "reaped"
  /\ stopping \/ (replacement[s] /\ failed[s])
  /\ phase' = [phase EXCEPT ![s] = IF stopping THEN "done" ELSE "broken"]
  /\ UNCHANGED <<lease, failed, replacement, kids, doc, bridge, crashes, leaseVars, stopping>>

\* Mutant of Replace: a cancellation restores the budget (= failed, not |= failed).
ReplaceResetsBudget(s) ==
  /\ phase[s] = "reaped" /\ ~stopping /\ ~(replacement[s] /\ failed[s])
  /\ Fresh(s)
  /\ replacement' = [replacement EXCEPT ![s] = failed[s]]
  /\ phase' = [phase EXCEPT ![s] = "offering"]
  /\ UNCHANGED <<lease, failed, crashes, leaseVars, stopping>>

Replace(s) ==
  /\ phase[s] = "reaped" /\ ~stopping /\ ~(replacement[s] /\ failed[s])
  /\ Fresh(s)
  /\ replacement' = [replacement EXCEPT ![s] = @ \/ failed[s]]
  /\ phase' = [phase EXCEPT ![s] = "offering"]
  /\ UNCHANGED <<lease, failed, crashes, leaseVars, stopping>>

ReplaceFails(s) ==
  /\ phase[s] = "reaped" /\ ~stopping /\ ~(replacement[s] /\ failed[s])
  /\ phase' = [phase EXCEPT ![s] = "broken"]
  /\ UNCHANGED <<lease, failed, replacement, kids, doc, bridge, crashes, leaseVars, stopping>>

-----------------------------------------------------------------------------
(* The child and the bridge in front of it. *)

ChildExits(s) ==
  /\ phase[s] \notin {"unborn", "done"} /\ kids[s] > 0
  /\ kids' = [kids EXCEPT ![s] = @ - 1]
  /\ doc' = [doc EXCEPT ![s] = 0]
  /\ UNCHANGED <<phase, lease, failed, replacement, bridge, crashes, leaseVars, stopping>>

\* What the child may answer; a command it does not expect ends it (ChildExits).
Answers(s) ==
  CASE bridge[s] = "open" /\ doc[s] = 0 -> {"opened", "rejected"}
    [] bridge[s] = "page" /\ doc[s] # 0 -> {"page", "pageError"}
    [] bridge[s] = "close" /\ doc[s] # 0 -> {"closed"}
    [] OTHER -> {}

\* The document is released before Close is acknowledged.  If the supervisor no
\* longer waits, the bridge drops the reply.
ChildReplies(s) ==
  /\ kids[s] > 0
  /\ \E r \in Answers(s) :
       /\ bridge' = [bridge EXCEPT ![s] = IF phase[s] = "exchanging" THEN r ELSE "idle"]
       /\ doc' = [doc EXCEPT ![s] = IF r = "opened" THEN lease[s]
                                    ELSE IF r = "closed" THEN 0 ELSE @]
  /\ UNCHANGED <<phase, lease, failed, replacement, kids, crashes, leaseVars, stopping>>

\* A scan calls back into the server's glyph resolver, on the bridge thread.
GlyphCallback(s) ==
  /\ bridge[s] = "page" /\ kids[s] > 0 /\ doc[s] # 0
  /\ bridge' = [bridge EXCEPT ![s] = "callback"]
  /\ UNCHANGED <<phase, lease, failed, replacement, kids, doc, crashes, leaseVars, stopping>>

\* The resolver returns, or panics, which breaks the transport.
CallbackReturns(s) ==
  /\ bridge[s] = "callback"
  /\ \E next \in {"page", IF phase[s] = "exchanging" THEN "fatal" ELSE "ended"} :
       bridge' = [bridge EXCEPT ![s] = next]
  /\ UNCHANGED <<phase, lease, failed, replacement, kids, doc, crashes, leaseVars, stopping>>

\* The bridge ends after a failed receive, after a fatal reply, or when an idle
\* bridge loses its sender to Process::stop.
BridgeEnds(s) ==
  /\ \/ kids[s] = 0 /\ bridge[s] \in Commands
     \/ phase[s] = "retiring" /\ bridge[s] \in Replies \cup {"idle"} /\ (kids[s] = 0 \/ failed[s])
  /\ bridge' = [bridge EXCEPT ![s] = IF phase[s] = "exchanging" THEN "fatal" ELSE "ended"]
  /\ UNCHANGED <<phase, lease, failed, replacement, kids, doc, crashes, leaseVars, stopping>>

-----------------------------------------------------------------------------
(* Clients. *)

Listening(h) ==
  h = Current(SlotOf(h)) /\ phase[SlotOf(h)] \in 
    {"serving", "exchanging", "overdue", "tardy", "condemned"}

\* reserve() takes a handle that looks usable.
Reserve(h) ==
  /\ holder[h] = "inventory" /\ ~stopping
  /\ h \notin cancelled /\ Listening(h)
  /\ holder' = [holder EXCEPT ![h] = "reserved"]
  /\ UNCHANGED <<slotVars, call, reply, cancelled, unresponsive, late, stopping>>

\* Mutant of Drop: nobody tells the supervisor.
DropSilently(h) ==
  /\ holder' = [holder EXCEPT ![h] = "gone"]
  /\ call' = [call EXCEPT ![h] = "none"]
  /\ reply' = [reply EXCEPT ![h] = "none"]
  /\ UNCHANGED <<slotVars, cancelled, unresponsive, late, stopping>>

\* Lease::drop cancels, wherever the handle was.
Drop(h) ==
  /\ holder' = [holder EXCEPT ![h] = "gone"]
  /\ call' = [call EXCEPT ![h] = "none"]
  /\ reply' = [reply EXCEPT ![h] = "none"]
  /\ cancelled' = cancelled \cup {h}
  /\ UNCHANGED <<slotVars, unresponsive, late, stopping>>

SkipStale(h) ==
  /\ holder[h] = "inventory" /\ ~stopping
  /\ h \in cancelled \/ ~Listening(h)
  /\ Drop(h)

\* No job could be claimed: an idle process goes back without being restarted.
ReturnReservation(h) ==
  /\ holder[h] = "reserved"
  /\ IF stopping \/ h \in cancelled \/ ~Listening(h)
     THEN Drop(h)
     ELSE /\ holder' = [holder EXCEPT ![h] = "inventory"]
          /\ UNCHANGED <<slotVars, call, reply, cancelled, unresponsive, late, stopping>>

\* The parser's future is dropped, in a request or between two; or the session
\* itself finds an answer invalid.
Abandon(h) ==
  /\ holder[h] \in {"opening", "session", "closing"}
  /\ Drop(h)

\* Lease::request.  One at a time: the admission lock queues the others.
Request(h, cmd) ==
  /\ call[h] = "none"
  /\ holder[h] = IF cmd = "open" THEN "reserved" ELSE "session"
  /\ holder' = [holder EXCEPT ![h] =
       CASE cmd = "open" -> "opening" [] cmd = "close" -> "closing" [] OTHER -> @]
  /\ call' = [call EXCEPT ![h] = cmd]
  /\ reply' = [reply EXCEPT ![h] = "none"]
  /\ UNCHANGED <<slotVars, cancelled, unresponsive, late, stopping>>

\* What a waiting request can see: its token cancelled, a reply, or a closed channel.
Visible(h) ==
  {r \in Replies :
     \/ r = reply[h]
     \/ r = "fatal" /\ (h \in cancelled \/ (reply[h] = "none" /\ ~Listening(h)))}

\* After a missed deadline a fatal result is reported as recoverable, and a Close succeeds.
Reported(h, raw) ==
  IF raw = "timeout" THEN "recoverable"
  ELSE IF raw # "fatal" \/ h \notin unresponsive THEN raw
  ELSE IF call[h] = "close" THEN "closed" ELSE "recoverable"

Receive(h) ==
  /\ call[h] # "none"
  /\ \E raw \in Visible(h) :
       /\ holder' = [holder EXCEPT ![h] =
            IF call[h] = "page" \/ raw = "opened" THEN "session" ELSE "gone"]
       /\ cancelled' = IF raw = "fatal" \/ holder'[h] = "gone" THEN cancelled \cup {h} ELSE cancelled
  /\ call' = [call EXCEPT ![h] = "none"]
  /\ reply' = [reply EXCEPT ![h] = "none"]
  /\ UNCHANGED <<slotVars, unresponsive, late, stopping>>

\* shutdown(), the drop of the pool, or a supervisor that gave up.
StopPool ==
  /\ ~stopping
  /\ stopping' = TRUE
  /\ UNCHANGED <<slotVars, leaseVars>>

-----------------------------------------------------------------------------
Supervise(s) ==
  \/ Offer(s) \/ Interrupt(s) \/ NoticeExit(s) \/ TakeCall(s) \/ Settle(s) \/ SettleFatal(s)
  \/ MissDeadline(s) \/ MarkUnresponsive(s) \/ ReportTimeout(s) \/ Condemn(s) \/ ShutdownAcknowledged(s) \/ Kill(s)
  \/ Reap(s) \/ BridgeStuck(s) \/ Retire(s) \/ Replace(s) \/ ReplaceFails(s)

Child(s) == ChildExits(s) \/ ChildReplies(s) \/ GlyphCallback(s)

Client(h) ==
  \/ Reserve(h) \/ SkipStale(h) \/ ReturnReservation(h) \/ Abandon(h) \/ Receive(h)
  \/ \E cmd \in Commands : Request(h, cmd)

Next ==
  \/ BootFails \/ SpawnSupervisors \/ StopPool
  \/ \E s \in Slots : Boot(s) \/ Supervise(s) \/ Child(s) \/ CallbackReturns(s) \/ BridgeEnds(s)
  \/ \E h \in Leases : Client(h)

Spec == Init /\ [][Next]_vars

(***************************************************************************)
(* Fairness.  Supervisor tasks and waiting requests are polled, and a       *)
(* bridge wakes when its peer is gone.  Nothing is owed by the child (it    *)
(* may hang in native code), by a glyph resolver, or by the clients.  A     *)
(* supervisor that gave up makes the pool stop (start's join loop).         *)
(***************************************************************************)
FairSpec ==
  /\ Spec
  /\ \A s \in Slots : WF_vars(Supervise(s)) /\ WF_vars(BridgeEnds(s))
  /\ \A h \in Leases : WF_vars(Receive(h))
  /\ WF_vars(BootFails \/ SpawnSupervisors \/ \E s \in Slots : Boot(s))
  /\ WF_vars(StopPool /\ \E s \in Slots : phase[s] = "broken")

-----------------------------------------------------------------------------
\* Type correctness; no slot ever has two live children.
TypeOK ==
  /\ phase \in [Slots -> Phases] /\ lease \in [Slots -> 0..MaxLeases]
  /\ failed \in [Slots -> BOOLEAN] /\ replacement \in [Slots -> BOOLEAN]
  /\ kids \in [Slots -> 0..1] /\ doc \in [Slots -> 0..MaxLeases]
  /\ bridge \in [Slots -> {"idle", "callback", "ended"} \cup Commands \cup Replies]
  /\ crashes \in [Slots -> 0..2]
  /\ holder \in [Leases ->
       {"none", "inventory", "reserved", "opening", "session", "closing", "gone"}]
  /\ call \in [Leases -> Commands \cup {"none"}]
  /\ reply \in [Leases -> Replies \cup {"none"}]
  /\ cancelled \subseteq Leases /\ unresponsive \subseteq late /\ late \subseteq Leases
  /\ stopping \in BOOLEAN

\* Documents are isolated: a child never has one open that is not its current
\* lease's, and a usable handle nobody opened leads to a process without a
\* document whose bridge owes no reply to anybody, whatever its last lease did.
OneDocumentPerProcess ==
  /\ TypeOK
  /\ \A s \in Slots : doc[s] \in {0, lease[s]}
  /\ \A h \in Leases :
       holder[h] \in {"inventory", "reserved"} /\ h \notin cancelled /\ Listening(h) =>
         doc[SlotOf(h)] = 0 /\ bridge[SlotOf(h)] = "idle"

\* An idle process is never lost: as long as its supervisor serves a lease that is
\* not cancelled, somebody holds the handle and can return, use or drop it.
IdleProcessIsReachable ==
  \A s \in Slots : phase[s] \in {"serving", "exchanging"} =>
    Current(s) \in cancelled \/ holder[Current(s)] \notin {"none", "gone"}

\* A slot gives up over its budget exactly on its second failure since it last
\* completed a document; cancellations in between neither spend nor restore it.
CrashBudget ==
  \A s \in Slots :
    /\ crashes[s] = 2 => phase[s] \in {"reaped", "done", "broken"}
    /\ phase[s] = "reaped" /\ replacement[s] /\ failed[s] => crashes[s] = 2

\* However cancellation, replies and retirement race, the caller that still waits is
\* told what happened: an acknowledged Close and a rejected Open stay observable, and
\* once an operation has outlived its deadline it is not told of a fatal failure, so
\* that its document falls back and still closes.
RepliesOutrankCancellation ==
  \A h \in Leases : call[h] # "none" =>
    /\ reply[h] \in {"closed", "rejected"} => Visible(h) = {reply[h]}
    /\ h \in late => \A raw \in Visible(h) : Reported(h, raw) \in {"recoverable", "closed"}

\* Every request returns, even when its child or its resolver hangs for ever.
RequestsReturn == \A h \in Leases : (call[h] # "none") ~> (call[h] = "none")

\* A slot whose process is retired serves again, or is given up for good.
SlotsRecover ==
  \A s \in Slots : (phase[s] = "retiring") ~> (phase[s] \in {"offering", "done", "broken"})

\* Stopping the pool ends every supervisor and leaves no child behind.
StopCompletes ==
  stopping ~> \A s \in Slots : phase[s] \in {"done", "broken"} /\ kids[s] = 0
=============================================================================
