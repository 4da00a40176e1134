-------------------------- MODULE PdfiumPoolProofs --------------------------
(***************************************************************************)
(* Proofs about the PDFium pool, for any finite set of slots and any number *)
(* of leases.  Each part of the inductive invariant speaks of one slot, or  *)
(* of one lease and its slot; a step of a supervisor, a child or a bridge   *)
(* moves one slot and at most its current lease, a step of a client one     *)
(* lease, so everybody else is a bystander.                                 *)
(***************************************************************************)
EXTENDS PdfiumPool, TLAPS

Owed(b) == IF b THEN 1 ELSE 0

\* The supervisor has a lease out: handles to it reach a request queue.
Out == {"serving", "exchanging", "overdue", "tardy", "condemned"}

\* The process and its bridge, by what the supervisor is doing.
ProcessOK(s) ==
  /\ phase[s] \in Out => lease[s] > 0
  /\ phase[s] \in {"unborn", "reaped"} => kids[s] = 0
  /\ kids[s] = 0 => doc[s] = 0
  /\ doc[s] \in {0, lease[s]}
  /\ phase[s] \in {"booted", "offering"} => doc[s] = 0
  /\ phase[s] \in {"booted", "offering", "serving"} => bridge[s] = "idle"
  /\ bridge[s] \in {"rejected", "closed"} => doc[s] = 0

\* Failures are counted twice, as the history and as the flags of the code.
BudgetOK(s) ==
  /\ phase[s] \notin {"reaped", "done", "broken"} => crashes[s] = Owed(replacement[s])
  /\ phase[s] = "reaped" => crashes[s] = Owed(replacement[s]) + Owed(failed[s])

\* A handle exists once its lease is handed out, and a dropped one has said so.
HandleOK(h) ==
  /\ h[2] > lease[SlotOf(h)] =>
       /\ holder[h] = "none" /\ call[h] = "none" /\ reply[h] = "none"
       /\ h \notin cancelled \cup late
  /\ h[2] <= lease[SlotOf(h)] => holder[h] # "none"
  /\ holder[h] = "gone" => h \in cancelled
  /\ call[h] # "none" => holder[h] \in {"opening", "session", "closing"}

IsCurrent(h) == h[2] = lease[SlotOf(h)]

\* A handle that nobody has used finds its process as it was offered.
UnusedOK(h) ==
  holder[h] \in {"inventory", "reserved"} /\ IsCurrent(h) /\ phase[SlotOf(h)] \in Out =>
    /\ phase[SlotOf(h)] \in {"serving", "condemned"}
    /\ doc[SlotOf(h)] = 0 /\ bridge[SlotOf(h)] = "idle"

\* During an exchange the caller waits without an answer, or has dropped its handle.
ExchangeOK(h) ==
  IsCurrent(h) /\ phase[SlotOf(h)] \in {"exchanging", "overdue"} =>
    /\ reply[h] = "none"
    /\ holder[h] = "gone" \/ (call[h] # "none" /\ h \notin cancelled)

\* A lease that has ended well is not cancelled under a caller that still waits.
EndedWellOK(h) ==
  call[h] # "none" /\ reply[h] \in {"closed", "rejected"} =>
    h \notin cancelled /\ ~(IsCurrent(h) /\ phase[SlotOf(h)] \in Out)

\* A missed deadline is published before anybody can be woken by it, and its lease
\* is never served again.
LateOK(h) ==
  /\ h \in late \ unresponsive => IsCurrent(h) /\ phase[SlotOf(h)] = "overdue"
  /\ IsCurrent(h) /\ phase[SlotOf(h)] = "overdue" => h \in late
  /\ h \in unresponsive =>
       /\ reply[h] \in {"none", "timeout"}
       /\ IsCurrent(h) => phase[SlotOf(h)] \notin {"serving", "exchanging", "overdue"}

SlotOK(s) == ProcessOK(s) /\ BudgetOK(s)
LeaseOK(h) == HandleOK(h) /\ UnusedOK(h) /\ ExchangeOK(h) /\ EndedWellOK(h) /\ LateOK(h)

\* No lease is handed out before every slot has booted.
BootOK == \A s, t \in Slots : phase[s] = "unborn" => phase[t] \in {"unborn", "booted"}

IInv ==
  /\ TypeOK
  /\ BootOK
  /\ \A s \in Slots : SlotOK(s)
  /\ \A h \in Leases : LeaseOK(h)

-----------------------------------------------------------------------------
(* Leases and their slots. *)

\* The slot and the number of a lease identify it.
LEMMA LeaseParts ==
  ASSUME NEW h \in Leases
  PROVE  SlotOf(h) \in Slots /\ h[2] \in 1..MaxLeases /\ h = <<SlotOf(h), h[2]>>
  BY DEF Leases, SlotOf

\* The lease a supervisor has out is one of the model's.
LEMMA CurrentParts ==
  ASSUME IInv, NEW s \in Slots
  PROVE  /\ lease[s] \in 0..MaxLeases /\ MaxLeases \in Nat /\ SlotOK(s)
         /\ phase[s] \in Out =>
              /\ Current(s) \in Leases /\ LeaseOK(Current(s))
              /\ SlotOf(Current(s)) = s /\ Current(s)[2] = lease[s]
  BY PdfiumPoolAssumption DEF Current, Leases, SlotOf, IInv, SlotOK, ProcessOK, TypeOK

\* All that may happen to a slot alone.
SlotNext(s) == Boot(s) \/ Supervise(s) \/ Child(s) \/ CallbackReturns(s) \/ BridgeEnds(s)

-----------------------------------------------------------------------------
(* A step of one slot. *)

\* Types, and no second child.
LEMMA SlotTypes ==
  ASSUME IInv, NEW s \in Slots, SlotNext(s)
  PROVE  TypeOK'
<1>1. /\ lease[s] \in 0..MaxLeases /\ MaxLeases \in Nat /\ SlotOK(s)
      /\ phase[s] \in Out =>
           /\ Current(s) \in Leases /\ LeaseOK(Current(s))
           /\ SlotOf(Current(s)) = s /\ Current(s)[2] = lease[s]
  BY CurrentParts
<1>2. CASE Boot(s)
  BY <1>2 DEF IInv, TypeOK, Boot, Phases, Fresh, SlotOK, ProcessOK, leaseVars
<1>3. CASE Offer(s)
  BY <1>1, <1>3 DEF IInv, TypeOK, Offer, Phases, Leases
<1>4. CASE Interrupt(s)
  BY <1>1, <1>4 DEF IInv, TypeOK, Interrupt, Phases, Commands, Replies, LeaveLoop, Current, Leases
<1>5. CASE NoticeExit(s)
  BY <1>1, <1>5
     DEF IInv, TypeOK, NoticeExit, Phases, Commands, Replies, LeaveLoop, Current, Leases,
         Undisturbed
<1>6. CASE TakeCall(s)
  BY <1>1, <1>6 DEF IInv, TypeOK, TakeCall, Phases, Out, leaseVars
<1>7. CASE Settle(s)
  BY <1>1, <1>7 DEF IInv, TypeOK, Settle, Phases, Out
<1>8. CASE SettleFatal(s)
  BY <1>1, <1>8
     DEF IInv, TypeOK, SettleFatal, Phases, Commands, Replies, LeaveLoop, Current, Leases,
         Undisturbed
<1>9. CASE MissDeadline(s)
  BY <1>1, <1>9 DEF IInv, TypeOK, MissDeadline, Phases, Out
<1>10. CASE MarkUnresponsive(s)
  BY <1>1, <1>10
     DEF IInv, TypeOK, MarkUnresponsive, Phases, Commands, Replies, Out, LeaveLoop, Current,
         Leases, Answers, Undisturbed, Fresh, SlotOK, ProcessOK, BudgetOK, Owed, leaseVars,
         LeaseOK, LateOK, IsCurrent
<1>11. CASE ReportTimeout(s)
  BY <1>1, <1>11 DEF IInv, TypeOK, ReportTimeout, Phases, Commands, Replies, Current, Leases
<1>12. CASE Condemn(s)
  BY <1>1, <1>12 DEF IInv, TypeOK, Condemn, Phases, Out
<1>13. CASE ShutdownAcknowledged(s)
  BY <1>1, <1>13 DEF IInv, TypeOK, ShutdownAcknowledged, leaseVars
<1>14. CASE Kill(s)
  BY <1>1, <1>14 DEF IInv, TypeOK, Kill, leaseVars
<1>15. CASE Reap(s)
  BY <1>15 DEF IInv, TypeOK, Reap, Phases, SlotOK, BudgetOK, Owed, leaseVars
<1>16. CASE BridgeStuck(s)
  BY <1>16 DEF IInv, TypeOK, BridgeStuck, Phases, leaseVars
<1>17. CASE Retire(s)
  BY <1>17 DEF IInv, TypeOK, Retire, Phases, leaseVars
<1>18. CASE Replace(s)
  BY <1>18 DEF IInv, TypeOK, Replace, Phases, Fresh, SlotOK, ProcessOK, leaseVars
<1>19. CASE ReplaceFails(s)
  BY <1>19 DEF IInv, TypeOK, ReplaceFails, Phases, leaseVars
<1>20. CASE ChildExits(s)
  BY <1>1, <1>20 DEF IInv, TypeOK, ChildExits, leaseVars
<1>21. CASE ChildReplies(s)
  BY <1>1, <1>21 DEF IInv, TypeOK, ChildReplies, Replies, Answers, leaseVars
<1>22. CASE GlyphCallback(s)
  BY <1>22 DEF IInv, TypeOK, GlyphCallback, leaseVars
<1>23. CASE CallbackReturns(s)
  BY <1>23 DEF IInv, TypeOK, CallbackReturns, Replies, leaseVars
<1>24. CASE BridgeEnds(s)
  BY <1>24 DEF IInv, TypeOK, BridgeEnds, Replies, leaseVars
<1> QED
  BY <1>2, <1>3, <1>4, <1>5, <1>6, <1>7, <1>8, <1>9, <1>10, <1>11, <1>12, <1>13, <1>14, <1>15,
     <1>16, <1>17, <1>18, <1>19, <1>20, <1>21, <1>22, <1>23, <1>24
     DEF SlotNext, Supervise, Child

\* What holds of a process and its budget: the slot that moves, or another one.
LEMMA SlotProcesses ==
  ASSUME IInv, NEW s \in Slots, NEW t \in Slots, SlotNext(s)
  PROVE  SlotOK(t)'
<1>1. /\ lease[s] \in 0..MaxLeases /\ MaxLeases \in Nat /\ SlotOK(s)
      /\ phase[s] \in Out =>
           /\ Current(s) \in Leases /\ LeaseOK(Current(s))
           /\ SlotOf(Current(s)) = s /\ Current(s)[2] = lease[s]
  BY CurrentParts
<1>2. SlotOK(t)
  BY DEF IInv
<1>3. CASE Boot(s)
  BY <1>3 DEF IInv, TypeOK, Boot, SlotOK, ProcessOK, BudgetOK, Out, Fresh
<1>4. CASE Offer(s)
  BY <1>4 DEF IInv, TypeOK, Offer, SlotOK, ProcessOK, BudgetOK
<1>5. CASE Interrupt(s)
  BY <1>2, <1>5 DEF Interrupt, SlotOK, ProcessOK, BudgetOK, Owed, Out, LeaveLoop
<1>6. CASE NoticeExit(s)
  BY <1>2, <1>6 DEF NoticeExit, SlotOK, ProcessOK, BudgetOK, Owed, Out, LeaveLoop
<1>7. CASE TakeCall(s)
  BY <1>1, <1>7 DEF IInv, TypeOK, TakeCall, SlotOK, ProcessOK, BudgetOK, Out, Commands
<1>8. CASE Settle(s)
  BY <1>1, <1>2, <1>8
     DEF IInv, TypeOK, Settle, SlotOK, ProcessOK, BudgetOK, Owed, Out, LeaveLoop, Answers, Fresh,
         leaseVars, Commands, Replies
<1>9. CASE SettleFatal(s)
  BY <1>2, <1>9 DEF SettleFatal, SlotOK, ProcessOK, BudgetOK, Owed, Out, LeaveLoop
<1>10. CASE MissDeadline(s)
  BY <1>2, <1>10 DEF MissDeadline, SlotOK, ProcessOK, BudgetOK, Owed, Out
<1>11. CASE MarkUnresponsive(s)
  BY <1>2, <1>11 DEF MarkUnresponsive, SlotOK, ProcessOK, BudgetOK, Out
<1>12. CASE ReportTimeout(s)
  BY <1>2, <1>12 DEF ReportTimeout, SlotOK, ProcessOK, BudgetOK, Out
<1>13. CASE Condemn(s)
  BY <1>2, <1>13 DEF Condemn, SlotOK, ProcessOK, BudgetOK, Out
<1>14. CASE ShutdownAcknowledged(s)
  BY <1>14 DEF IInv, TypeOK, ShutdownAcknowledged, SlotOK, ProcessOK, BudgetOK
<1>15. CASE Kill(s)
  BY <1>15 DEF IInv, TypeOK, Kill, SlotOK, ProcessOK, BudgetOK
<1>16. CASE Reap(s)
  BY <1>16 DEF IInv, TypeOK, Reap, SlotOK, ProcessOK, BudgetOK, Owed, Out
<1>17. CASE BridgeStuck(s)
  BY <1>2, <1>17 DEF BridgeStuck, SlotOK, ProcessOK, BudgetOK, Out
<1>18. CASE Retire(s)
  BY <1>2, <1>18 DEF Retire, SlotOK, ProcessOK, BudgetOK, Out
<1>19. CASE Replace(s)
  BY <1>19 DEF IInv, TypeOK, Replace, SlotOK, ProcessOK, BudgetOK, Owed, Out, Fresh
<1>20. CASE ReplaceFails(s)
  BY <1>2, <1>20 DEF ReplaceFails, SlotOK, ProcessOK, BudgetOK, Out
<1>21. CASE ChildExits(s)
  BY <1>21 DEF IInv, TypeOK, ChildExits, SlotOK, ProcessOK, BudgetOK
<1>22. CASE ChildReplies(s)
  BY <1>22 DEF IInv, TypeOK, ChildReplies, SlotOK, ProcessOK, BudgetOK, Answers
<1>23. CASE GlyphCallback(s)
  BY <1>2, <1>23 DEF GlyphCallback, SlotOK, ProcessOK, BudgetOK
<1>24. CASE CallbackReturns(s)
  BY <1>2, <1>24 DEF CallbackReturns, SlotOK, ProcessOK, BudgetOK
<1>25. CASE BridgeEnds(s)
  BY <1>2, <1>25 DEF BridgeEnds, SlotOK, ProcessOK, BudgetOK, Commands
<1> QED
  BY <1>3, <1>4, <1>5, <1>6, <1>7, <1>8, <1>9, <1>10, <1>11, <1>12, <1>13, <1>14, <1>15, <1>16,
     <1>17, <1>18, <1>19, <1>20, <1>21, <1>22, <1>23, <1>24, <1>25
     DEF SlotNext, Supervise, Child

\* What holds of a lease: the current one of the slot that moves, or another one.
LEMMA SlotLeases ==
  ASSUME IInv, NEW s \in Slots, NEW h \in Leases, SlotNext(s)
  PROVE  LeaseOK(h)'
<1>1. /\ lease[s] \in 0..MaxLeases /\ MaxLeases \in Nat /\ SlotOK(s)
      /\ phase[s] \in Out =>
           /\ Current(s) \in Leases /\ LeaseOK(Current(s))
           /\ SlotOf(Current(s)) = s /\ Current(s)[2] = lease[s]
  BY CurrentParts
<1>2. LeaseOK(h) /\ SlotOf(h) \in Slots /\ h[2] \in 1..MaxLeases /\ h = <<SlotOf(h), h[2]>>
  BY LeaseParts DEF IInv
<1>3. CASE Boot(s)
  BY <1>2, <1>3
     DEF Boot, LeaseOK, HandleOK, UnusedOK, ExchangeOK, EndedWellOK, LateOK, IsCurrent, Out,
         Fresh, leaseVars
<1>4. CASE Offer(s)
  BY <1>2, <1>4
     DEF IInv, TypeOK, Offer, LeaseOK, HandleOK, UnusedOK, ExchangeOK, EndedWellOK, LateOK,
         IsCurrent, SlotOK, ProcessOK
<1>5. CASE Interrupt(s)
  BY <1>1, <1>5
     DEF IInv, TypeOK, Interrupt, LeaseOK, HandleOK, UnusedOK, ExchangeOK, EndedWellOK, LateOK,
         IsCurrent, Out, LeaveLoop
<1>6. CASE NoticeExit(s)
  BY <1>1, <1>6
     DEF IInv, TypeOK, NoticeExit, LeaseOK, HandleOK, UnusedOK, ExchangeOK, EndedWellOK, LateOK,
         IsCurrent, Out, LeaveLoop
<1>7. CASE TakeCall(s)
  BY <1>2, <1>7
     DEF TakeCall, LeaseOK, HandleOK, UnusedOK, ExchangeOK, EndedWellOK, LateOK, IsCurrent,
         Undisturbed, Current, leaseVars
<1>8. CASE Settle(s)
  BY <1>1, <1>8
     DEF IInv, TypeOK, Settle, LeaseOK, HandleOK, UnusedOK, ExchangeOK, EndedWellOK, LateOK,
         IsCurrent, Out
<1>9. CASE SettleFatal(s)
  BY <1>2, <1>9
     DEF IInv, TypeOK, SettleFatal, LeaseOK, HandleOK, UnusedOK, ExchangeOK, EndedWellOK, LateOK,
         IsCurrent, LeaveLoop, Current
<1>10. CASE MissDeadline(s)
  BY <1>2, <1>10
     DEF IInv, TypeOK, MissDeadline, LeaseOK, HandleOK, UnusedOK, ExchangeOK, EndedWellOK, LateOK,
         IsCurrent, Current
<1>11. CASE MarkUnresponsive(s)
  BY <1>2, <1>11
     DEF IInv, TypeOK, MarkUnresponsive, LeaseOK, HandleOK, UnusedOK, ExchangeOK, EndedWellOK,
         LateOK, IsCurrent, Current
<1>12. CASE ReportTimeout(s)
  BY <1>1, <1>2, <1>12
     DEF ReportTimeout, LeaseOK, HandleOK, UnusedOK, ExchangeOK, EndedWellOK, LateOK, IsCurrent,
         Out
<1>13. CASE Condemn(s)
  BY <1>1, <1>2, <1>13
     DEF Condemn, LeaseOK, HandleOK, UnusedOK, ExchangeOK, EndedWellOK, LateOK, IsCurrent, Out
<1>14. CASE ShutdownAcknowledged(s)
  BY <1>2, <1>14
     DEF ShutdownAcknowledged, LeaseOK, HandleOK, UnusedOK, ExchangeOK, EndedWellOK, LateOK,
         IsCurrent, leaseVars
<1>15. CASE Kill(s)
  BY <1>2, <1>15
     DEF Kill, LeaseOK, HandleOK, UnusedOK, ExchangeOK, EndedWellOK, LateOK, IsCurrent, leaseVars
<1>16. CASE Reap(s)
  BY <1>2, <1>16
     DEF Reap, LeaseOK, HandleOK, UnusedOK, ExchangeOK, EndedWellOK, LateOK, IsCurrent, Out,
         leaseVars
<1>17. CASE BridgeStuck(s)
  BY <1>2, <1>17
     DEF BridgeStuck, LeaseOK, HandleOK, UnusedOK, ExchangeOK, EndedWellOK, LateOK, IsCurrent,
         Out, leaseVars
<1>18. CASE Retire(s)
  BY <1>2, <1>18
     DEF Retire, LeaseOK, HandleOK, UnusedOK, ExchangeOK, EndedWellOK, LateOK, IsCurrent, Out,
         leaseVars
<1>19. CASE Replace(s)
  BY <1>2, <1>19
     DEF Replace, LeaseOK, HandleOK, UnusedOK, ExchangeOK, EndedWellOK, LateOK, IsCurrent, Out,
         Fresh, leaseVars
<1>20. CASE ReplaceFails(s)
  BY <1>2, <1>20
     DEF ReplaceFails, LeaseOK, HandleOK, UnusedOK, ExchangeOK, EndedWellOK, LateOK, IsCurrent,
         Out, leaseVars
<1>21. CASE ChildExits(s)
  BY <1>2, <1>21
     DEF ChildExits, LeaseOK, HandleOK, UnusedOK, ExchangeOK, EndedWellOK, LateOK, IsCurrent,
         leaseVars
<1>22. CASE ChildReplies(s)
  BY <1>2, <1>22
     DEF ChildReplies, LeaseOK, HandleOK, UnusedOK, ExchangeOK, EndedWellOK, LateOK, IsCurrent,
         Answers, leaseVars
<1>23. CASE GlyphCallback(s)
  BY <1>2, <1>23
     DEF GlyphCallback, LeaseOK, HandleOK, UnusedOK, ExchangeOK, EndedWellOK, LateOK, IsCurrent,
         leaseVars
<1>24. CASE CallbackReturns(s)
  BY <1>2, <1>24
     DEF CallbackReturns, LeaseOK, HandleOK, UnusedOK, ExchangeOK, EndedWellOK, LateOK, IsCurrent,
         leaseVars
<1>25. CASE BridgeEnds(s)
  BY <1>2, <1>25
     DEF BridgeEnds, LeaseOK, HandleOK, UnusedOK, ExchangeOK, EndedWellOK, LateOK, IsCurrent,
         leaseVars, Commands
<1> QED
  BY <1>3, <1>4, <1>5, <1>6, <1>7, <1>8, <1>9, <1>10, <1>11, <1>12, <1>13, <1>14, <1>15, <1>16,
     <1>17, <1>18, <1>19, <1>20, <1>21, <1>22, <1>23, <1>24, <1>25
     DEF SlotNext, Supervise, Child

\* A slot leaves the start only when all do.
LEMMA SlotBoots ==
  ASSUME IInv, NEW s \in Slots, SlotNext(s)
  PROVE  BootOK'
<1>1. /\ phase'[s] = "unborn" => phase[s] = "unborn"
      /\ phase[s] \in {"unborn", "booted"} => phase'[s] \in {"unborn", "booted"}
      /\ \A t \in Slots \ {s} : phase'[t] = phase[t]
  BY DEF IInv, TypeOK, SlotNext, Supervise, Child, LeaveLoop, Boot, Offer, Interrupt, NoticeExit,
         TakeCall, Settle, SettleFatal, MissDeadline, MarkUnresponsive, ReportTimeout, Condemn,
         ShutdownAcknowledged, Kill, Reap, BridgeStuck, Retire, Replace, ReplaceFails, ChildExits,
         ChildReplies, GlyphCallback, CallbackReturns, BridgeEnds
<1> QED BY <1>1 DEF IInv, BootOK

-----------------------------------------------------------------------------
(* A step of a client: slots stay as they are, and all leases but one. *)

LEMMA ClientStep ==
  ASSUME IInv, NEW h \in Leases, Client(h)
  PROVE  IInv'
<1>1. ASSUME NEW t \in Slots PROVE SlotOK(t)
  BY DEF IInv
<1>2. ASSUME NEW g \in Leases
      PROVE  LeaseOK(g) /\ SlotOf(g) \in Slots /\ g[2] \in 1..MaxLeases /\ g = <<SlotOf(g), g[2]>>
  BY LeaseParts DEF IInv
<1>3. ASSUME Reserve(h) PROVE IInv'
  <2>1. TypeOK'
    BY <1>3 DEF IInv, TypeOK, Reserve, slotVars
  <2>2. ASSUME NEW t \in Slots PROVE SlotOK(t)'
    BY <1>1, <1>3 DEF Reserve, SlotOK, ProcessOK, BudgetOK, slotVars
  <2>3. ASSUME NEW g \in Leases PROVE LeaseOK(g)'
    BY <1>2, <1>3
       DEF Reserve, LeaseOK, HandleOK, UnusedOK, ExchangeOK, EndedWellOK, LateOK, IsCurrent,
           slotVars
  <2>4. BootOK'
    BY <1>3 DEF IInv, BootOK, Reserve, slotVars
  <2> QED BY <2>1, <2>2, <2>3, <2>4 DEF IInv
<1>4. ASSUME SkipStale(h) PROVE IInv'
  <2>1. TypeOK'
    BY <1>4 DEF IInv, TypeOK, SkipStale, Drop, slotVars
  <2>2. ASSUME NEW t \in Slots PROVE SlotOK(t)'
    BY <1>1, <1>4 DEF SkipStale, SlotOK, ProcessOK, BudgetOK, slotVars, Drop
  <2>3. ASSUME NEW g \in Leases PROVE LeaseOK(g)'
    BY <1>2, <1>4
       DEF SkipStale, LeaseOK, HandleOK, UnusedOK, ExchangeOK, EndedWellOK, LateOK, IsCurrent,
           slotVars, Drop
  <2>4. BootOK'
    BY <1>4 DEF IInv, BootOK, SkipStale, Drop, slotVars
  <2> QED BY <2>1, <2>2, <2>3, <2>4 DEF IInv
<1>5. ASSUME ReturnReservation(h) PROVE IInv'
  <2>1. TypeOK'
    BY <1>5 DEF IInv, TypeOK, ReturnReservation, Drop, slotVars
  <2>2. ASSUME NEW t \in Slots PROVE SlotOK(t)'
    BY <1>1, <1>5 DEF ReturnReservation, SlotOK, ProcessOK, BudgetOK, slotVars, Drop
  <2>3. ASSUME NEW g \in Leases PROVE LeaseOK(g)'
    BY <1>5
       DEF IInv, TypeOK, ReturnReservation, LeaseOK, HandleOK, UnusedOK, ExchangeOK, EndedWellOK,
           LateOK, IsCurrent, slotVars, Drop
  <2>4. BootOK'
    BY <1>5 DEF IInv, BootOK, ReturnReservation, Drop, slotVars
  <2> QED BY <2>1, <2>2, <2>3, <2>4 DEF IInv
<1>6. ASSUME Abandon(h) PROVE IInv'
  <2>1. TypeOK'
    BY <1>6 DEF IInv, TypeOK, Abandon, Drop, slotVars
  <2>2. ASSUME NEW t \in Slots PROVE SlotOK(t)'
    BY <1>1, <1>6 DEF Abandon, SlotOK, ProcessOK, BudgetOK, slotVars, Drop
  <2>3. ASSUME NEW g \in Leases PROVE LeaseOK(g)'
    BY <1>6
       DEF IInv, TypeOK, Abandon, LeaseOK, HandleOK, UnusedOK, ExchangeOK, EndedWellOK, LateOK,
           IsCurrent, slotVars, Drop
  <2>4. BootOK'
    BY <1>6 DEF IInv, BootOK, Abandon, Drop, slotVars
  <2> QED BY <2>1, <2>2, <2>3, <2>4 DEF IInv
<1>7. ASSUME Receive(h) PROVE IInv'
  <2>1. TypeOK'
    BY <1>7 DEF IInv, TypeOK, Receive, slotVars
  <2>2. ASSUME NEW t \in Slots PROVE SlotOK(t)'
    BY <1>1, <1>7 DEF Receive, SlotOK, ProcessOK, BudgetOK, slotVars
  <2>3. ASSUME NEW g \in Leases PROVE LeaseOK(g)'
    BY <1>2, <1>7
       DEF IInv, TypeOK, Receive, LeaseOK, HandleOK, UnusedOK, ExchangeOK, EndedWellOK, LateOK,
           IsCurrent, slotVars, Visible, Replies, Listening, Current
  <2>4. BootOK'
    BY <1>7 DEF IInv, BootOK, Receive, slotVars
  <2> QED BY <2>1, <2>2, <2>3, <2>4 DEF IInv
<1>8. ASSUME NEW cmd \in Commands, Request(h, cmd) PROVE IInv'
  <2>1. TypeOK'
    BY <1>8 DEF IInv, TypeOK, Request, slotVars
  <2>2. ASSUME NEW t \in Slots PROVE SlotOK(t)'
    BY <1>1, <1>8 DEF Request, SlotOK, ProcessOK, BudgetOK, slotVars
  <2>3. ASSUME NEW g \in Leases PROVE LeaseOK(g)'
    BY <1>8
       DEF IInv, TypeOK, Request, LeaseOK, HandleOK, UnusedOK, ExchangeOK, EndedWellOK, LateOK,
           IsCurrent, slotVars
  <2>4. BootOK'
    BY <1>8 DEF IInv, BootOK, Request, slotVars
  <2> QED BY <2>1, <2>2, <2>3, <2>4 DEF IInv
<1> QED BY <1>3, <1>4, <1>5, <1>6, <1>7, <1>8 DEF Client

-----------------------------------------------------------------------------
(* A step of the whole pool. *)

LEMMA PoolStep ==
  ASSUME IInv, BootFails \/ SpawnSupervisors \/ StopPool
  PROVE  IInv'
<1>1. ASSUME NEW t \in Slots PROVE SlotOK(t)
  BY DEF IInv
<1>2. ASSUME NEW h \in Leases
      PROVE  LeaseOK(h) /\ SlotOf(h) \in Slots /\ h[2] \in 1..MaxLeases
  BY LeaseParts DEF IInv
<1>3. CASE BootFails
  <2>1. TypeOK'
    BY <1>3 DEF IInv, TypeOK, BootFails, Phases, leaseVars
  <2>2. ASSUME NEW t \in Slots PROVE SlotOK(t)'
    BY <1>1, <1>3 DEF BootFails, SlotOK, ProcessOK, BudgetOK, Out
  <2>3. ASSUME NEW h \in Leases PROVE LeaseOK(h)'
    BY <1>2, <1>3
       DEF IInv, BootFails, LeaseOK, HandleOK, UnusedOK, ExchangeOK, EndedWellOK, LateOK,
           leaseVars, Out, BootOK
  <2>4. BootOK'
    BY <1>3 DEF BootOK, BootFails
  <2> QED BY <2>1, <2>2, <2>3, <2>4 DEF IInv
<1>4. CASE SpawnSupervisors
  <2>1. TypeOK'
    BY <1>4 DEF IInv, TypeOK, SpawnSupervisors, Phases, leaseVars
  <2>2. ASSUME NEW t \in Slots PROVE SlotOK(t)'
    BY <1>1, <1>4 DEF SpawnSupervisors, SlotOK, ProcessOK, BudgetOK, Out
  <2>3. ASSUME NEW h \in Leases PROVE LeaseOK(h)'
    BY <1>2, <1>4
       DEF SpawnSupervisors, LeaseOK, HandleOK, UnusedOK, ExchangeOK, EndedWellOK, LateOK,
           leaseVars, Out
  <2>4. BootOK'
    BY <1>4 DEF BootOK, SpawnSupervisors
  <2> QED BY <2>1, <2>2, <2>3, <2>4 DEF IInv
<1>5. CASE StopPool
  <2>1. TypeOK'
    BY <1>5 DEF IInv, TypeOK, StopPool, slotVars, leaseVars
  <2>2. ASSUME NEW t \in Slots PROVE SlotOK(t)'
    BY <1>1, <1>5 DEF StopPool, SlotOK, ProcessOK, BudgetOK, slotVars
  <2>3. ASSUME NEW h \in Leases PROVE LeaseOK(h)'
    BY <1>2, <1>5
       DEF StopPool, LeaseOK, HandleOK, UnusedOK, ExchangeOK, EndedWellOK, LateOK, IsCurrent,
           leaseVars, slotVars
  <2>4. BootOK'
    BY <1>5 DEF IInv, BootOK, StopPool, slotVars
  <2> QED BY <2>1, <2>2, <2>3, <2>4 DEF IInv
<1> QED BY <1>3, <1>4, <1>5

LEMMA IInvInit == Init => IInv
<1>. SUFFICES ASSUME Init PROVE IInv
  OBVIOUS
<1>1. TypeOK
  <2>1. 0 \in 0..MaxLeases
    BY PdfiumPoolAssumption
  <2>2. /\ phase \in [Slots -> Phases] /\ lease \in [Slots -> 0..MaxLeases]
        /\ failed \in [Slots -> BOOLEAN] /\ replacement \in [Slots -> BOOLEAN]
        /\ kids \in [Slots -> 0..1] /\ doc \in [Slots -> 0..MaxLeases]
        /\ crashes \in [Slots -> 0..2]
    BY <2>1 DEF Init, Phases
  <2>3. bridge \in [Slots -> {"idle", "callback", "ended"} \cup Commands \cup Replies]
    BY DEF Init
  <2>4. QED BY <2>2, <2>3 DEF Init, TypeOK
<1>2. ASSUME NEW s \in Slots PROVE SlotOK(s)
  BY DEF Init, SlotOK, ProcessOK, BudgetOK, Owed, Out
<1>3. ASSUME NEW h \in Leases PROVE LeaseOK(h)
  BY LeaseParts DEF Init, LeaseOK, HandleOK, UnusedOK, ExchangeOK, EndedWellOK, LateOK
<1> QED BY <1>1, <1>2, <1>3 DEF IInv, BootOK, Init

LEMMA IInvStep == IInv /\ [Next]_vars => IInv'
<1>. SUFFICES ASSUME IInv, [Next]_vars PROVE IInv'
  OBVIOUS
<1>1. ASSUME NEW s \in Slots, SlotNext(s) PROVE IInv'
  BY <1>1, SlotTypes, SlotBoots, SlotProcesses, SlotLeases DEF IInv
<1>2. CASE UNCHANGED vars
  BY <1>2
     DEF IInv, BootOK, vars, slotVars, leaseVars, TypeOK, SlotOK, ProcessOK, BudgetOK, LeaseOK,
         HandleOK,
     UnusedOK, ExchangeOK, EndedWellOK, LateOK, IsCurrent
<1> QED BY <1>1, <1>2, PoolStep, ClientStep DEF Next, SlotNext

-----------------------------------------------------------------------------
(* The theorems. *)

\* The inductive invariant holds in every reachable state of every pool.
THEOREM PoolInvariant == Spec => []IInv
  BY IInvInit, IInvStep, PTL DEF Spec

\* No child ever has a document open that is not its current lease's, no slot has
\* two children, and who holds an unused handle finds a process without a document
\* and a bridge that owes nobody a reply (OneDocumentPerProcess).
THEOREM DocumentsAreIsolated == Spec => []OneDocumentPerProcess
<1>1. IInv => OneDocumentPerProcess
  <2>. SUFFICES ASSUME IInv PROVE OneDocumentPerProcess
    OBVIOUS
  <2>1. ASSUME NEW s \in Slots PROVE doc[s] \in {0, lease[s]}
    BY DEF IInv, SlotOK, ProcessOK
  <2>2. ASSUME NEW h \in Leases, holder[h] \in {"inventory", "reserved"}, Listening(h)
        PROVE  doc[SlotOf(h)] = 0 /\ bridge[SlotOf(h)] = "idle"
    BY <2>2 DEF IInv, LeaseOK, UnusedOK, IsCurrent, Listening, Current, Out
  <2> QED BY <2>1, <2>2 DEF OneDocumentPerProcess, IInv
<1> QED BY <1>1, PoolInvariant, PTL

\* A process that serves a lease is held by somebody, or about to be retired because
\* its lease was cancelled (IdleProcessIsReachable).
THEOREM ProcessesAreReachable == Spec => []IdleProcessIsReachable
<1>1. IInv => IdleProcessIsReachable
  <2>. SUFFICES ASSUME IInv, NEW s \in Slots, phase[s] \in {"serving", "exchanging"}
                PROVE  Current(s) \in cancelled \/ holder[Current(s)] \notin {"none", "gone"}
    BY DEF IdleProcessIsReachable
  <2>1. /\ Current(s) \in Leases /\ LeaseOK(Current(s)) /\ lease[s] \in 0..MaxLeases /\ MaxLeases \in Nat
        /\ SlotOf(Current(s)) = s /\ Current(s)[2] = lease[s]
    BY CurrentParts DEF Out
  <2> QED BY <2>1 DEF LeaseOK, HandleOK
<1> QED BY <1>1, PoolInvariant, PTL

\* A slot is given up exactly on its second failure without a completed document in
\* between (CrashBudget).
THEOREM BudgetIsKept == Spec => []CrashBudget
<1>1. IInv => CrashBudget
  BY DEF IInv, SlotOK, BudgetOK, Owed, CrashBudget
<1> QED BY <1>1, PoolInvariant, PTL

\* A caller that still waits is told how its lease ended, whatever cancellation,
\* replies and retirement race (RepliesOutrankCancellation).
THEOREM CallersLearnTheOutcome == Spec => []RepliesOutrankCancellation
<1>1. IInv => RepliesOutrankCancellation
  <2>. SUFFICES ASSUME IInv, NEW h \in Leases, call[h] # "none"
                PROVE  /\ reply[h] \in {"closed", "rejected"} => Visible(h) = {reply[h]}
                       /\ h \in late => \A raw \in Visible(h) : Reported(h, raw) \in {"recoverable", "closed"}
    BY DEF RepliesOutrankCancellation
  <2>1. LeaseOK(h) /\ SlotOf(h) \in Slots /\ h = <<SlotOf(h), h[2]>>
    BY LeaseParts DEF IInv
  <2>2. Listening(h) <=> IsCurrent(h) /\ phase[SlotOf(h)] \in Out
    BY <2>1 DEF Listening, Current, IsCurrent, Out
  <2>3. reply[h] \in {"closed", "rejected"} => Visible(h) = {reply[h]}
    BY <2>1 DEF LeaseOK, EndedWellOK, Visible, Replies
  <2>4. ASSUME h \in late, h \in unresponsive, NEW raw \in Visible(h)
        PROVE  Reported(h, raw) \in {"recoverable", "closed"}
    BY <2>1, <2>4 DEF LeaseOK, LateOK, Visible, Reported, Replies
  <2>5. ASSUME h \in late, h \notin unresponsive PROVE Visible(h) = {}
    BY <2>1, <2>2, <2>5 DEF LeaseOK, LateOK, ExchangeOK, HandleOK, Visible, Out, Replies
  <2> QED BY <2>3, <2>4, <2>5
<1> QED BY <1>1, PoolInvariant, PTL
=============================================================================
