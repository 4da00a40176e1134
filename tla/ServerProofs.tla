---------------------------- MODULE ServerProofs ----------------------------
(***************************************************************************)
(* Proofs about a server process, for any uploads, keys, contents, permits  *)
(* and processes: what it has accepted is durable, and it leaves in order   *)
(* unless a service failed or its worker loop panicked.  And about the      *)
(* subscriptions to a job, for any clients, channels and row versions: what *)
(* a stream shows never goes back, and no stream ends without an outcome.   *)
(***************************************************************************)
EXTENDS Services, Subscriptions, TLAPS

\* The process ends because a service failed or the worker loop panicked.
Broken == fault \/ worker = "panicked"

\* Where main is tells which services have ended, and in which order.
MainOK ==
  /\ main # "services" /\ ~Broken => serving = "ended" /\ worker = "done" /\ token
  /\ main \in {"draining", "dropping", "exited"} /\ ~Broken => pool = "closed"
  /\ worker = "panicked" => main \in {"dropping", "exited"}

\* The services stop for a signal only: the HTTP server after its last connection, the
\* worker after its last task, whose outcome it has seen.
ServicesOK ==
  /\ serving \in {"draining", "ended"} \/ worker = "done" => token
  /\ serving = "ended" => \A u \in Uploads : upload[u] \notin Open
  /\ worker = "done" => Tasks = {}
  /\ \A k \in Keys : attempt[k] = "cut" => Broken

\* Requests are cut off by a broken process only, and a process that leaves in order
\* leaves nothing in the CPU pool.
UploadsOK ==
  /\ \A u \in Uploads : upload[u] = "cut" => Broken
  /\ main \in {"dropping", "exited"} /\ ~Broken => \A u \in Uploads : cpu[u] = "none"

\* A row has an input, an upload that submits has published its own, and the row of an
\* accepted upload holds its content.
DurableOK ==
  /\ \A u \in Uploads : upload[u] = "submitting" => Content(u) \in inputs
  /\ \A u \in Uploads : upload[u] = "accepted" => rows[Key(u)] = Content(u)
  /\ \A k \in Keys : rows[k] # Nothing => rows[k] \in inputs

IInv == TypeOK /\ MainOK /\ ServicesOK /\ UploadsOK /\ DurableOK

\* What an upload asks for.
LEMMA Asked ==
  ASSUME TypeOK, NEW u \in Uploads
  PROVE  Key(u) \in Keys /\ Content(u) \in Contents /\ Content(u) # Nothing
  BY ServicesAssumption DEF TypeOK, Key, Content

-----------------------------------------------------------------------------
(* The services and their end. *)

LEMMA SignalKeeps ==
  ASSUME IInv, Signal
  PROVE  IInv'
<1>1. TypeOK'
  BY DEF IInv, TypeOK, Signal, processVars, workerVars, uploadVars
<1>2. MainOK'
  BY DEF IInv, MainOK, Signal, processVars, workerVars
<1>3. ServicesOK'
  BY DEF IInv, ServicesOK, Broken, Signal, processVars, workerVars
<1>4. UploadsOK'
  BY DEF IInv, UploadsOK, Broken, Signal, processVars, workerVars, uploadVars
<1>5. DurableOK'
  BY DEF IInv, DurableOK, Key, Content, Signal, uploadVars
<1> QED BY <1>1, <1>2, <1>3, <1>4, <1>5 DEF IInv

LEMMA PoolStopsKeeps ==
  ASSUME IInv, PoolStops
  PROVE  IInv'
<1>1. TypeOK'
  BY DEF IInv, TypeOK, PoolStops, workerVars, uploadVars
<1>2. MainOK'
  BY DEF IInv, MainOK, PoolStops, workerVars
<1>3. ServicesOK'
  BY DEF IInv, ServicesOK, Broken, Tasks, PoolStops, workerVars, uploadVars
<1>4. UploadsOK'
  BY DEF IInv, UploadsOK, Broken, PoolStops, workerVars, uploadVars
<1>5. DurableOK'
  BY DEF IInv, DurableOK, Key, Content, PoolStops, uploadVars
<1> QED BY <1>1, <1>2, <1>3, <1>4, <1>5 DEF IInv

LEMMA FailKeeps ==
  ASSUME IInv, Fail
  PROVE  IInv'
<1>1. TypeOK'
  BY DEF IInv, TypeOK, Fail, Abort, uploadVars
<1>2. MainOK'
  BY DEF MainOK, Broken, Fail
<1>3. ServicesOK'
  BY DEF IInv, ServicesOK, Broken, Tasks, InSet, Fail, Abort
<1>4. UploadsOK'
  BY DEF UploadsOK, Broken, Fail
<1>5. DurableOK'
  BY DEF IInv, DurableOK, Key, Content, Fail, uploadVars
<1> QED BY <1>1, <1>2, <1>3, <1>4, <1>5 DEF IInv

LEMMA BindKeeps ==
  ASSUME IInv, Bind
  PROVE  IInv'
<1>1. TypeOK'
  BY DEF IInv, TypeOK, Bind, workerVars, uploadVars
<1>2. MainOK'
  BY DEF IInv, MainOK, Bind, workerVars
<1>3. ServicesOK'
  BY DEF IInv, ServicesOK, Broken, Tasks, Bind, workerVars
<1>4. UploadsOK'
  BY DEF IInv, UploadsOK, Broken, Bind, workerVars, uploadVars
<1>5. DurableOK'
  BY DEF IInv, DurableOK, Key, Content, Bind, uploadVars
<1> QED BY <1>1, <1>2, <1>3, <1>4, <1>5 DEF IInv

LEMMA StopListeningKeeps ==
  ASSUME IInv, StopListening
  PROVE  IInv'
<1>1. TypeOK'
  BY DEF IInv, TypeOK, StopListening, workerVars, uploadVars
<1>2. MainOK'
  BY DEF IInv, MainOK, StopListening, workerVars
<1>3. ServicesOK'
  BY DEF IInv, ServicesOK, Broken, Tasks, StopListening, workerVars
<1>4. UploadsOK'
  BY DEF IInv, UploadsOK, Broken, StopListening, workerVars, uploadVars
<1>5. DurableOK'
  BY DEF IInv, DurableOK, Key, Content, StopListening, uploadVars
<1> QED BY <1>1, <1>2, <1>3, <1>4, <1>5 DEF IInv

LEMMA ServingEndsKeeps ==
  ASSUME IInv, ServingEnds
  PROVE  IInv'
<1>1. TypeOK'
  BY DEF IInv, TypeOK, ServingEnds, workerVars, uploadVars
<1>2. MainOK'
  BY DEF IInv, MainOK, ServingEnds, workerVars
<1>3. ServicesOK'
  BY DEF IInv, ServicesOK, Broken, Tasks, ServingEnds, workerVars, uploadVars
<1>4. UploadsOK'
  BY DEF IInv, UploadsOK, Broken, ServingEnds, workerVars, uploadVars
<1>5. DurableOK'
  BY DEF IInv, DurableOK, Key, Content, ServingEnds, uploadVars
<1> QED BY <1>1, <1>2, <1>3, <1>4, <1>5 DEF IInv

LEMMA ServicesEndKeeps ==
  ASSUME IInv, ServicesEnd
  PROVE  IInv'
<1>1. TypeOK'
  BY DEF IInv, TypeOK, ServicesEnd, workerVars, uploadVars
<1>2. MainOK'
  BY DEF MainOK, ServicesEnd, workerVars
<1>3. ServicesOK'
  BY DEF IInv, ServicesOK, Broken, Tasks, ServicesEnd, workerVars, uploadVars
<1>4. UploadsOK'
  BY DEF IInv, UploadsOK, Broken, ServicesEnd, uploadVars
<1>5. DurableOK'
  BY DEF IInv, DurableOK, Key, Content, ServicesEnd, uploadVars
<1> QED BY <1>1, <1>2, <1>3, <1>4, <1>5 DEF IInv

LEMMA ClosePoolKeeps ==
  ASSUME IInv, ClosePool
  PROVE  IInv'
<1>1. TypeOK'
  BY DEF IInv, TypeOK, ClosePool, workerVars, uploadVars
<1>2. MainOK'
  BY DEF IInv, MainOK, Broken, ClosePool, workerVars
<1>3. ServicesOK'
  BY DEF IInv, ServicesOK, Broken, Tasks, ClosePool, workerVars, uploadVars
<1>4. UploadsOK'
  BY DEF IInv, UploadsOK, Broken, ClosePool, workerVars, uploadVars
<1>5. DurableOK'
  BY DEF IInv, DurableOK, Key, Content, ClosePool, uploadVars
<1> QED BY <1>1, <1>2, <1>3, <1>4, <1>5 DEF IInv

LEMMA DrainedKeeps ==
  ASSUME IInv, Drained
  PROVE  IInv'
<1>1. TypeOK'
  BY DEF IInv, TypeOK, Drained, DropRuntime, workerVars
<1>2. MainOK'
  BY DEF IInv, MainOK, Broken, Drained, workerVars
<1>3. ServicesOK'
  BY DEF IInv, ServicesOK, Broken, Tasks, Open, Drained, DropRuntime, workerVars
<1>4. UploadsOK'
  BY DEF IInv, MainOK, ServicesOK, UploadsOK, Broken, Open, Drained, DropRuntime
<1>5. DurableOK'
  BY DEF IInv, DurableOK, Key, Content, Drained, DropRuntime
<1> QED BY <1>1, <1>2, <1>3, <1>4, <1>5 DEF IInv

LEMMA ExitKeeps ==
  ASSUME IInv, Exit
  PROVE  IInv'
<1>1. TypeOK'
  BY DEF IInv, TypeOK, Exit, workerVars, uploadVars
<1>2. MainOK'
  BY DEF IInv, MainOK, Broken, Exit, workerVars
<1>3. ServicesOK'
  BY DEF IInv, ServicesOK, Broken, Tasks, Exit, workerVars, uploadVars
<1>4. UploadsOK'
  BY DEF IInv, UploadsOK, Broken, Exit, workerVars, uploadVars
<1>5. DurableOK'
  BY DEF IInv, DurableOK, Key, Content, Exit, uploadVars
<1> QED BY <1>1, <1>2, <1>3, <1>4, <1>5 DEF IInv

-----------------------------------------------------------------------------
(* The worker loop. *)

LEMMA TopKeeps ==
  ASSUME IInv, Top
  PROVE  IInv'
<1>1. TypeOK'
  BY DEF IInv, TypeOK, Top, Goto, processVars, uploadVars
<1>2. MainOK'
  BY DEF MainOK, Running, Top, Goto, processVars
<1>3. ServicesOK'
  BY DEF IInv, ServicesOK, Broken, Tasks, Top, Goto, processVars, uploadVars
<1>4. UploadsOK'
  BY DEF IInv, UploadsOK, Broken, Top, Goto, processVars, uploadVars
<1>5. DurableOK'
  BY DEF IInv, DurableOK, Key, Content, Top, Goto, uploadVars
<1> QED BY <1>1, <1>2, <1>3, <1>4, <1>5 DEF IInv

LEMMA FirstKeeps ==
  ASSUME IInv, First
  PROVE  IInv'
<1>1. TypeOK'
  BY DEF IInv, TypeOK, First, Goto, processVars, uploadVars
<1>2. MainOK'
  BY DEF MainOK, Running, First, Goto, processVars
<1>3. ServicesOK'
  BY DEF IInv, ServicesOK, Broken, First, Goto, processVars, uploadVars
<1>4. UploadsOK'
  BY DEF IInv, UploadsOK, Broken, First, Goto, processVars, uploadVars
<1>5. DurableOK'
  BY DEF IInv, DurableOK, Key, Content, First, Goto, uploadVars
<1> QED BY <1>1, <1>2, <1>3, <1>4, <1>5 DEF IInv

LEMMA SecondKeeps ==
  ASSUME IInv, Second
  PROVE  IInv'
<1>1. TypeOK'
  BY DEF IInv, TypeOK, Second, Goto, processVars, uploadVars
<1>2. MainOK'
  BY DEF MainOK, Running, Second, Goto, processVars
<1>3. ServicesOK'
  BY DEF IInv, ServicesOK, Broken, Second, Goto, processVars, uploadVars
<1>4. UploadsOK'
  BY DEF IInv, UploadsOK, Broken, Second, Goto, processVars, uploadVars
<1>5. DurableOK'
  BY DEF IInv, DurableOK, Key, Content, Second, Goto, uploadVars
<1> QED BY <1>1, <1>2, <1>3, <1>4, <1>5 DEF IInv

LEMMA AllDisabledKeeps ==
  ASSUME IInv, AllDisabled
  PROVE  IInv'
<1>1. TypeOK'
  BY DEF IInv, TypeOK, AllDisabled, Abort, DropRuntime
<1>2. MainOK'
  BY DEF MainOK, Broken, AllDisabled, DropRuntime
<1>3. ServicesOK'
  BY DEF ServicesOK, Broken, Open, Handled, AllDisabled, DropRuntime
<1>4. UploadsOK'
  BY DEF UploadsOK, Broken, AllDisabled
<1>5. DurableOK'
  BY DEF IInv, DurableOK, Key, Content, AllDisabled, DropRuntime
<1> QED BY <1>1, <1>2, <1>3, <1>4, <1>5 DEF IInv

LEMMA NoticeKeeps ==
  ASSUME IInv, Notice
  PROVE  IInv'
<1>1. TypeOK'
  BY DEF IInv, TypeOK, Notice, Goto, processVars, uploadVars
<1>2. MainOK'
  BY DEF MainOK, Running, Notice, Goto, processVars
<1>3. ServicesOK'
  BY DEF IInv, ServicesOK, Broken, Notice, Goto, processVars, uploadVars
<1>4. UploadsOK'
  BY DEF IInv, UploadsOK, Broken, Notice, Goto, processVars, uploadVars
<1>5. DurableOK'
  BY DEF IInv, DurableOK, Key, Content, Notice, Goto, uploadVars
<1> QED BY <1>1, <1>2, <1>3, <1>4, <1>5 DEF IInv

LEMMA ReserveKeeps ==
  ASSUME IInv, Reserve
  PROVE  IInv'
<1>1. TypeOK'
  BY DEF IInv, TypeOK, Reserve, Goto, processVars, uploadVars
<1>2. MainOK'
  BY DEF MainOK, Running, Reserve, Goto, processVars
<1>3. ServicesOK'
  BY DEF IInv, ServicesOK, Broken, Reserve, Goto, processVars, uploadVars
<1>4. UploadsOK'
  BY DEF IInv, UploadsOK, Broken, Reserve, Goto, processVars, uploadVars
<1>5. DurableOK'
  BY DEF IInv, DurableOK, Key, Content, Reserve, Goto, uploadVars
<1> QED BY <1>1, <1>2, <1>3, <1>4, <1>5 DEF IInv

LEMMA ClaimNothingKeeps ==
  ASSUME IInv, ClaimNothing
  PROVE  IInv'
<1>1. TypeOK'
  BY DEF IInv, TypeOK, ClaimNothing, Goto, processVars, uploadVars
<1>2. MainOK'
  BY DEF MainOK, Running, ClaimNothing, Goto, processVars
<1>3. ServicesOK'
  BY DEF IInv, ServicesOK, Broken, ClaimNothing, Goto, processVars, uploadVars
<1>4. UploadsOK'
  BY DEF IInv, UploadsOK, Broken, ClaimNothing, Goto, processVars, uploadVars
<1>5. DurableOK'
  BY DEF IInv, DurableOK, Key, Content, ClaimNothing, Goto, uploadVars
<1> QED BY <1>1, <1>2, <1>3, <1>4, <1>5 DEF IInv

LEMMA JoinKeeps ==
  ASSUME IInv, NEW k \in Keys, Join(k)
  PROVE  IInv'
<1>1. TypeOK'
  BY DEF IInv, TypeOK, Join, Goto, processVars, uploadVars
<1>2. MainOK'
  BY DEF MainOK, Running, Join, Goto, processVars
<1>3. ServicesOK'
  BY DEF IInv, ServicesOK, Broken, Join, Goto, processVars, uploadVars
<1>4. UploadsOK'
  BY DEF IInv, UploadsOK, Broken, Join, Goto, processVars, uploadVars
<1>5. DurableOK'
  BY DEF IInv, DurableOK, Key, Content, Join, Goto, uploadVars
<1> QED BY <1>1, <1>2, <1>3, <1>4, <1>5 DEF IInv

LEMMA ClaimKeeps ==
  ASSUME IInv, NEW k \in Keys, Claim(k)
  PROVE  IInv'
<1>1. TypeOK'
  BY DEF IInv, TypeOK, InSet, Claim, Goto, processVars, uploadVars
<1>2. MainOK'
  BY DEF MainOK, Running, Claim, Goto, processVars
<1>3. ServicesOK'
  BY DEF IInv, ServicesOK, Broken, Claim, Goto, processVars, uploadVars
<1>4. UploadsOK'
  BY DEF IInv, TypeOK, MainOK, ServicesOK, UploadsOK, Broken, Running, Open, Handled, Claim, Goto,
         processVars, workerVars, uploadVars
<1>5. DurableOK'
  BY DEF IInv, DurableOK, Key, Content, Claim, Goto, uploadVars
<1> QED BY <1>1, <1>2, <1>3, <1>4, <1>5 DEF IInv

LEMMA DropClaimKeeps ==
  ASSUME IInv, NEW k \in Keys, DropClaim(k)
  PROVE  IInv'
<1>1. TypeOK'
  BY DEF IInv, TypeOK, DropClaim, Goto, processVars, uploadVars
<1>2. MainOK'
  BY DEF MainOK, Running, DropClaim, Goto, processVars
<1>3. ServicesOK'
  BY DEF IInv, ServicesOK, Broken, DropClaim, Goto, processVars, uploadVars
<1>4. UploadsOK'
  BY DEF IInv, TypeOK, MainOK, ServicesOK, UploadsOK, Broken, Running, Open, Handled, DropClaim,
         Goto, processVars, workerVars, uploadVars
<1>5. DurableOK'
  BY DEF IInv, DurableOK, Key, Content, DropClaim, Goto, uploadVars
<1> QED BY <1>1, <1>2, <1>3, <1>4, <1>5 DEF IInv

LEMMA ProceedKeeps ==
  ASSUME IInv, NEW k \in Keys, Proceed(k)
  PROVE  IInv'
<1>1. TypeOK'
  BY DEF IInv, TypeOK, InSet, Proceed, processVars, uploadVars
<1>2. MainOK'
  BY DEF IInv, MainOK, Broken, Proceed, processVars
<1>3. ServicesOK'
  BY DEF IInv, ServicesOK, Broken, Tasks, InSet, Proceed, processVars, uploadVars
<1>4. UploadsOK'
  BY DEF IInv, UploadsOK, Broken, Proceed, processVars, uploadVars
<1>5. DurableOK'
  BY DEF IInv, DurableOK, Key, Content, Proceed, uploadVars
<1> QED BY <1>1, <1>2, <1>3, <1>4, <1>5 DEF IInv

-----------------------------------------------------------------------------
(* Uploads. *)

LEMMA ConnectKeeps ==
  ASSUME IInv, NEW u \in Uploads, Connect(u)
  PROVE  IInv'
<1>1. TypeOK'
  BY DEF IInv, TypeOK, Open, ServerUnchanged, Connect, processVars, workerVars
<1>2. MainOK'
  BY DEF IInv, MainOK, Broken, ServerUnchanged, Connect, processVars, workerVars
<1>3. ServicesOK'
  BY DEF IInv, ServicesOK, Broken, Tasks, ServerUnchanged, Connect, processVars, workerVars
<1>4. UploadsOK'
  BY DEF IInv, UploadsOK, Broken, ServerUnchanged, Connect, processVars, workerVars
<1>5. DurableOK'
  BY DEF IInv, DurableOK, Key, Content, ServerUnchanged, Connect
<1> QED BY <1>1, <1>2, <1>3, <1>4, <1>5 DEF IInv

LEMMA HangUpKeeps ==
  ASSUME IInv, NEW u \in Uploads, HangUp(u)
  PROVE  IInv'
<1>1. TypeOK'
  BY DEF IInv, TypeOK, ServerUnchanged, HangUp, processVars, workerVars
<1>2. MainOK'
  BY DEF IInv, MainOK, Broken, ServerUnchanged, HangUp, processVars, workerVars
<1>3. ServicesOK'
  BY DEF IInv, ServicesOK, Broken, Tasks, Open, ServerUnchanged, HangUp, processVars, workerVars
<1>4. UploadsOK'
  BY DEF IInv, UploadsOK, Broken, ServerUnchanged, HangUp, processVars, workerVars
<1>5. DurableOK'
  BY DEF IInv, DurableOK, Key, Content, ServerUnchanged, HangUp
<1> QED BY <1>1, <1>2, <1>3, <1>4, <1>5 DEF IInv

LEMMA BeginKeeps ==
  ASSUME IInv, NEW u \in Uploads, Begin(u)
  PROVE  IInv'
<1>1. TypeOK'
  BY DEF IInv, TypeOK, Open, Handled, ServerUnchanged, Begin, processVars, workerVars
<1>2. MainOK'
  BY DEF IInv, MainOK, Broken, ServerUnchanged, Begin, processVars, workerVars
<1>3. ServicesOK'
  BY DEF IInv, ServicesOK, Broken, Tasks, Open, ServerUnchanged, Begin, processVars, workerVars
<1>4. UploadsOK'
  BY DEF IInv, UploadsOK, Broken, ServerUnchanged, Begin, processVars, workerVars
<1>5. DurableOK'
  BY DEF IInv, DurableOK, Key, Content, ServerUnchanged, Begin
<1> QED BY <1>1, <1>2, <1>3, <1>4, <1>5 DEF IInv

LEMMA BodyEndsKeeps ==
  ASSUME IInv, NEW u \in Uploads, BodyEnds(u)
  PROVE  IInv'
<1>1. TypeOK'
  BY DEF IInv, TypeOK, Open, Handled, ServerUnchanged, BodyEnds, processVars, workerVars
<1>2. MainOK'
  BY DEF IInv, MainOK, Broken, ServerUnchanged, BodyEnds, processVars, workerVars
<1>3. ServicesOK'
  BY DEF IInv, ServicesOK, Broken, Tasks, Open, Handled, ServerUnchanged, BodyEnds, processVars,
         workerVars
<1>4. UploadsOK'
  BY DEF IInv, UploadsOK, Broken, Alive, ServerUnchanged, BodyEnds, processVars, workerVars
<1>5. DurableOK'
  BY DEF IInv, DurableOK, Key, Content, ServerUnchanged, BodyEnds
<1> QED BY <1>1, <1>2, <1>3, <1>4, <1>5 DEF IInv

LEMMA CollectKeeps ==
  ASSUME IInv, NEW u \in Uploads, Collect(u)
  PROVE  IInv'
<1>1. TypeOK'
  BY DEF IInv, TypeOK, Open, Handled, ServerUnchanged, Collect, processVars, workerVars
<1>2. MainOK'
  BY DEF IInv, MainOK, Broken, ServerUnchanged, Collect, processVars, workerVars
<1>3. ServicesOK'
  BY DEF IInv, ServicesOK, Broken, Tasks, Open, Handled, ServerUnchanged, Collect, processVars,
         workerVars
<1>4. UploadsOK'
  BY DEF IInv, UploadsOK, Broken, ServerUnchanged, Collect, processVars, workerVars
<1>5. DurableOK'
  BY DEF IInv, DurableOK, Key, Content, ServerUnchanged, Collect
<1> QED BY <1>1, <1>2, <1>3, <1>4, <1>5 DEF IInv

LEMMA StoredKeeps ==
  ASSUME IInv, NEW u \in Uploads, Stored(u)
  PROVE  IInv'
<1>1. TypeOK'
  BY Asked DEF IInv, TypeOK, Open, Handled, ServerUnchanged, Stored, processVars, workerVars
<1>2. MainOK'
  BY DEF IInv, MainOK, Broken, ServerUnchanged, Stored, processVars, workerVars
<1>3. ServicesOK'
  BY DEF IInv, ServicesOK, Broken, Tasks, Open, Handled, ServerUnchanged, Stored, processVars,
         workerVars
<1>4. UploadsOK'
  BY DEF IInv, UploadsOK, Broken, ServerUnchanged, Stored, processVars, workerVars
<1>5. DurableOK'
  BY DEF IInv, DurableOK, Key, Content, ServerUnchanged, Stored
<1> QED BY <1>1, <1>2, <1>3, <1>4, <1>5 DEF IInv

LEMMA StoreFailsKeeps ==
  ASSUME IInv, NEW u \in Uploads, StoreFails(u)
  PROVE  IInv'
<1>1. TypeOK'
  BY DEF IInv, TypeOK, ServerUnchanged, StoreFails, processVars, workerVars
<1>2. MainOK'
  BY DEF IInv, MainOK, Broken, ServerUnchanged, StoreFails, processVars, workerVars
<1>3. ServicesOK'
  BY DEF IInv, ServicesOK, Broken, Tasks, Open, Handled, ServerUnchanged, StoreFails, processVars,
         workerVars
<1>4. UploadsOK'
  BY DEF IInv, UploadsOK, Broken, ServerUnchanged, StoreFails, processVars, workerVars
<1>5. DurableOK'
  BY DEF IInv, DurableOK, Key, Content, ServerUnchanged, StoreFails
<1> QED BY <1>1, <1>2, <1>3, <1>4, <1>5 DEF IInv

\* The row of an upload that submits: a row that exists stays.
LEMMA RowsStay ==
  ASSUME IInv, NEW u \in Uploads, rows' \in {rows, Inserted(u)}
  PROVE  /\ rows' \in [Keys -> Contents \cup {Nothing}]
         /\ \A k \in Keys : rows[k] # Nothing => rows'[k] = rows[k]
         /\ \A k \in Keys : rows'[k] \in {rows[k], Content(u)}
         /\ rows' = Inserted(u) => rows'[Key(u)] # Nothing
<1>1. rows \in [Keys -> Contents \cup {Nothing}]
  BY DEF IInv, TypeOK
<1>2. Key(u) \in Keys /\ Content(u) \in Contents /\ Content(u) # Nothing
  BY Asked DEF IInv
<1>3. CASE rows' = rows
  BY <1>1, <1>2 DEF Inserted
<1>4. CASE rows' = Inserted(u)
  BY <1>1, <1>2 DEF Inserted
<1> QED BY <1>3, <1>4

LEMMA DurableStays ==
  ASSUME IInv, NEW u \in Uploads, rows' \in {rows, Inserted(u)}, UNCHANGED <<asked, inputs>>,
         rows' # rows => upload[u] = "submitting",
         upload'[u] = "accepted" => rows'[Key(u)] = Content(u), upload'[u] # "submitting",
         \A v \in Uploads \ {u} : upload'[v] = upload[v]
  PROVE  DurableOK'
<1>1. /\ \A k \in Keys : rows[k] # Nothing => rows'[k] = rows[k]
      /\ \A k \in Keys : rows'[k] \in {rows[k], Content(u)}
  BY RowsStay
<1>2. \A v \in Uploads : Key(v) \in Keys /\ Content(v) \in Contents /\ Content(v) # Nothing
  BY Asked DEF IInv
<1>3. \A v \in Uploads : Key(v)' = Key(v) /\ Content(v)' = Content(v)
  BY DEF Key, Content
<1>4. \A v \in Uploads : upload'[v] = "submitting" => Content(v)' \in inputs'
  BY <1>3 DEF IInv, DurableOK
<1>5. \A v \in Uploads : upload'[v] = "accepted" => rows'[Key(v)'] = Content(v)'
  <2>1. ASSUME NEW v \in Uploads, v # u, upload'[v] = "accepted" PROVE rows'[Key(v)] = Content(v)
    BY <1>1, <1>2, <2>1 DEF IInv, DurableOK
  <2> QED BY <1>3, <2>1
<1>6. \A k \in Keys : rows'[k] # Nothing => rows'[k] \in inputs'
  <2>1. CASE rows' = rows
    BY <2>1 DEF IInv, DurableOK
  <2>2. CASE rows' # rows
    <3>1. Content(u) \in inputs
      BY <2>2 DEF IInv, DurableOK
    <3> QED BY <1>1 DEF IInv, DurableOK
  <2> QED BY <2>1, <2>2
<1> QED BY <1>4, <1>5, <1>6 DEF DurableOK

LEMMA SubmitKeeps ==
  ASSUME IInv, NEW u \in Uploads, Submit(u)
  PROVE  IInv'
<1>0. rows' \in {rows, Inserted(u)}
  BY DEF Submit
<1>1. TypeOK'
  BY RowsStay DEF IInv, TypeOK, ServerUnchanged, Submit, processVars, workerVars
<1>2. MainOK'
  BY DEF IInv, MainOK, Broken, ServerUnchanged, Submit, processVars, workerVars
<1>3. ServicesOK'
  BY DEF IInv, ServicesOK, Broken, Tasks, Open, Handled, ServerUnchanged, Submit, processVars,
         workerVars
<1>4. UploadsOK'
  BY DEF IInv, UploadsOK, Broken, ServerUnchanged, Submit, processVars, workerVars
<1>5. DurableOK'
  BY DurableStays DEF IInv, TypeOK, ServerUnchanged, Submit
<1> QED BY <1>1, <1>2, <1>3, <1>4, <1>5 DEF IInv

LEMMA LeaveKeeps ==
  ASSUME IInv, NEW u \in Uploads, Leave(u)
  PROVE  IInv'
<1>0. rows' \in {rows, Inserted(u)}
  BY DEF Leave, Dropped
<1>1. TypeOK'
  BY RowsStay DEF IInv, TypeOK, ServerUnchanged, Leave, Dropped, processVars, workerVars
<1>2. MainOK'
  BY DEF IInv, MainOK, Broken, ServerUnchanged, Leave, Dropped, processVars, workerVars
<1>3. ServicesOK'
  BY DEF IInv, ServicesOK, Broken, Tasks, Open, ServerUnchanged, Leave, Dropped, processVars,
         workerVars
<1>4. UploadsOK'
  BY DEF IInv, UploadsOK, Broken, ServerUnchanged, Leave, Dropped, processVars, workerVars
<1>5. DurableOK'
  BY DurableStays DEF IInv, TypeOK, ServerUnchanged, Leave, Dropped
<1> QED BY <1>1, <1>2, <1>3, <1>4, <1>5 DEF IInv

LEMMA RunCpuKeeps ==
  ASSUME IInv, NEW u \in Uploads, RunCpu(u)
  PROVE  IInv'
<1>1. TypeOK'
  BY DEF IInv, TypeOK, ServerUnchanged, RunCpu, processVars, workerVars
<1>2. MainOK'
  BY DEF IInv, MainOK, Broken, ServerUnchanged, RunCpu, processVars, workerVars
<1>3. ServicesOK'
  BY DEF IInv, ServicesOK, Broken, Tasks, ServerUnchanged, RunCpu, processVars, workerVars
<1>4. UploadsOK'
  BY DEF IInv, UploadsOK, Broken, ServerUnchanged, RunCpu, processVars, workerVars
<1>5. DurableOK'
  BY DEF IInv, DurableOK, Key, Content, ServerUnchanged, RunCpu
<1> QED BY <1>1, <1>2, <1>3, <1>4, <1>5 DEF IInv

-----------------------------------------------------------------------------
(* The theorems. *)

LEMMA InitHolds == Init => IInv
  BY ServicesAssumption DEF Init, IInv, TypeOK, MainOK, ServicesOK, UploadsOK, DurableOK, Broken,
     Tasks, InSet, Open, Handled, Key, Content

LEMMA StutterKeeps ==
  ASSUME IInv, UNCHANGED vars
  PROVE  IInv'
<1>1. UNCHANGED <<token, main, fault, serving, worker, armed, pool, attempt, asked, upload, cpu,
                  storing, inputs, rows>>
  BY DEF vars, processVars, workerVars, uploadVars
<1> QED BY <1>1 DEF IInv, TypeOK, MainOK, ServicesOK, UploadsOK, DurableOK, Broken, Tasks, Key,
                    Content

LEMMA StepKeeps == IInv /\ [Next]_vars => IInv'
<1>. SUFFICES ASSUME IInv, [Next]_vars PROVE IInv'
  OBVIOUS
<1>1. CASE UNCHANGED vars
  BY <1>1, StutterKeeps
<1>2. CASE Signal \/ PoolStops
  BY <1>2, SignalKeeps, PoolStopsKeeps
<1>3. CASE Process
  BY <1>3, BindKeeps, FailKeeps, StopListeningKeeps, ServingEndsKeeps, ServicesEndKeeps,
     ClosePoolKeeps, DrainedKeeps, ExitKeeps DEF Process, BindFails, PoolIsMissed
<1>4. CASE WorkerLoop
  BY <1>4, TopKeeps, FirstKeeps, SecondKeeps, AllDisabledKeeps, NoticeKeeps, ReserveKeeps,
     FailKeeps, ClaimNothingKeeps, JoinKeeps, ClaimKeeps, DropClaimKeeps
    DEF WorkerLoop, ReserveFails
<1>5. ASSUME NEW k \in Keys, Proceed(k) PROVE IInv'
  BY <1>5, ProceedKeeps
<1>6. ASSUME NEW u \in Uploads, UploadStep(u) PROVE IInv'
  BY <1>6, ConnectKeeps, HangUpKeeps, BeginKeeps, BodyEndsKeeps, CollectKeeps, StoredKeeps,
     StoreFailsKeeps, SubmitKeeps, LeaveKeeps, RunCpuKeeps DEF UploadStep
<1> QED BY <1>1, <1>2, <1>3, <1>4, <1>5, <1>6 DEF Next

\* IInv is an invariant, whatever the uploads, keys, contents and limits.
THEOREM ProcessInvariant == Spec => []IInv
  BY InitHolds, StepKeeps, PTL DEF Spec

\* What was answered with 202 has its row and every row its input; and a process that
\* leaves after a signal has answered every request it had begun, joined every attempt it
\* had claimed, closed its pool and emptied its CPU pool, unless its worker loop panicked.
THEOREM AcceptedIsDurable == Spec => []NothingAcceptedIsLost
<1>1. IInv => NothingAcceptedIsLost
  BY DEF IInv, MainOK, ServicesOK, UploadsOK, DurableOK, Broken, NothingAcceptedIsLost
<1> QED BY <1>1, ProcessInvariant, PTL

-----------------------------------------------------------------------------
(* Subscriptions. *)

Listening(k) == stream[k] \in {"first", "open"}

\* A registered channel is polled; the only channel without a poller was made for a
\* terminal row; a channel without an error event holds a version; and a poller leaves
\* for a reason that every listener of its channel can tell.
ChannelsOK ==
  \A c \in Channels :
    /\ registry = c => poller[c] \in {"waiting", "polled", "leaving"}
    /\ poller[c] = "none" => stamp[c] = 0 \/ value[c] = MaxVersion
    /\ stamp[c] = 0 => poller[c] = "none"
    /\ c \notin broken => value[c] \in Versions
    /\ poller[c] \in {"leaving", "gone"} =>
         \/ shutdown \/ c \in broken \/ value[c] = MaxVersion
         \/ \A k \in Clients : Listening(k) /\ chan[k] = c => k \in late

\* What a client has been shown never is ahead of its channel, and an open stream that
\* has seen everything has not seen the end.
StreamsOK ==
  \A k \in Clients :
    /\ stream[k] = "idle" => shown[k] = Failed
    /\ stream[k] = "read" => shown[k] = first[k]
    /\ Listening(k) =>
         /\ chan[k] \in Channels /\ stamp[chan[k]] # 0 /\ seen[k] <= stamp[chan[k]]
         /\ chan[k] \notin broken => shown[k] <= value[chan[k]]
    /\ stream[k] = "open" /\ chan[k] \notin broken /\ seen[k] = stamp[chan[k]] =>
         value[chan[k]] # MaxVersion

StreamInv == StreamsEndWithOutcome /\ ChannelsOK /\ StreamsOK

\* Both writers of a channel move it forward only, and every change is stamped.
LEMMA Raised ==
  ASSUME StreamTypeOK, NEW c \in Channels, NEW v \in Versions, Raise(c, v)
  PROVE  /\ value' \in [Channels -> Versions \cup {Failed}] /\ stamp' \in [Channels -> Nat]
         /\ \A d \in Channels : d # c => value'[d] = value[d] /\ stamp'[d] = stamp[d]
         /\ value'[c] >= value[c] /\ value'[c] >= v /\ value'[c] \in {value[c], v}
         /\ \/ value'[c] = value[c] /\ stamp'[c] = stamp[c]
            \/ value'[c] = v /\ stamp'[c] = stamp[c] + 1
<1> USE DEF StreamTypeOK, Raise
<1>1. value' \in [Channels -> Versions \cup {Failed}] /\ stamp' \in [Channels -> Nat]
  OBVIOUS
<1>2. \A d \in Channels : d # c => value'[d] = value[d] /\ stamp'[d] = stamp[d]
  OBVIOUS
<1>3. CASE v > value[c]
  <2>1. value'[c] = v /\ stamp'[c] = stamp[c] + 1
    BY <1>3
  <2> QED BY DEF Versions, Failed
<1>4. CASE ~(v > value[c])
  <2>1. value'[c] = value[c] /\ stamp'[c] = stamp[c]
    BY <1>4
  <2> QED BY DEF Versions, Failed
<1> QED BY <1>3, <1>4

LEMMA AdvanceKeepsStreams ==
  ASSUME StreamInv, Advance
  PROVE  StreamInv'
<1> USE SubscriptionsAssumption
<1>1. StreamTypeOK'
  BY DEF StreamInv, StreamTypeOK, StreamsEndWithOutcome, Advance, channelVars, clientVars,
         Versions
<1>2. StreamsEndWithOutcome'
  BY <1>1 DEF StreamInv, StreamsEndWithOutcome, Advance, channelVars, clientVars
<1>3. ChannelsOK'
  BY DEF StreamInv, ChannelsOK, Listening, Advance, channelVars, clientVars
<1>4. StreamsOK'
  BY DEF StreamInv, StreamsOK, Listening, Advance, channelVars, clientVars
<1> QED BY <1>2, <1>3, <1>4 DEF StreamInv

LEMMA ShutdownKeepsStreams ==
  ASSUME StreamInv, Shutdown
  PROVE  StreamInv'
<1> USE SubscriptionsAssumption
<1>1. StreamTypeOK'
  BY DEF StreamInv, StreamTypeOK, StreamsEndWithOutcome, Shutdown, channelVars, clientVars
<1>2. StreamsEndWithOutcome'
  BY <1>1 DEF StreamsEndWithOutcome, Shutdown
<1>3. ChannelsOK'
  BY DEF StreamInv, ChannelsOK, Shutdown, channelVars
<1>4. StreamsOK'
  BY DEF StreamInv, StreamsOK, Listening, Shutdown, channelVars, clientVars
<1> QED BY <1>2, <1>3, <1>4 DEF StreamInv

LEMMA ReadRowKeepsStreams ==
  ASSUME StreamInv, NEW k \in Clients, ReadRow(k)
  PROVE  StreamInv'
<1> USE SubscriptionsAssumption
<1>1. StreamTypeOK'
  BY DEF StreamInv, StreamTypeOK, StreamsEndWithOutcome, ReadRow, channelVars
<1>2. StreamsEndWithOutcome'
  BY <1>1 DEF StreamInv, StreamsEndWithOutcome, ReadRow, channelVars
<1>3. ChannelsOK'
  BY DEF StreamInv, ChannelsOK, Listening, ReadRow, channelVars
<1>4. StreamsOK'
  BY <1>1 DEF StreamInv, StreamTypeOK, StreamsOK, Listening, ReadRow, channelVars
<1> QED BY <1>2, <1>3, <1>4 DEF StreamInv

LEMMA JoinChannelKeepsStreams ==
  ASSUME StreamInv, NEW k \in Clients, JoinChannel(k)
  PROVE  StreamInv'
<1> USE SubscriptionsAssumption
<1> DEFINE c == registry
<1>1. /\ c \in Channels /\ first[k] \in Versions /\ stream[k] = "read" /\ Raise(c, first[k])
      /\ chan' = [chan EXCEPT ![k] = c] /\ seen' = [seen EXCEPT ![k] = stamp'[c]]
      /\ stream' = [stream EXCEPT ![k] = "first"]
      /\ late' = IF poller[c] = "leaving" THEN late \cup {k} ELSE late
      /\ UNCHANGED <<row, shutdown, first, shown, gotError, registry, poller, loaded, broken>>
  BY DEF StreamInv, StreamsEndWithOutcome, StreamTypeOK, JoinChannel, Subscribe
<1> HIDE DEF c
<1>2. /\ value' \in [Channels -> Versions \cup {Failed}] /\ stamp' \in [Channels -> Nat]
      /\ \A d \in Channels : d # c => value'[d] = value[d] /\ stamp'[d] = stamp[d]
      /\ value'[c] >= value[c] /\ value'[c] >= first[k] /\ value'[c] \in {value[c], first[k]}
      /\ \/ value'[c] = value[c] /\ stamp'[c] = stamp[c]
         \/ value'[c] = first[k] /\ stamp'[c] = stamp[c] + 1
  BY <1>1, Raised DEF StreamInv, StreamsEndWithOutcome
<1>3. StreamTypeOK'
  BY <1>1, <1>2 DEF StreamInv, StreamsEndWithOutcome, StreamTypeOK
<1>4. StreamsEndWithOutcome'
  BY <1>1, <1>3 DEF StreamInv, StreamsEndWithOutcome
<1>5. ChannelsOK'
  <2>1. SUFFICES ASSUME NEW d \in Channels
        PROVE  /\ registry' = d => poller'[d] \in {"waiting", "polled", "leaving"}
               /\ poller'[d] = "none" => stamp'[d] = 0 \/ value'[d] = MaxVersion
               /\ stamp'[d] = 0 => poller'[d] = "none"
               /\ d \notin broken' => value'[d] \in Versions
               /\ poller'[d] \in {"leaving", "gone"} =>
                    \/ shutdown' \/ d \in broken' \/ value'[d] = MaxVersion
                    \/ \A j \in Clients : Listening(j)' /\ chan'[j] = d => j \in late'
    BY DEF ChannelsOK
  <2>2. /\ registry = d => poller[d] \in {"waiting", "polled", "leaving"}
        /\ poller[d] = "none" => stamp[d] = 0 \/ value[d] = MaxVersion
        /\ stamp[d] = 0 => poller[d] = "none"
        /\ d \notin broken => value[d] \in Versions
    BY DEF StreamInv, ChannelsOK
  <2>3. /\ registry' = d => poller'[d] \in {"waiting", "polled", "leaving"}
        /\ poller'[d] = "none" => stamp'[d] = 0 \/ value'[d] = MaxVersion
        /\ stamp'[d] = 0 => poller'[d] = "none"
        /\ d \notin broken' => value'[d] \in Versions
    <3>1. CASE d = c
      BY <1>1, <1>2, <2>2 DEF c, StreamInv, StreamsEndWithOutcome, StreamTypeOK
    <3>2. CASE d # c
      BY <1>1, <1>2, <2>2, <3>2
    <3> QED BY <3>1, <3>2
  <2>4. ASSUME poller'[d] \in {"leaving", "gone"}, ~shutdown', d \notin broken', value'[d] # MaxVersion
        PROVE  \A j \in Clients : Listening(j)' /\ chan'[j] = d => j \in late'
    <3>1. poller[d] \in {"leaving", "gone"} /\ ~shutdown /\ d \notin broken
      BY <1>1, <2>4
    <3>2. value[d] # MaxVersion
      BY <1>1, <1>2, <2>4 DEF Versions
    <3>3. \A j \in Clients : Listening(j) /\ chan[j] = d => j \in late
      BY <3>1, <3>2 DEF StreamInv, ChannelsOK
    <3>4. d = c => poller[c] = "leaving"
      BY <3>1, <2>2 DEF c
    <3> QED BY <1>1, <3>3, <3>4 DEF Listening, StreamInv, StreamsEndWithOutcome, StreamTypeOK
  <2> QED BY <2>3, <2>4
<1>6. StreamsOK'
  <2>1. \A j \in Clients : j # k => /\ chan'[j] = chan[j] /\ seen'[j] = seen[j]
                                    /\ stream'[j] = stream[j] /\ shown'[j] = shown[j]
    BY <1>1
  <2>2. /\ chan'[k] = c /\ seen'[k] = stamp'[c] /\ stream'[k] = "first" /\ shown'[k] = first[k]
    BY <1>1 DEF StreamInv, StreamsEndWithOutcome, StreamTypeOK, StreamsOK
  <2>3. stamp[c] # 0
    BY <1>1 DEF StreamInv, ChannelsOK, c
  <2>4. \A d \in Channels : /\ stamp[d] \in Nat /\ stamp'[d] \in Nat /\ stamp'[d] >= stamp[d]
                            /\ value[d] \in Int /\ value'[d] \in Int /\ value'[d] >= value[d]
                            /\ stamp'[d] = stamp[d] => value'[d] = value[d]
    BY <1>2 DEF StreamInv, StreamsEndWithOutcome, StreamTypeOK, Versions, Failed
  <2>5. \A j \in Clients : seen[j] \in Nat /\ shown[j] \in Int /\ seen'[j] \in Nat /\ shown'[j] \in Int
    BY <1>3 DEF StreamInv, StreamsEndWithOutcome, StreamTypeOK, Versions, Failed
  <2>6. SUFFICES ASSUME NEW j \in Clients
        PROVE  /\ stream'[j] = "idle" => shown'[j] = Failed
               /\ stream'[j] = "read" => shown'[j] = first'[j]
               /\ stream'[j] \in {"first", "open"} =>
                    /\ chan'[j] \in Channels /\ stamp'[chan'[j]] # 0 /\ seen'[j] <= stamp'[chan'[j]]
                    /\ chan'[j] \notin broken' => shown'[j] <= value'[chan'[j]]
               /\ stream'[j] = "open" /\ chan'[j] \notin broken' /\ seen'[j] = stamp'[chan'[j]] =>
                    value'[chan'[j]] # MaxVersion
    BY DEF StreamsOK, Listening
  <2>7. CASE j = k
    BY <1>1, <1>2, <2>2, <2>3, <2>4, <2>7
  <2>8. CASE j # k
    <3>1. /\ stream[j] = "idle" => shown[j] = Failed
          /\ stream[j] = "read" => shown[j] = first[j]
          /\ stream[j] \in {"first", "open"} =>
               /\ chan[j] \in Channels /\ stamp[chan[j]] # 0 /\ seen[j] <= stamp[chan[j]]
               /\ chan[j] \notin broken => shown[j] <= value[chan[j]]
          /\ stream[j] = "open" /\ chan[j] \notin broken /\ seen[j] = stamp[chan[j]] =>
               value[chan[j]] # MaxVersion
      BY DEF StreamInv, StreamsOK, Listening
    <3> QED BY <1>1, <2>4, <2>5, <2>8, <3>1
  <2> QED BY <2>7, <2>8
<1> QED BY <1>4, <1>5, <1>6 DEF StreamInv

LEMMA CreateKeepsStreams ==
  ASSUME StreamInv, NEW k \in Clients, Create(k)
  PROVE  StreamInv'
<1> USE SubscriptionsAssumption
<1>1. PICK c \in Channels :
       /\ poller[c] = "none" /\ stamp[c] = 0
       /\ value' = [value EXCEPT ![c] = first[k]] /\ stamp' = [stamp EXCEPT ![c] = 1]
       /\ chan' = [chan EXCEPT ![k] = c] /\ seen' = [seen EXCEPT ![k] = stamp'[c]]
       /\ stream' = [stream EXCEPT ![k] = "first"]
       /\ UNCHANGED <<row, shutdown, first, shown, gotError>>
       /\ IF Terminal(first[k]) THEN UNCHANGED <<registry, poller>>
          ELSE registry' = c /\ poller' = [poller EXCEPT ![c] = "waiting"]
  BY DEF Create, Subscribe
<1>2. stream[k] = "read" /\ registry = 0 /\ UNCHANGED <<late, loaded, broken>>
  BY DEF Create
<1>3. StreamTypeOK'
  BY <1>1, <1>2 DEF StreamInv, StreamsEndWithOutcome, StreamTypeOK
<1>4. StreamsEndWithOutcome'
  BY <1>1, <1>2, <1>3 DEF StreamInv, StreamsEndWithOutcome
<1>5. ChannelsOK'
  BY <1>1, <1>2
     DEF StreamInv, StreamTypeOK, StreamsEndWithOutcome, ChannelsOK, Listening, Terminal, Failed,
         Versions
<1>6. StreamsOK'
  BY <1>1, <1>2, <1>3 DEF StreamInv, StreamTypeOK, StreamsOK, Listening, Versions
<1> QED BY <1>4, <1>5, <1>6 DEF StreamInv

LEMMA DeliverKeepsStreams ==
  ASSUME StreamInv, NEW k \in Clients, Deliver(k)
  PROVE  StreamInv'
<1> USE SubscriptionsAssumption
<1> DEFINE c == chan[k]
<1>1. /\ stream[k] \in {"first", "open"} /\ c \in Channels
      /\ seen' = [seen EXCEPT ![k] = stamp[c]]
      /\ shown' = [shown EXCEPT ![k] = IF value[c] = Failed THEN @ ELSE value[c]]
      /\ gotError' = IF value[c] = Failed THEN gotError \cup {k} ELSE gotError
      /\ stream' = [stream EXCEPT ![k] = IF Terminal(value[c]) THEN "ended" ELSE "open"]
      /\ UNCHANGED <<row, shutdown, registry, value, stamp, poller, loaded, broken, first, chan, late>>
  BY DEF StreamInv, StreamsOK, Listening, Deliver, channelVars
<1>2. value[c] \in Versions \cup {Failed} /\ stamp[c] \in Nat
  BY <1>1 DEF StreamInv, StreamsEndWithOutcome, StreamTypeOK
<1> HIDE DEF c
<1>3. StreamTypeOK'
  BY <1>1 DEF StreamInv, StreamsEndWithOutcome, StreamTypeOK
<1>4. StreamsEndWithOutcome'
  <2>1. \A j \in Clients : j # k => stream'[j] = stream[j] /\ shown'[j] = shown[j]
    BY <1>1
  <2>2. stream'[k] = "ended" => shown'[k] = MaxVersion \/ k \in gotError'
    BY <1>1 DEF StreamInv, StreamsEndWithOutcome, StreamTypeOK, Terminal
  <2> QED BY <1>1, <1>3, <2>2 DEF StreamInv, StreamsEndWithOutcome
<1>5. ChannelsOK'
  BY <1>1 DEF StreamInv, ChannelsOK, Listening
<1>6. StreamsOK'
  BY <1>1, <1>3 DEF StreamInv, StreamTypeOK, StreamsOK, Listening, c, Terminal, Versions
<1> QED BY <1>4, <1>5, <1>6 DEF StreamInv

LEMMA EndOfStreamKeepsStreams ==
  ASSUME StreamInv, NEW k \in Clients, EndOfStream(k)
  PROVE  StreamInv'
<1> USE SubscriptionsAssumption
<1>1. StreamTypeOK'
  BY DEF StreamInv, StreamTypeOK, StreamsEndWithOutcome, EndOfStream, channelVars
<1>2. StreamsEndWithOutcome'
  BY <1>1
     DEF StreamInv, StreamsEndWithOutcome, ChannelsOK, StreamsOK, Listening, EndOfStream, Closed,
         channelVars
<1>3. ChannelsOK'
  BY <1>1
     DEF StreamInv, StreamTypeOK, StreamsEndWithOutcome, ChannelsOK, StreamsOK, Listening,
         EndOfStream, Closed, channelVars, clientVars, Terminal, Failed, Versions, Channels
<1>4. StreamsOK'
  BY DEF StreamInv, StreamsOK, Listening, EndOfStream, channelVars
<1> QED BY <1>2, <1>3, <1>4 DEF StreamInv

LEMMA DisconnectKeepsStreams ==
  ASSUME StreamInv, NEW k \in Clients, Disconnect(k)
  PROVE  StreamInv'
<1> USE SubscriptionsAssumption
<1>1. StreamTypeOK'
  BY DEF StreamInv, StreamTypeOK, StreamsEndWithOutcome, Disconnect, channelVars
<1>2. StreamsEndWithOutcome'
  BY <1>1 DEF StreamInv, StreamsEndWithOutcome, Disconnect, channelVars
<1>3. ChannelsOK'
  BY DEF StreamInv, ChannelsOK, Listening, Disconnect, channelVars
<1>4. StreamsOK'
  BY DEF StreamInv, StreamsOK, Listening, Disconnect, channelVars
<1> QED BY <1>2, <1>3, <1>4 DEF StreamInv

LEMMA StopPollingKeepsStreams ==
  ASSUME StreamInv, NEW c \in Channels, StopPolling(c)
  PROVE  StreamInv'
<1> USE SubscriptionsAssumption
<1>1. StreamTypeOK'
  BY DEF StreamInv, StreamTypeOK, StreamsEndWithOutcome, StopPolling, MovePoller, clientVars
<1>2. StreamsEndWithOutcome'
  BY <1>1 DEF StreamInv, StreamsEndWithOutcome, StopPolling, clientVars
<1>3. ChannelsOK'
  BY DEF StreamInv, ChannelsOK, Listening, StopPolling, MovePoller, Listeners, clientVars
<1>4. StreamsOK'
  BY DEF StreamInv, StreamsOK, Listening, StopPolling, clientVars
<1> QED BY <1>2, <1>3, <1>4 DEF StreamInv

LEMMA PollKeepsStreams ==
  ASSUME StreamInv, NEW c \in Channels, Poll(c)
  PROVE  StreamInv'
<1> USE SubscriptionsAssumption
<1>1. StreamTypeOK'
  BY DEF StreamInv, StreamTypeOK, StreamsEndWithOutcome, Poll, MovePoller, clientVars
<1>2. StreamsEndWithOutcome'
  BY <1>1 DEF StreamInv, StreamsEndWithOutcome, Poll, clientVars
<1>3. ChannelsOK'
  BY DEF StreamInv, ChannelsOK, Listening, Poll, MovePoller, clientVars
<1>4. StreamsOK'
  BY DEF StreamInv, StreamsOK, Listening, Poll, clientVars
<1> QED BY <1>2, <1>3, <1>4 DEF StreamInv

LEMMA PublishKeepsStreams ==
  ASSUME StreamInv, NEW c \in Channels, Publish(c)
  PROVE  StreamInv'
<1> USE SubscriptionsAssumption
<1>1. StreamTypeOK'
  BY DEF StreamInv, StreamTypeOK, StreamsEndWithOutcome, StreamsOK, Publish, Raise, MovePoller,
         clientVars, Terminal
<1>2. StreamsEndWithOutcome'
  BY <1>1 DEF StreamInv, StreamsEndWithOutcome, Publish, clientVars
<1>3. ChannelsOK'
  BY DEF StreamInv, StreamTypeOK, StreamsEndWithOutcome, ChannelsOK, Listening, Publish, Raise,
         MovePoller, clientVars, Terminal, Versions
<1>4. StreamsOK'
  BY DEF StreamInv, StreamTypeOK, StreamsEndWithOutcome, StreamsOK, Listening, Publish, Raise,
         clientVars, Failed, Versions
<1> QED BY <1>2, <1>3, <1>4 DEF StreamInv

LEMMA PublishErrorKeepsStreams ==
  ASSUME StreamInv, NEW c \in Channels, PublishError(c)
  PROVE  StreamInv'
<1> USE SubscriptionsAssumption
<1>1. StreamTypeOK'
  BY DEF StreamInv, StreamTypeOK, StreamsEndWithOutcome, PublishError, MovePoller, clientVars
<1>2. StreamsEndWithOutcome'
  BY <1>1 DEF StreamInv, StreamsEndWithOutcome, PublishError, clientVars
<1>3. ChannelsOK'
  BY DEF StreamInv, StreamTypeOK, StreamsEndWithOutcome, ChannelsOK, Listening, PublishError,
         MovePoller, clientVars
<1>4. StreamsOK'
  BY DEF StreamInv, StreamTypeOK, StreamsEndWithOutcome, StreamsOK, Listening, PublishError,
         clientVars
<1> QED BY <1>2, <1>3, <1>4 DEF StreamInv

LEMMA RemoveKeepsStreams ==
  ASSUME StreamInv, NEW c \in Channels, Remove(c)
  PROVE  StreamInv'
<1> USE SubscriptionsAssumption
<1>1. StreamTypeOK'
  BY DEF StreamInv, StreamTypeOK, StreamsEndWithOutcome, Remove, MovePoller, clientVars
<1>2. StreamsEndWithOutcome'
  BY <1>1 DEF StreamInv, StreamsEndWithOutcome, Remove, clientVars
<1>3. ChannelsOK'
  BY DEF StreamInv, ChannelsOK, Listening, Remove, MovePoller, clientVars, Channels
<1>4. StreamsOK'
  BY DEF StreamInv, StreamsOK, Listening, Remove, clientVars
<1> QED BY <1>2, <1>3, <1>4 DEF StreamInv

-----------------------------------------------------------------------------
LEMMA StreamsStart == StreamInit => StreamInv
<1> SUFFICES ASSUME StreamInit PROVE StreamInv
  OBVIOUS
<1>1. 0 \in Versions
  BY SubscriptionsAssumption DEF Versions
<1>2. StreamTypeOK
  BY <1>1 DEF StreamInit, StreamTypeOK
<1>3. StreamsEndWithOutcome
  BY <1>2 DEF StreamInit, StreamsEndWithOutcome
<1>4. ChannelsOK
  BY <1>1 DEF StreamInit, ChannelsOK, Channels
<1>5. StreamsOK
  BY DEF StreamInit, StreamsOK, Listening
<1> QED BY <1>3, <1>4, <1>5 DEF StreamInv

LEMMA StreamsKeep == StreamInv /\ [StreamNext]_streamVars => StreamInv'
<1> SUFFICES ASSUME StreamInv, [StreamNext]_streamVars PROVE StreamInv'
  OBVIOUS
<1>1. CASE Advance \/ Shutdown
  BY <1>1, AdvanceKeepsStreams, ShutdownKeepsStreams
<1>2. ASSUME NEW k \in Clients,
             ReadRow(k) \/ JoinChannel(k) \/ Create(k) \/ StreamStep(k) \/ Disconnect(k)
      PROVE  StreamInv'
  BY <1>2, ReadRowKeepsStreams, JoinChannelKeepsStreams, CreateKeepsStreams, DeliverKeepsStreams,
     EndOfStreamKeepsStreams, DisconnectKeepsStreams DEF StreamStep
<1>3. ASSUME NEW c \in Channels, PollerStep(c)
      PROVE  StreamInv'
  BY <1>3, StopPollingKeepsStreams, PollKeepsStreams, PublishKeepsStreams,
     PublishErrorKeepsStreams,
     RemoveKeepsStreams DEF PollerStep
<1>4. CASE UNCHANGED streamVars
  BY <1>4 DEF streamVars, channelVars, clientVars, StreamInv, StreamTypeOK, StreamsEndWithOutcome,
              ChannelsOK, StreamsOK, Listening
<1> QED BY <1>1, <1>2, <1>3, <1>4 DEF StreamNext

\* events.rs, read_stream_event: a stream that the client did not drop ends with the terminal
\* snapshot or with the error event, whatever the numbers of clients, channels and revisions.
THEOREM StreamsOutcomeTheorem == StreamSpec => []StreamsEndWithOutcome
<1>1. StreamInv => StreamsEndWithOutcome
  BY DEF StreamInv
<1> QED BY <1>1, StreamsStart, StreamsKeep, PTL DEF StreamSpec

\* A step shows a client an older revision only out of a channel with an error event.
LEMMA ShownAdvances ==
  ASSUME StreamInv, [StreamNext]_streamVars, NEW k \in Clients, chan'[k] \notin broken
  PROVE  shown'[k] >= shown[k]
<1>1. shown[k] \in Int /\ (stream[k] = "idle" => shown[k] = Failed)
  BY DEF StreamInv, StreamsEndWithOutcome, StreamTypeOK, StreamsOK, Versions, Failed
<1>2. ASSUME NEW j \in Clients, ReadRow(j)
      PROVE  shown'[k] >= shown[k]
  BY <1>1, <1>2 DEF ReadRow, StreamInv, StreamsEndWithOutcome, StreamTypeOK, Versions, Failed
<1>3. ASSUME NEW j \in Clients, Deliver(j)
      PROVE  shown'[k] >= shown[k]
  BY <1>1, <1>3 DEF Deliver, StreamInv, StreamsOK, Listening
<1>4. shown' = shown => shown'[k] >= shown[k]
  BY <1>1
<1> QED BY <1>2, <1>3, <1>4
      
          DEF StreamNext, Advance, Shutdown, JoinChannel, Create, StreamStep, EndOfStream,
              Disconnect,
           Subscribe, PollerStep, StopPolling, Poll, Publish, PublishError, Remove, streamVars, clientVars

\* events.rs, send_if_modified: no subscriber is taken back to a revision before one that it
\* has seen, before its own read of the row or before what others put into its channel.
THEOREM RevisionsAdvanceTheorem == StreamSpec => RevisionsAdvance
<1>1. StreamInv /\ [StreamNext]_streamVars =>
        [\A k \in Clients : chan'[k] \notin broken => shown'[k] >= shown[k]]_streamVars
  BY ShownAdvances
<1> QED BY <1>1, StreamsStart, StreamsKeep, PTL DEF StreamSpec, RevisionsAdvance
=============================================================================
