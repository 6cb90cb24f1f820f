------------------------- MODULE StdioSession_proofs -------------------------
(***************************************************************************)
(* Proofs about the stdio session: its type invariant, what a delivery     *)
(* mark and an id say of a request, and what the worker slot guarantees    *)
(* after a panic and at the exit.                                          *)
(***************************************************************************)
EXTENDS StdioSession, TLAPS

-----------------------------------------------------------------------------
(* The inductive invariant.                                                *)

(* Once the library's loop has ended nothing is read any more.             *)
LoopEnded ==
  /\ quit # "no" => ~listening
  /\ closed => quit # "no"

(* Until the close an unanswered request is the one its id stands for, and *)
(* a send carries the ledger entry of its own request.                     *)
LedgerTells ==
  /\ \A r \in In({"open", "answered"}) : ~closed => ledger[Id[r]] = r
  /\ \A r \in In({"sending"}) : carrying[r] = r

Holding == {"second", "spawned", "working", "unwinding", "leaving"}

(* The permit belongs to the one call that is between its acquisition and  *)
(* its release; admission is not interleaved with another admission.       *)
SlotTells ==
  /\ \A r \in Requests : slot = r <=> work[r] \in Holding
  /\ \A r, s \in Requests :
       /\ work[r] \in {"acquire", "second"}
       /\ work[s] \in {"acquire", "second"}
       => r = s

(* The second test of the latch: what was let through runs before a panic. *)
LatchTells ==
  \A r \in Requests : work[r] \in {"spawned", "working"} => ~panicked

Quiet == \A r \in Requests : work[r] \in {"idle", "refused", "left"}

DrainTells ==
  /\ serving # "yes" => stop
  /\ exit = "success" => serving = "no" /\ ~panicked /\ Quiet

LedgerInv == LoopEnded /\ LedgerTells /\ DeliveredIsAnswered /\ OneUnansweredPerId
WorkerInv == SlotTells /\ LatchTells /\ DrainTells
IInv == TypeOK /\ LedgerInv /\ WorkerInv

-----------------------------------------------------------------------------
(* Type correctness.                                                       *)

LEMMA InitTypeOK == Init => TypeOK
  BY DEF Init, AdmissionInit, W!WorkersInit, TypeOK, AdmissionTypeOK, W!WorkersTypeOK,
    Stages, W!Pcs, W!Answers, W!Free

LEMMA TransportTypes == TypeOK /\ Transport => AdmissionTypeOK'
  <1> SUFFICES ASSUME TypeOK, Transport PROVE AdmissionTypeOK'
    OBVIOUS
  <1> USE DEF TypeOK, AdmissionTypeOK, sendVars, endVars, failureVars, Stages, Record, At
  <1>1. CASE Listen \/ NotificationRefused \/ EndOfInput \/ Quit
    BY <1>1 DEF Listen, NotificationRefused, EndOfInput, Quit
  <1>2. CASE Close
    BY <1>2 DEF Close
  <1>3. ASSUME NEW id \in Ids, Cancel(id) PROVE AdmissionTypeOK'
    BY <1>3 DEF Cancel, In
  <1>4. ASSUME NEW r \in Requests, Admit(r) \/ Reject(r) PROVE AdmissionTypeOK'
    BY <1>4 DEF Admit, Reject
  <1>5. ASSUME NEW r \in Requests, Suppress(r) \/ SendDropped(r) \/ SendFails(r)
        PROVE AdmissionTypeOK'
    BY <1>5 DEF Suppress, SendDropped, SendFails
  <1>6. ASSUME NEW r \in Requests, SendBegin(r) \/ SendRefused(r) PROVE AdmissionTypeOK'
    <2>1. Id[r] \in Ids
      BY AdmissionAssumption
    <2>2. ledger' \in [Ids -> Requests \cup {None}]
      BY <1>6 DEF SendBegin, SendRefused, TakeEntry
    <2>3. carrying' \in [Requests -> Requests \cup {None}]
      BY <1>6, <2>1 DEF SendBegin, SendRefused, TakeEntry
    <2>4. QED
      BY <1>6, <2>2, <2>3 DEF SendBegin, SendRefused
  <1>7. ASSUME NEW r \in Requests, SendDone(r) PROVE AdmissionTypeOK'
    BY <1>7 DEF SendDone
  <1>8. QED
    BY <1>1, <1>2, <1>3, <1>4, <1>5, <1>6, <1>7 DEF Transport

LEMMA WorkerTypes ==
  ASSUME TypeOK, NEW r \in Requests, W!Waiter(r) \/ W!Abandon(r) \/ W!Thread(r)
  PROVE  W!WorkersTypeOK'
  <1> USE DEF TypeOK, W!WorkersTypeOK, W!Pcs, W!Answers, W!Goes, W!Reply, W!Refuse
  <1>1. CASE W!Enter(r)
    BY <1>1 DEF W!Enter
  <1>2. CASE W!Acquire(r)
    BY <1>2 DEF W!Acquire
  <1>3. CASE W!Recheck(r)
    BY <1>3 DEF W!Recheck
  <1>4. CASE W!Join(r) \/ W!GiveUp(r) \/ W!Abandon(r)
    BY <1>4 DEF W!Join, W!GiveUp, W!Abandon
  <1>5. CASE W!Thread(r)
    BY <1>5 DEF W!Thread, W!Start, W!Return, W!Panic, W!Latch, W!Leave
  <1>6. QED
    BY <1>1, <1>2, <1>3, <1>4, <1>5 DEF W!Waiter

LEMMA NextTypeOK == TypeOK /\ [Next]_vars => TypeOK'
  <1> SUFFICES ASSUME TypeOK, [Next]_vars PROVE TypeOK'
    OBVIOUS
  <1>a. UNCHANGED admissionVars => AdmissionTypeOK'
    BY DEF TypeOK, AdmissionTypeOK, admissionVars, sendVars, endVars, failureVars
  <1>w. UNCHANGED workerVars => W!WorkersTypeOK'
    BY DEF TypeOK, W!WorkersTypeOK, workerVars
  <1>m. UNCHANGED mainVars => serving' = serving /\ exit' = exit
    BY DEF mainVars
  <1>1. CASE TransportStep
    BY <1>1, <1>w, <1>m, TransportTypes DEF TransportStep, TypeOK
  <1>2. ASSUME NEW r \in Requests, Handle(r) \/ AbortHandler(r) \/ Blocking(r) PROVE TypeOK'
    BY <1>2, <1>a, <1>m, WorkerTypes DEF Handle, AbortHandler, Blocking, TypeOK
  <1>3. ASSUME NEW r \in Requests, Respond(r) PROVE TypeOK'
    <2>1. AdmissionTypeOK'
      BY <1>3 DEF Respond, HandlerReturns, At, TypeOK, AdmissionTypeOK, Stages, sendVars,
        endVars, failureVars
    <2>2. QED
      BY <1>3, <2>1, <1>w, <1>m DEF Respond, TypeOK
  <1>4. CASE BeginDrain
    <2>1. AdmissionTypeOK'
      BY <1>4 DEF BeginDrain, TypeOK, AdmissionTypeOK, sendVars, endVars
    <2>2. QED
      BY <1>4, <2>1, <1>w DEF BeginDrain, TypeOK
  <1>5. CASE Drained \/ GraceOver
    BY <1>5, <1>a, <1>w DEF Drained, GraceOver, TypeOK
  <1>6. CASE UNCHANGED vars
    BY <1>6, <1>a, <1>w, <1>m DEF vars, TypeOK
  <1>7. QED
    BY <1>1, <1>2, <1>3, <1>4, <1>5, <1>6 DEF Next, Exited

(* Every variable of the session keeps its type.                           *)
THEOREM SessionTypeOK == Spec => []TypeOK
  BY InitTypeOK, NextTypeOK, PTL DEF Spec

-----------------------------------------------------------------------------
(* The ledger.                                                             *)

LEMMA InitLedger == Init => LedgerInv
  BY DEF Init, AdmissionInit, LedgerInv, LoopEnded, LedgerTells, DeliveredIsAnswered,
    OneUnansweredPerId, In

(* What the ledger says depends on the admission's variables alone.        *)
LEMMA LedgerFrame ==
  ASSUME LedgerInv, UNCHANGED <<stage, ledger, carrying, delivered, listening, quit, closed>>
  PROVE  LedgerInv'
  BY DEF LedgerInv, LoopEnded, LedgerTells, DeliveredIsAnswered, OneUnansweredPerId, In

LEMMA AdmitLedger ==
  ASSUME TypeOK, LedgerInv, NEW r \in Requests, Admit(r) \/ Reject(r)
  PROVE  LedgerInv'
  <1> USE DEF LedgerInv, LedgerTells, In
  <1>1. CASE Admit(r)
    <2>1. LoopEnded' /\ DeliveredIsAnswered'
      BY <1>1 DEF Admit, At, LoopEnded, DeliveredIsAnswered, TypeOK, AdmissionTypeOK
    <2>2. ~closed
      BY <1>1 DEF Admit, LoopEnded
    <2>3. \A s \in In({"open", "answered"}) : Id[s] # Id[r]
      BY <1>1, <2>2, AdmissionAssumption DEF Admit
    <2>4. In({"open", "answered"})' = In({"open", "answered"}) \cup {r}
      BY <1>1 DEF Admit, At, TypeOK, AdmissionTypeOK
    <2>5. OneUnansweredPerId'
      BY <2>3, <2>4 DEF OneUnansweredPerId
    <2>6. LedgerTells'
      <3>1. \A s \in In({"open", "answered"})' : ledger'[Id[s]] = s
        BY <1>1, <2>2, <2>3, <2>4, AdmissionAssumption DEF Admit, TypeOK, AdmissionTypeOK
      <3>2. \A s \in In({"sending"})' : carrying'[s] = s
        BY <1>1 DEF Admit, At, TypeOK, AdmissionTypeOK
      <3>3. QED
        BY <3>1, <3>2
    <2>7. QED
      BY <2>1, <2>5, <2>6
  <1>2. CASE Reject(r)
    <2>1. In({"open", "answered"})' = In({"open", "answered"})
      BY <1>2 DEF Reject, At, TypeOK, AdmissionTypeOK
    <2>2. QED
      BY <1>2, <2>1 DEF Reject, At, TypeOK, AdmissionTypeOK, LoopEnded, DeliveredIsAnswered,
        OneUnansweredPerId, sendVars
  <1>3. QED
    BY <1>1, <1>2

(* The end of a send only takes requests out of the ones that are open,    *)
(* and marks no request but its own.                                       *)
LEMMA SendLedger ==
  ASSUME TypeOK, LedgerInv, NEW r \in Requests,
         \/ Suppress(r) \/ SendBegin(r) \/ SendRefused(r) \/ SendDone(r)
         \/ SendFails(r) \/ SendDropped(r) \/ HandlerReturns(r)
  PROVE  LedgerInv'
  <1> USE DEF LedgerInv, LedgerTells, In
  <1>e. LoopEnded'
    BY DEF LoopEnded, Suppress, SendBegin, SendRefused, SendDone, SendFails, SendDropped,
      HandlerReturns, endVars, TakeEntry
  <1>1. CASE Suppress(r) \/ SendFails(r) \/ SendDropped(r) \/ HandlerReturns(r)
    <2>1. In({"open", "answered"})' \subseteq In({"open", "answered"})
      BY <1>1 DEF Suppress, SendFails, SendDropped, HandlerReturns, At, TypeOK, AdmissionTypeOK
    <2>2. In({"sending"})' \subseteq In({"sending"})
      BY <1>1 DEF Suppress, SendFails, SendDropped, HandlerReturns, At, TypeOK, AdmissionTypeOK
    <2>3. DeliveredIsAnswered'
      BY <1>1 DEF Suppress, SendFails, SendDropped, HandlerReturns, At, TypeOK,
        AdmissionTypeOK, DeliveredIsAnswered
    <2>4. UNCHANGED <<ledger, carrying, closed>>
      BY <1>1 DEF Suppress, SendFails, SendDropped, HandlerReturns, sendVars, endVars
    <2>5. QED
      BY <1>e, <2>1, <2>2, <2>3, <2>4 DEF OneUnansweredPerId
  <1>2. CASE SendBegin(r) \/ SendRefused(r)
    <2>1. stage[r] = "answered" /\ ~closed
      BY <1>2 DEF SendBegin, SendRefused, MaySend
    <2>2. ledger[Id[r]] = r
      BY <2>1
    <2>3. In({"open", "answered"})' = In({"open", "answered"}) \ {r}
      BY <1>2 DEF SendBegin, SendRefused, At, TypeOK, AdmissionTypeOK
    <2>4. \A s \in In({"open", "answered"})' : Id[s] # Id[r]
      BY <2>1, <2>3 DEF OneUnansweredPerId
    <2>5. \A s \in In({"open", "answered"})' : ledger'[Id[s]] = s
      BY <1>2, <2>1, <2>3, <2>4, AdmissionAssumption
        DEF SendBegin, SendRefused, TakeEntry, TypeOK, AdmissionTypeOK
    <2>6. \A s \in In({"sending"})' : carrying'[s] = s
      BY <1>2, <2>2 DEF SendBegin, SendRefused, TakeEntry, At, TypeOK, AdmissionTypeOK
    <2>7. OneUnansweredPerId'
      BY <2>3 DEF OneUnansweredPerId
    <2>8. DeliveredIsAnswered'
      BY <1>2, <2>1 DEF DeliveredIsAnswered, SendBegin, SendRefused, At, TypeOK, AdmissionTypeOK
    <2>9. QED
      BY <1>e, <2>5, <2>6, <2>7, <2>8
  <1>3. CASE SendDone(r)
    <2>1. In({"open", "answered"})' = In({"open", "answered"})
      BY <1>3 DEF SendDone, At, TypeOK, AdmissionTypeOK
    <2>2. In({"sending"})' \subseteq In({"sending"})
      BY <1>3 DEF SendDone, At, TypeOK, AdmissionTypeOK
    <2>3. DeliveredIsAnswered'
      BY <1>3 DEF SendDone, At, TypeOK, AdmissionTypeOK, DeliveredIsAnswered
    <2>4. UNCHANGED <<ledger, carrying, closed>>
      BY <1>3 DEF SendDone, sendVars, endVars
    <2>5. QED
      BY <1>e, <2>1, <2>2, <2>3, <2>4 DEF OneUnansweredPerId
  <1>4. QED
    BY <1>1, <1>2, <1>3

LEMMA EndLedger ==
  ASSUME LedgerInv,
         Listen \/ NotificationRefused \/ EndOfInput \/ Quit \/ Close \/ \E id \in Ids : Cancel(id)
  PROVE  LedgerInv'
  <1>1. CASE Listen \/ NotificationRefused \/ EndOfInput \/ Quit \/ \E id \in Ids : Cancel(id)
    <2>1. UNCHANGED <<stage, ledger, carrying, delivered, closed>>
      BY <1>1 DEF Listen, NotificationRefused, EndOfInput, Quit, Cancel, sendVars
    <2>2. LoopEnded'
      <3>1. CASE Listen
        BY <3>1, <2>1 DEF Listen, LedgerInv, LoopEnded
      <3>2. CASE Quit
        BY <3>2, <2>1 DEF Quit, LedgerInv, LoopEnded
      <3>3. CASE NotificationRefused \/ EndOfInput
        BY <3>3, <2>1 DEF NotificationRefused, EndOfInput, LedgerInv, LoopEnded
      <3>4. CASE \E id \in Ids : Cancel(id)
        BY <3>4, <2>1 DEF Cancel, LedgerInv, LoopEnded
      <3>5. QED
        BY <1>1, <3>1, <3>2, <3>3, <3>4
    <2>3. QED
      BY <2>1, <2>2 DEF LedgerInv, LedgerTells, In, DeliveredIsAnswered, OneUnansweredPerId
  <1>2. CASE Close
    BY <1>2 DEF Close, LedgerInv, LoopEnded, LedgerTells, In, DeliveredIsAnswered,
      OneUnansweredPerId
  <1>3. QED
    BY <1>1, <1>2

LEMMA NextLedger == TypeOK /\ LedgerInv /\ [Next]_vars => LedgerInv'
  <1> SUFFICES ASSUME TypeOK, LedgerInv, [Next]_vars PROVE LedgerInv'
    OBVIOUS
  <1>a. UNCHANGED admissionVars => LedgerInv'
    BY LedgerFrame DEF admissionVars, sendVars, endVars
  <1>1. CASE TransportStep
    BY <1>1, AdmitLedger, SendLedger, EndLedger DEF TransportStep, Transport
  <1>2. ASSUME NEW r \in Requests, Respond(r) PROVE LedgerInv'
    BY <1>2, SendLedger DEF Respond
  <1>3. ASSUME NEW r \in Requests, Handle(r) \/ AbortHandler(r) \/ Blocking(r) PROVE LedgerInv'
    BY <1>3, <1>a DEF Handle, AbortHandler, Blocking
  <1>4. CASE BeginDrain
    BY <1>4, LedgerFrame DEF BeginDrain, sendVars, endVars
  <1>5. CASE Drained \/ GraceOver \/ UNCHANGED vars
    BY <1>5, <1>a DEF Drained, GraceOver, vars
  <1>6. QED
    BY <1>1, <1>2, <1>3, <1>4, <1>5 DEF Next, Exited

-----------------------------------------------------------------------------
(* The worker slot.                                                        *)

LEMMA InitWorkers == Init => WorkerInv
  BY SessionAssumption DEF Init, AdmissionInit, W!WorkersInit, WorkerInv, SlotTells, LatchTells,
    DrainTells, Holding

LEMMA WorkerFrame ==
  ASSUME WorkerInv, UNCHANGED <<workerVars, mainVars>>, stop => stop'
  PROVE  WorkerInv'
  BY DEF WorkerInv, SlotTells, LatchTells, DrainTells, Quiet, workerVars, mainVars

(* One call passes the admission: while it does, no other call is in it.   *)
LEMMA AdmissionWorker ==
  ASSUME TypeOK, WorkerInv, NEW r \in Requests, UNCHANGED <<stop, mainVars>>,
         W!Enter(r) \/ W!Acquire(r) \/ W!Recheck(r)
  PROVE  WorkerInv'
  <1> USE SessionAssumption
      DEF WorkerInv, TypeOK, W!WorkersTypeOK, W!Goes, W!Reply, W!Refuse, mainVars, Holding
  <1>1. CASE W!Enter(r)
    <2>1. SlotTells' /\ LatchTells'
      BY <1>1 DEF W!Enter, W!RuntimeFree, SlotTells, LatchTells
    <2>2. DrainTells'
      BY <1>1 DEF W!Enter, W!Signalled, DrainTells, Quiet
    <2>3. QED
      BY <2>1, <2>2
  <1>2. CASE W!Acquire(r)
    <2>1. SlotTells'
      BY <1>2 DEF W!Acquire, SlotTells
    <2>2. LatchTells' /\ DrainTells'
      BY <1>2 DEF W!Acquire, LatchTells, DrainTells, Quiet
    <2>3. QED
      BY <2>1, <2>2
  <1>3. CASE W!Recheck(r)
    <2>1. SlotTells'
      BY <1>3 DEF W!Recheck, SlotTells
    <2>2. LatchTells' /\ DrainTells'
      BY <1>3 DEF W!Recheck, LatchTells, DrainTells, Quiet
    <2>3. QED
      BY <2>1, <2>2
  <1>4. QED
    BY <1>1, <1>2, <1>3

(* The blocking thread: whoever panics holds the permit until its latch.   *)
LEMMA ThreadWorker ==
  ASSUME TypeOK, WorkerInv, NEW r \in Requests, UNCHANGED <<stop, mainVars>>, W!Thread(r)
  PROVE  WorkerInv'
  <1> USE SessionAssumption
      DEF WorkerInv, TypeOK, W!WorkersTypeOK, W!Goes, mainVars, Holding
  <1>1. W!Start(r) \/ W!Return(r) \/ W!Panic(r) \/ W!Latch(r) \/ W!Leave(r)
    BY DEF W!Thread
  <1>2. SlotTells'
    BY <1>1 DEF W!Start, W!Return, W!Panic, W!Latch, W!Leave, SlotTells
  <1>3. LatchTells'
    <2>1. CASE W!Latch(r)
      <3>1. \A s \in Requests : work[s] \in {"spawned", "working"} => s = r
        BY <2>1 DEF W!Latch, SlotTells
      <3>2. QED
        BY <2>1, <3>1 DEF W!Latch, LatchTells
    <2>2. CASE W!Start(r) \/ W!Return(r) \/ W!Panic(r) \/ W!Leave(r)
      BY <2>2 DEF W!Start, W!Return, W!Panic, W!Leave, LatchTells
    <2>3. QED
      BY <1>1, <2>1, <2>2
  <1>4. DrainTells'
    BY <1>1 DEF W!Start, W!Return, W!Panic, W!Latch, W!Leave, DrainTells, Quiet
  <1>5. QED
    BY <1>2, <1>3, <1>4

LEMMA NextWorkers == TypeOK /\ WorkerInv /\ [Next]_vars => WorkerInv'
  <1> SUFFICES ASSUME TypeOK, WorkerInv, [Next]_vars PROVE WorkerInv'
    OBVIOUS
  <1>1. CASE TransportStep
    <2>1. stop => stop'
      BY <1>1 DEF TransportStep, Transport, Listen, NotificationRefused, EndOfInput, Quit, Close,
        Cancel, Admit, Reject, Suppress, SendBegin, SendRefused, SendDone, SendFails,
        SendDropped, failureVars, Record
    <2>2. QED
      BY <1>1, <2>1, WorkerFrame DEF TransportStep
  <1>2. ASSUME NEW r \in Requests, Respond(r) PROVE WorkerInv'
    BY <1>2, WorkerFrame DEF Respond, HandlerReturns, failureVars
  <1>3. ASSUME NEW r \in Requests, Handle(r) \/ AbortHandler(r) PROVE WorkerInv'
    <2>1. UNCHANGED <<stop, mainVars>>
      BY <1>3 DEF Handle, AbortHandler, admissionVars, failureVars
    <2>2. CASE W!Enter(r) \/ W!Acquire(r) \/ W!Recheck(r)
      BY <2>1, <2>2, AdmissionWorker
    <2>3. CASE W!Join(r) \/ W!GiveUp(r) \/ W!Abandon(r)
      <3>1. UNCHANGED <<slot, panicked, work>>
        BY <2>3 DEF W!Join, W!GiveUp, W!Abandon
      <3>2. QED
        BY <2>1, <3>1 DEF WorkerInv, SlotTells, LatchTells, DrainTells, Quiet, mainVars
    <2>4. QED
      BY <1>3, <2>2, <2>3 DEF Handle, AbortHandler, W!Waiter
  <1>4. ASSUME NEW r \in Requests, Blocking(r) PROVE WorkerInv'
    BY <1>4, ThreadWorker DEF Blocking, admissionVars, failureVars
  <1>5. CASE BeginDrain \/ GraceOver
    <2>1. SlotTells' /\ LatchTells'
      <3>1. UNCHANGED <<slot, panicked, work>>
        BY <1>5 DEF BeginDrain, GraceOver, workerVars
      <3>2. QED
        BY <3>1 DEF WorkerInv, SlotTells, LatchTells
    <2>2. CASE BeginDrain
      BY <2>1, <2>2 DEF BeginDrain, WorkerInv, DrainTells
    <2>3. CASE GraceOver
      BY <2>1, <2>3 DEF GraceOver, WorkerInv, DrainTells, admissionVars, failureVars
    <2>4. QED
      BY <1>5, <2>2, <2>3
  <1>6. CASE Drained
    <2>1. Quiet
      BY <1>6, SessionAssumption DEF Drained, W!RuntimeFree, Quiet, WorkerInv, SlotTells, Holding,
        TypeOK, W!WorkersTypeOK, W!Pcs
    <2>2. DrainTells'
      BY <1>6, <2>1 DEF Drained, WorkerInv, DrainTells, Quiet, workerVars, admissionVars,
        failureVars
    <2>3. QED
      BY <1>6, <2>2 DEF Drained, WorkerInv, SlotTells, LatchTells, workerVars
  <1>7. CASE UNCHANGED vars
    BY <1>7, WorkerFrame DEF vars, admissionVars, failureVars
  <1>8. QED
    BY <1>1, <1>2, <1>3, <1>4, <1>5, <1>6, <1>7 DEF Next, Exited

-----------------------------------------------------------------------------
(* The properties.                                                         *)

LEMMA SessionInvariant == Spec => []IInv
  <1>1. Init => IInv
    BY InitTypeOK, InitLedger, InitWorkers DEF IInv
  <1>2. IInv /\ [Next]_vars => IInv'
    BY NextTypeOK, NextLedger, NextWorkers DEF IInv
  <1>3. QED
    BY <1>1, <1>2, PTL DEF Spec

(* A delivery mark is only given to a request whose own response was       *)
(* flushed, whatever ids the peer reuses and in which order sends end.     *)
THEOREM MarkedWasSent == Spec => []DeliveredIsAnswered
  BY SessionInvariant, PTL DEF IInv, LedgerInv

(* No two requests of one id are ever unanswered at once, so that a        *)
(* cancellation names one request.                                         *)
THEOREM IdNamesOne == Spec => []OneUnansweredPerId
  BY SessionInvariant, PTL DEF IInv, LedgerInv

(* An exit that reports success left no work behind and followed no panic. *)
THEOREM SuccessIsHonest == Spec => []ExitIsHonest
  <1>1. IInv => ExitIsHonest
    BY DEF IInv, WorkerInv, DrainTells, Quiet, ExitIsHonest
  <1>2. QED
    BY SessionInvariant, <1>1, PTL

(* From the first panic on no call begins its work, even one that had      *)
(* already passed the first test of the latch.                             *)
THEOREM PanicIsLast == Spec => NoWorkAfterPanic
  <1> DEFINE Panicking == panicked \/ \E r \in Requests : work[r] = "unwinding"
  <1> DEFINE BeginsNothing ==
         Panicking => \A r \in Requests : work'[r] = "working" => work[r] = "working"
  <1>1. IInv /\ [Next]_vars => [BeginsNothing]_vars
    <2> SUFFICES ASSUME IInv, Next, Panicking,
                        NEW r \in Requests, work'[r] = "working", work[r] # "working"
                 PROVE  FALSE
      OBVIOUS
    <2>1. work[r] = "spawned"
      <3>1. work \in [Requests -> W!Pcs]
        BY DEF IInv, TypeOK, W!WorkersTypeOK
      <3>2. CASE work' = work
        BY <3>2
      <3>3. ASSUME NEW s \in Requests, W!Waiter(s) \/ W!Abandon(s) \/ W!Thread(s)
            PROVE  work[r] = "spawned"
        BY <3>1, <3>3 DEF W!Waiter, W!Abandon, W!Thread, W!Enter, W!Acquire, W!Recheck, W!Join,
          W!GiveUp, W!Start, W!Return, W!Panic, W!Latch, W!Leave, W!Goes, W!Refuse
      <3>4. work' = work \/ \E s \in Requests : W!Waiter(s) \/ W!Abandon(s) \/ W!Thread(s)
        BY DEF Next, TransportStep, Handle, Respond, AbortHandler, Blocking, BeginDrain,
          Drained, GraceOver, Exited, vars, workerVars
      <3>5. QED
        BY <3>2, <3>3, <3>4
    <2>2. ~panicked
      BY <2>1 DEF IInv, WorkerInv, LatchTells
    <2>3. PICK s \in Requests : work[s] = "unwinding"
      BY <2>2
    <2>4. slot = r /\ slot = s
      BY <2>1, <2>3 DEF IInv, WorkerInv, SlotTells, Holding
    <2>5. QED
      BY <2>1, <2>3, <2>4
  <1>2. QED
    BY <1>1, SessionInvariant, PTL DEF Spec, NoWorkAfterPanic
=============================================================================
