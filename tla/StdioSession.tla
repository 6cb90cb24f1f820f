---------------------------- MODULE StdioSession ----------------------------
(***************************************************************************)
(* The stdio server as one session: the transport admits requests, every   *)
(* request's handler calls the workers, and when the transport has closed  *)
(* the server drains the slot and decides its exit code.  Background jobs, *)
(* which share the slot, are in JobLifecycle.                              *)
(***************************************************************************)
EXTENDS Admission

CONSTANT Joined

VARIABLES
  slot, panicked, work, answer, local,
  serving,         (* serve, then Workers::shutdown, then the exit code    *)
  exit

workerVars == <<slot, panicked, work, answer, local>>
mainVars == <<serving, exit>>
vars == <<admissionVars, workerVars, mainVars>>

W == INSTANCE WorkerSlot WITH Calls <- Requests

ASSUME SessionAssumption == W!Free \notin Requests

TypeOK ==
  /\ AdmissionTypeOK
  /\ W!WorkersTypeOK
  /\ serving \in {"yes", "drain clean", "drain dirty", "no"}
  /\ exit \in {"none", "success", "failure"}

Init ==
  /\ AdmissionInit
  /\ W!WorkersInit
  /\ serving = "yes"
  /\ exit = "none"

(* The transport and its library run on the runtime thread.                *)
TransportStep ==
  /\ W!RuntimeFree
  /\ Transport
  /\ UNCHANGED <<workerVars, mainVars>>

(* A handler calls the workers once and returns when they answered.        *)
Handle(r) ==
  /\ stage[r] = "open" /\ answer[r] = "none"
  /\ W!Waiter(r)
  /\ UNCHANGED <<admissionVars, mainVars>>

Respond(r) ==
  /\ answer[r] # "none" /\ W!RuntimeFree
  /\ HandlerReturns(r)
  /\ UNCHANGED <<workerVars, mainVars>>

(* The library aborts a handler only after its loop has ended.             *)
AbortHandler(r) ==
  /\ quit # "no" /\ stage[r] = "open"
  /\ W!Abandon(r)
  /\ UNCHANGED <<admissionVars, mainVars>>

Blocking(r) ==
  /\ W!Thread(r)
  /\ UNCHANGED <<admissionVars, mainVars>>

(* serve returns whether the session closed cleanly; shutdown then cancels *)
(* the session token and waits for the slot.                               *)
BeginDrain ==
  /\ serving = "yes" /\ closed /\ W!RuntimeFree
  /\ serving' = IF quit = "closed" /\ ~failed THEN "drain clean" ELSE "drain dirty"
  /\ stop' = TRUE
  /\ UNCHANGED <<stage, sendVars, cancelled, delivered, endVars, failed, workerVars, exit>>

(* Only acquiring the slot witnesses that the work has ended.              *)
Drained ==
  /\ serving \in {"drain clean", "drain dirty"} /\ W!RuntimeFree
  /\ slot = W!Free
  /\ exit' = IF serving = "drain clean" /\ ~panicked THEN "success" ELSE "failure"
  /\ serving' = "no"
  /\ UNCHANGED <<admissionVars, workerVars>>

GraceOver ==
  /\ serving \in {"drain clean", "drain dirty"} /\ W!RuntimeFree
  /\ slot # W!Free
  /\ exit' = "failure"
  /\ serving' = "no"
  /\ UNCHANGED <<admissionVars, workerVars>>

Exited == serving = "no" /\ UNCHANGED vars

Next ==
  \/ TransportStep
  \/ \E r \in Requests : Handle(r) \/ Respond(r) \/ AbortHandler(r) \/ Blocking(r)
  \/ BeginDrain \/ Drained \/ GraceOver
  \/ Exited

Spec == Init /\ [][Next]_vars

-----------------------------------------------------------------------------
(* A delivery mark is only given to a request whose own response was       *)
(* flushed, however soon the peer reuses its id: the orphan test of the    *)
(* background jobs relies on it (send's comment on its ledger).            *)
DeliveredIsAnswered == \A r \in delivered : stage[r] = "sent"

(* The library keys its tokens by id: two requests of one id must never be *)
(* unanswered at once, or a cancellation would reach the wrong one.        *)
OneUnansweredPerId ==
  \A r, s \in In({"open", "answered"}) : Id[r] = Id[s] => r = s

(* A worker that panicked is the last one: no call that had already passed *)
(* the first test begins its work after it (admit's comment).              *)
NoWorkAfterPanic ==
  [][panicked \/ (\E r \in Requests : work[r] = "unwinding") =>
       \A r \in Requests : work'[r] = "working" => work[r] = "working"]_vars

(* A server that reports success has left nothing running, lets nothing    *)
(* start any more, and no worker of its session panicked.                  *)
ExitIsHonest ==
  exit = "success" =>
    /\ ~panicked
    /\ \A r \in Requests : work[r] \in {"idle", "refused", "left"}
=============================================================================
