------------------------------ MODULE WorkerSlot ------------------------------
(***************************************************************************)
(* The single worker slot behind every synchronous tool: Workers::run and  *)
(* run_joined admit a call without a queue, move its work to a blocking    *)
(* thread that owns the permit, and answer the waiter.  A worker that      *)
(* panics latches the failure before its permit returns.                   *)
(*                                                                         *)
(* Admission runs on the one runtime thread, so two admissions never       *)
(* interleave; the blocking threads run between any two of its steps.      *)
(***************************************************************************)
EXTENDS FiniteSets

CONSTANTS
  Calls,
  Joined           (* calls of run_joined; the others use run              *)

VARIABLES
  slot,            (* the call that owns the semaphore's permit, or free   *)
  panicked,        (* Workers.panicked                                     *)
  work,            (* how far each call's body is                          *)
  answer,          (* what the waiter returned to its handler              *)
  local,           (* calls whose local token the drop guard cancelled     *)
  cancelled,       (* calls whose request token is cancelled               *)
  stop             (* the session token                                    *)

workerVars == <<slot, panicked, work, answer, local>>

Free == "free"
Pcs == {"idle", "acquire", "second", "spawned", "working", "unwinding",
        "leaving", "left", "refused"}
Answers == {"none", "refused", "ended", "stopped", "dropped"}

WorkersTypeOK ==
  /\ slot \in Calls \cup {Free}
  /\ panicked \in BOOLEAN
  /\ work \in [Calls -> Pcs]
  /\ answer \in [Calls -> Answers]
  /\ local \subseteq Calls

WorkersInit ==
  /\ slot = Free
  /\ panicked = FALSE
  /\ work = [c \in Calls |-> "idle"]
  /\ answer = [c \in Calls |-> "none"]
  /\ local = {}

(* No call is in the middle of admit: the runtime thread is free.          *)
RuntimeFree == \A c \in Calls : work[c] \notin {"acquire", "second"}

(* Control::check_worker; the deadline may pass at any time.               *)
Signalled(c) == stop \/ c \in cancelled \/ c \in local

Goes(c, pc) == work' = [work EXCEPT ![c] = pc]
Reply(c, a) == answer' = [answer EXCEPT ![c] = a]
Refuse(c) == Goes(c, "refused") /\ Reply(c, "refused")

-----------------------------------------------------------------------------
(* Admission: the control, the latch, the semaphore, the latch again.      *)

(* Interrupted, past the deadline, or an earlier worker panicked.          *)
Enter(c) ==
  /\ work[c] = "idle" /\ RuntimeFree
  /\ \/ Refuse(c)
     \/ ~Signalled(c) /\ ~panicked /\ Goes(c, "acquire") /\ UNCHANGED answer
  /\ UNCHANGED <<slot, panicked, local>>

Acquire(c) ==
  /\ work[c] = "acquire"
  /\ \/ slot = Free /\ slot' = c /\ Goes(c, "second") /\ UNCHANGED answer
     \/ slot # Free /\ Refuse(c) /\ UNCHANGED slot
  /\ UNCHANGED <<panicked, local>>

(* Fault: the latch is not read again.                                     *)
RecheckTrusting(c) ==
  /\ work[c] = "second"
  /\ Goes(c, "spawned")
  /\ UNCHANGED <<slot, panicked, answer, local>>

Recheck(c) ==
  /\ work[c] = "second"
  /\ \/ panicked /\ slot' = Free /\ Refuse(c)
     \/ ~panicked /\ Goes(c, "spawned") /\ UNCHANGED <<slot, answer>>
  /\ UNCHANGED <<panicked, local>>

-----------------------------------------------------------------------------
(* The blocking thread.                                                    *)

Start(c) ==
  /\ work[c] = "spawned"
  /\ \/ Goes(c, "leaving")
     \/ ~Signalled(c) /\ Goes(c, "working")
  /\ UNCHANGED <<slot, panicked, answer, local>>

Return(c) ==
  /\ work[c] = "working"
  /\ Goes(c, "leaving")
  /\ UNCHANGED <<slot, panicked, answer, local>>

(* Fault: the permit is dropped before the latch.                          *)
PanicReleasing(c) ==
  /\ work[c] = "working"
  /\ Goes(c, "unwinding")
  /\ slot' = Free
  /\ UNCHANGED <<panicked, answer, local>>

Panic(c) ==
  /\ work[c] = "working"
  /\ Goes(c, "unwinding")
  /\ UNCHANGED <<slot, panicked, answer, local>>

(* PanicLatch::drop, while unwinding and before the permit.                *)
Latch(c) ==
  /\ work[c] = "unwinding"
  /\ panicked' = TRUE
  /\ Goes(c, "leaving")
  /\ UNCHANGED <<slot, answer, local>>

Leave(c) ==
  /\ work[c] = "leaving"
  /\ slot' = Free
  /\ Goes(c, "left")
  /\ UNCHANGED <<panicked, answer, local>>

-----------------------------------------------------------------------------
(* The waiter, on the runtime thread.                                      *)

Begun(c) == work[c] \notin {"idle", "acquire", "second", "refused"}

(* run_joined waits for the end of the body, run at most until a signal.   *)
Join(c) ==
  /\ answer[c] = "none" /\ work[c] = "left" /\ RuntimeFree
  /\ Reply(c, "ended")
  /\ UNCHANGED <<slot, panicked, work, local>>

GiveUp(c) ==
  /\ c \notin Joined
  /\ answer[c] = "none" /\ Begun(c) /\ RuntimeFree
  /\ Reply(c, "stopped")
  /\ local' = local \cup {c}
  /\ UNCHANGED <<slot, panicked, work>>

(* The handler's future is dropped: the guard cancels the local token.     *)
Abandon(c) ==
  /\ answer[c] = "none" /\ Begun(c) /\ RuntimeFree
  /\ Reply(c, "dropped")
  /\ local' = local \cup {c}
  /\ UNCHANGED <<slot, panicked, work>>

Thread(c) ==
  Start(c) \/ Return(c) \/ Panic(c) \/ Latch(c) \/ Leave(c)
Waiter(c) == Enter(c) \/ Acquire(c) \/ Recheck(c) \/ Join(c) \/ GiveUp(c)
=============================================================================
