---------------------------- MODULE JobProperties ----------------------------
(* What must hold of JobLifecycle, and the fairness under which.           *)
EXTENDS JobLifecycle

(* The clock runs and the sweeper thread is scheduled; a control that began*)
(* runs to its end on its blocking thread.  Nothing is assumed of the      *)
(* runner: what it executes may never come back.                           *)
Fairness ==
  /\ WF_vars(Tick)
  /\ WF_vars(Sweep)
  /\ \A c \in Clients : WF_vars(CancelApply(c) \/ ControlSignal(c))

FairSpec == Spec /\ Fairness

-----------------------------------------------------------------------------
(* Safety.                                                                 *)

(* Whatever a job started and could not remove keeps the worker slot: the  *)
(* slot is released only after observed cleanup, and no second job runs    *)
(* next to the leftovers of the first (ADR-030, ADR-060, ADR-070).         *)
SlotCoversExecution ==
  /\ live \subseteq SlotHolders
  /\ \A a, b \in SlotHolders : a = b

(* An active record holds the slot, so the registry's own Busy test and the*)
(* semaphore never disagree: a free slot means no active job.              *)
ActiveHoldsSlot ==
  \A j \in Jobs : Active(registry[j]) => j \in SlotHolders

(* A terminal state is visible only after the joined cleanup was observed; *)
(* the one exception is the failure that says cleanup failed.              *)
TerminalMeansJoined ==
  \A j \in Jobs :
    Terminal(registry[j]) /\ registry[j].completion # "cleanup_failed"
      => cleaned[j] /\ j \notin live

(* A settled job whose cleanup was observed gives its slot back: no racing *)
(* finisher (runner, watchdog, shutdown) leaves the release to the others. *)
NoPermitLeak ==
  \A j \in Jobs :
    /\ Terminal(registry[j])
    /\ registry[j].completion # "cleanup_failed"
    /\ runner[j].pc # "release"
    /\ ~(sweep.pc = "release" /\ sweep.job = j)
    => permit[j] = "released"

(* The slot follows the record: it is held as long as the job is active,   *)
(* and comes back when the job has settled over an observed cleanup.       *)
SlotFollowsRecord == ActiveHoldsSlot /\ NoPermitLeak

(* A cleanup declared failed quarantines the session: the sweep that       *)
(* declared it goes on to close the session.                               *)
FailureQuarantines ==
  \A j \in Jobs :
    Terminal(registry[j]) /\ registry[j].completion = "cleanup_failed"
      => session # "open" \/ (sweep.err /\ sweep.pc \notin {"sleep", "stopped"})

(* A watchdog sweep that ends without an error leaves no job past its work *)
(* deadline, and no orphan whose task id never reached the client, as of   *)
(* the clock value the sweep began with.                                   *)
SweepEnforces ==
  Swept /\ sweep.by = "watchdog" /\ ~sweep.err =>
    \A j \in Jobs :
      Active(registry[j]) /\ registry[j].created < sweep.now =>
        /\ ~Reached(After(registry[j].created, WorkTime), sweep.now)
        /\ \/ ~Reached(After(registry[j].created, NonDeliveryTime), sweep.now)
           \/ delivery[j] = "delivered"

-----------------------------------------------------------------------------
(* Why the slot is safe: the inductive invariant.                          *)

(* Nothing exists of a job that was not admitted.                          *)
IdleUntouched ==
  \A j \in Jobs :
    /\ runner[j].pc = "idle" => registry[j] = NoRecord
    /\ runner[j].pc = "idle" <=> permit[j] = "none"

(* Processes exist only from the invocation on; the runner gives up before *)
(* the work only while there are none.                                     *)
WorkBegun(s) ==
  \/ s.pc \in {"busy", "inspect", "finish_check", "finish_revoke",
               "finish_apply", "observe", "release", "done"}
  \/ s.pc \in {"call", "revoke"} /\ s.target \in {"collect", "publish"}
LiveAfterBegin ==
  \A j \in live : WorkBegun(runner[j]) /\ (runner[j].pc = "busy" \/ quarantined)

(* The call that follows the work is the one that enters Collect.          *)
CollectFollowsWork ==
  \A j \in Jobs : runner[j].pc \in {"work", "busy"} => runner[j].target = "collect"

(* The cleanup flag is raised over nothing, and no work begins after it.   *)
CleanedIsOver ==
  \A j \in Jobs : cleaned[j] =>
    /\ j \notin live
    /\ runner[j].pc \in {"decide", "finish_check", "finish_revoke",
                         "finish_apply", "observe", "release", "done"}

(* Every path to a release has seen the flag and settled the record.       *)
ReleaseIsEarned ==
  /\ \A j \in Jobs :
       /\ runner[j].pc \in {"finish_revoke", "finish_apply"} /\ runner[j].observed
            => cleaned[j]
       /\ runner[j].pc = "release" => cleaned[j] /\ ~Active(registry[j])
       /\ permit[j] = "released" => cleaned[j] /\ ~Active(registry[j])
  /\ sweep.pc \in {"finalize", "release"} => cleaned[sweep.job]
  /\ sweep.pc = "release" => ~Active(registry[sweep.job])

(* A record settled without observed cleanup outlives the watchdog: it     *)
(* expires in no sweep, so it keeps the slot of what may still run.        *)
UncleanIsKept ==
  \A j \in Jobs :
    /\ Terminal(registry[j]) =>
         \/ cleaned[j]
         \/ /\ registry[j].completion = "cleanup_failed"
            /\ session # "open" \/ (sweep.err /\ sweep.pc \notin {"sleep", "stopped"})
    /\ Terminal(sweep.todo[j]) => cleaned[j]
    /\ ~Present(registry[j]) => cleaned[j] \/ runner[j].pc = "idle"

OneHolder == \A a, b \in SlotHolders : a = b

(* The inductive invariant of the slot: what keeps permit, record, cleanup *)
(* flag and sweep in step across every interleaving.                       *)
SlotInvariant ==
  /\ IdleUntouched
  /\ LiveAfterBegin
  /\ CollectFollowsWork
  /\ CleanedIsOver
  /\ ReleaseIsEarned
  /\ UncleanIsKept
  /\ OneHolder

-----------------------------------------------------------------------------
(* Steps.                                                                  *)

(* A settled record is never rewritten, by whichever stale snapshot or late*)
(* completion: it only expires.                                            *)
TerminalIsFinal ==
  [][\A j \in Jobs : Terminal(registry[j]) =>
       registry'[j] \in {registry[j], NoRecord}]_vars

(* The first termination intent is the one that is kept, so a cancelled job*)
(* is never rewritten as one that ran out of budget.                       *)
FirstIntentSticks ==
  [][\A j \in Jobs : registry[j].intent # "none" /\ Present(registry'[j])
       => registry'[j].intent = registry[j].intent]_vars

(* A termination intent recorded before the completion write wins: no tool *)
(* result is written over it (run_quality_job's comment on its commit      *)
(* point).                                                                 *)
IntentBeforeCommitWins ==
  [][\A j \in Jobs :
       registry[j].intent # "none" /\ registry[j].completion = "none"
         => registry'[j].completion # "result"]_vars

-----------------------------------------------------------------------------
(* Liveness.                                                               *)

(* Without any help from the work, an admitted job settles or the session  *)
(* ends.                                                                   *)
JobsSettle ==
  \A j \in Jobs : Active(registry[j]) ~> ~Active(registry[j]) \/ session = "closed"

(* A session that began to close finishes its joins.                       *)
ShutdownCompletes == session = "closing" ~> session = "closed"

(* When the runner is scheduled too and the gateway bounds its invocations,*)
(* the slot comes back, unless something was left uncleaned.               *)
SlotReturns ==
  (\A j \in Jobs : WF_vars(Runner(j))) =>
    \A j \in Jobs : j \in SlotHolders ~>
      j \notin SlotHolders \/ quarantined \/ session = "closed"

-----------------------------------------------------------------------------
(* The jobs keep the promise of JobCapacity.                               *)

TaskOf(j) ==
  CASE Active(registry[j])   -> "working"
    [] Terminal(registry[j]) -> registry[j].state
    [] OTHER                 -> IF runner[j].pc = "idle" THEN "none" ELSE "gone"

Capacity == INSTANCE JobCapacity WITH
  task <- [j \in Jobs |-> TaskOf(j)], holder <- SlotHolders, running <- live

(* Every step of the runner, the sweeps and the controls is a step of the  *)
(* abstract capacity or leaves it alone.                                   *)
ImplementsCapacity == Capacity!AbsSpec
=============================================================================
