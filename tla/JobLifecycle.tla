---------------------------- MODULE JobLifecycle ----------------------------
(***************************************************************************)
(* The life of a registry-owned background job: admission against the      *)
(* single worker slot, the runner task that drives it through its phases,  *)
(* the client controls (tasks/get, tasks/update, tasks/cancel), the        *)
(* watchdog sweep and the shutdown sweep.                                  *)
(*                                                                         *)
(* The registry is one mutex; every JobRegistry call is one atomic step.   *)
(* Everything between two registry calls of one executor operation is a    *)
(* point where the other actors may run: the watchdog, the shutdown sweep  *)
(* and the controls execute on blocking threads while the runner is a task *)
(* of the asynchronous runtime.  In particular the termination intent is   *)
(* written to the record first and the job's signal is cancelled in a      *)
(* later step.                                                             *)
(***************************************************************************)
EXTENDS Integers, FiniteSets

CONSTANTS
  Jobs,            (* job ids; an id is random and never drawn twice       *)
  Clients,         (* concurrent control operations                        *)
  Owners,
  Owner,           (* the owner binding a submission of a job carries      *)
  ResultBytes,     (* bytes reserved by every admitted job                 *)
  OwnerEntries, ServerEntries, OwnerBytes, ServerBytes,   (* quotas        *)
  SeedTime, WorkTime, CaptureTime, ExecuteTime, CollectTime, CleanupTime,
  NonDeliveryTime, RetentionTime,
  Revocable,       (* owners whose granted root may be replaced            *)
  MaxClock,        (* horizon: no deadline lies beyond it                  *)
  SpuriousWake,    (* may the single condvar wait of join_cleanup end early*)
  ClockMayFail     (* may the wall clock refuse a timestamp                *)

ASSUME ConstantsAssumption ==
  /\ Owner \in [Jobs -> Owners]
  /\ SeedTime \in Nat /\ WorkTime \in Nat /\ CaptureTime \in Nat
  /\ ExecuteTime \in Nat /\ CollectTime \in Nat /\ CleanupTime \in Nat
  /\ NonDeliveryTime \in Nat /\ RetentionTime \in Nat
  /\ MaxClock \in Nat
  /\ Jobs # {}
  /\ SpuriousWake \in BOOLEAN /\ ClockMayFail \in BOOLEAN

VARIABLES
  clock,           (* the monotonic clock of the executor                  *)
  authority,       (* does LiveJobAuthority revalidate the owner           *)
  registry,        (* InMemoryJobRegistry: a record for each job           *)
  signal,          (* JobExecutionSignal.cancellation                      *)
  cleaned,         (* JobExecutionSignal.cleanup                           *)
  permit,          (* the Option inside JobWorkerPermit                    *)
  delivery,        (* InMemoryDeliveryTracker                              *)
  runner,          (* run_quality_job, one task per admitted job           *)
  live,            (* jobs whose containers or processes still exist       *)
  quarantined,     (* RustProjectInspector::is_quarantined                 *)
  client,          (* control operations in flight                         *)
  sweep,           (* the watchdog, then the shutdown sweep that follows it*)
  session          (* serve: open, closing, closed                         *)

envVars == <<clock, authority>>
signalVars == <<signal, cleaned>>
slotVars == <<permit, delivery>>
executionVars == <<live, quarantined>>
vars == <<clock, authority, registry, signal, cleaned, permit, delivery,
          runner, live, quarantined, client, sweep, session>>

-----------------------------------------------------------------------------
(* Data.                                                                   *)

TerminalStates == {"completed", "failed", "cancelled"}
States  == {"absent", "admitted", "running"} \cup TerminalStates
Phases  == {"admission", "capture", "prepare", "execute", "collect",
            "publish", "cleanup", "terminal"}
Intents == {"none", "client", "nondelivery", "deadline", "revoked", "shutdown"}
Completions == {"none", "result", "internal", "timed_out", "cleanup_failed",
                "unavailable"}
Failures == Completions \ {"none", "result"}

(* `created` stands for the four deadlines fixed at admission (seed, work, *)
(* non-delivery, expiry); `deadline` is the deadline of the phase the      *)
(* record is in, the only one of the other four that active_deadline reads *)
(* (a terminal record has none).                                           *)
Record == [state : States, phase : Phases, intent : Intents,
           completion : Completions, created : Nat, deadline : Nat]

NoRecord == [state |-> "absent", phase |-> "admission", intent |-> "none",
             completion |-> "none", created |-> 0, deadline |-> 0]

Present(r)  == r.state # "absent"
Terminal(r) == r.state \in TerminalStates
Active(r)   == r.state \in {"admitted", "running"}

(* JobDeadline::after, cut at the horizon, and JobDeadline::reached.       *)
After(now, duration) ==
  IF now + duration < MaxClock THEN now + duration ELSE MaxClock
Reached(deadline, now) == now >= deadline

(* Who still owns an Arc of the permit: the record, or the runner's        *)
(* AdmittedTask.  When both are gone its drop returns the slot.            *)
RunnerAlive(j) == runner[j].pc \notin {"idle", "done"}
SlotHolders ==
  {j \in Jobs : /\ permit[j] = "held"
                /\ Present(registry[j]) \/ RunnerAlive(j)}

(* Fault: the latest intent overwrites the first.                          *)
TerminateLatest(r, intent) ==
  [r EXCEPT !.intent = intent, !.phase = "cleanup",
            !.deadline = IF r.phase = "cleanup" THEN @
                         ELSE After(clock, CleanupTime)]

(* request_termination, on the record: the first intent sticks, and the    *)
(* cleanup deadline is set once.                                           *)
Terminate(r, intent) ==
  [r EXCEPT !.intent   = IF @ = "none" THEN intent ELSE @,
            !.phase    = "cleanup",
            !.deadline = IF r.phase = "cleanup" THEN @
                         ELSE After(clock, CleanupTime)]

(* finalize: the state a joined job ends in.                               *)
Finalize(r) ==
  LET timedOut == r.intent = "deadline" /\ r.completion = "none"
      completion == IF timedOut THEN "timed_out" ELSE r.completion
  IN  [r EXCEPT !.phase = "terminal",
                !.deadline = 0,
                !.completion = completion,
                !.state = CASE completion = "result"   -> "completed"
                            [] completion \in Failures -> "failed"
                            [] OTHER                   -> "cancelled"]

(* finalize_joined_cleanup accepts only a record that entered cleanup with *)
(* an intent or a completion.                                              *)
Finalizable(r) ==
  /\ Active(r)
  /\ r.phase = "cleanup"
  /\ r.intent # "none" \/ r.completion # "none"

PhaseTransitions == {<<"capture", "prepare">>, <<"prepare", "execute">>,
                     <<"execute", "collect">>, <<"collect", "publish">>}

(* The record after start (target "capture") or set_phase(target).         *)
MayEnter(r, target) ==
  IF target = "capture"
  THEN r.state = "admitted" /\ r.intent = "none"
  ELSE r.state = "running" /\ <<r.phase, target>> \in PhaseTransitions

PhaseTime(target) ==
  CASE target = "capture" -> CaptureTime
    [] target = "execute" -> ExecuteTime
    [] target = "collect" -> CollectTime
    [] OTHER              -> 0

Enter(r, target) ==
  [r EXCEPT !.state = "running",
            !.phase = target,
            !.deadline = IF target \in {"prepare", "publish"} THEN @
                         ELSE After(clock, PhaseTime(target))]

(* active_deadline, as watchdog_record evaluates it on a snapshot record.  *)
PhaseDeadline(r) ==
  IF r.phase = "admission" THEN After(r.created, SeedTime) ELSE r.deadline

(* Faults: only the deadline of the phase is enforced; none is.            *)
PhaseTimeOnly(r, now) == Reached(PhaseDeadline(r), now)
NeverOutOfTime(r, now) == FALSE

OutOfTime(r, now) ==
  \/ Reached(After(r.created, RetentionTime), now)
  \/ Reached(After(r.created, WorkTime), now)
  \/ Reached(PhaseDeadline(r), now)

-----------------------------------------------------------------------------
(* Types.                                                                  *)

RunnerPcs == {"idle", "register", "call", "revoke", "work",
              "busy", "abort", "inspect", "decide", "finish_check",
              "finish_revoke", "finish_apply", "observe", "release", "done"}
RunnerTargets == {"capture", "prepare", "execute", "collect", "publish"}
RunnerState == [pc : RunnerPcs, target : RunnerTargets,
                completion : Completions, observed : BOOLEAN]

ClientState == [pc : {"idle", "apply", "signal"}, job : Jobs]

SweepPcs == {"sleep", "visit", "terminate", "signal", "recheck", "join",
             "finalize", "release", "fail", "stopped"}
SweepState == [pc : SweepPcs, by : {"watchdog", "shutdown"}, now : Nat,
               todo : [Jobs -> Record], job : Jobs, intent : Intents,
               until : Nat, late : BOOLEAN, err : BOOLEAN]

TypeOK ==
  /\ clock \in Nat
  /\ authority \in [Owners -> BOOLEAN]
  /\ registry \in [Jobs -> Record]
  /\ signal \in [Jobs -> BOOLEAN]
  /\ cleaned \in [Jobs -> BOOLEAN]
  /\ permit \in [Jobs -> {"none", "held", "released"}]
  /\ delivery \in [Jobs -> {"none", "pending", "delivered"}]
  /\ runner \in [Jobs -> RunnerState]
  /\ live \in SUBSET Jobs
  /\ quarantined \in BOOLEAN
  /\ client \in [Clients -> ClientState]
  /\ sweep \in SweepState
  /\ session \in {"open", "closing", "closed"}

NoRunner == [pc |-> "idle", target |-> "capture", completion |-> "internal",
             observed |-> TRUE]
SomeJob == CHOOSE j \in Jobs : TRUE

Init ==
  /\ clock = 0
  /\ authority = [o \in Owners |-> TRUE]
  /\ registry = [j \in Jobs |-> NoRecord]
  /\ signal = [j \in Jobs |-> FALSE]
  /\ cleaned = [j \in Jobs |-> FALSE]
  /\ permit = [j \in Jobs |-> "none"]
  /\ delivery = [j \in Jobs |-> "none"]
  /\ runner = [j \in Jobs |-> NoRunner]
  /\ live = {}
  /\ quarantined = FALSE
  /\ client = [c \in Clients |-> [pc |-> "idle", job |-> SomeJob]]
  /\ sweep = [pc |-> "sleep", by |-> "watchdog", now |-> 0,
              todo |-> [j \in Jobs |-> NoRecord], job |-> SomeJob,
              intent |-> "none", until |-> 0, late |-> FALSE, err |-> FALSE]
  /\ session = "open"

-----------------------------------------------------------------------------
(* The environment: time, the owner's authority, the transport.            *)

Tick ==
  /\ clock < MaxClock
  /\ clock' = clock + 1
  /\ UNCHANGED <<signalVars, slotVars, authority, registry, runner,
                 executionVars, client, sweep, session>>

(* The granted root is replaced, or put back: revalidate reads it live.    *)
ChangeAuthority(o) ==
  /\ o \in Revocable
  /\ session = "open"
  /\ authority' = [authority EXCEPT ![o] = ~@]
  /\ UNCHANGED <<signalVars, slotVars, clock, registry, runner,
                 executionVars, client, sweep, session>>

(* The transport reports that the response carrying the task seed left.    *)
Deliver(j) ==
  /\ session = "open"
  /\ delivery[j] = "pending"
  /\ delivery' = [delivery EXCEPT ![j] = "delivered"]
  /\ UNCHANGED <<envVars, signalVars, registry, permit, runner,
                 executionVars, client, sweep, session>>

(* The peer closes the stream.                                             *)
Disconnect ==
  /\ session = "open"
  /\ session' = "closing"
  /\ UNCHANGED <<envVars, signalVars, slotVars, registry, runner,
                 executionVars, client, sweep>>

-----------------------------------------------------------------------------
(* Admission: Tasks::admit and submit_guarded.  The rejecting paths give   *)
(* the permit back before they return and leave no other trace, so only    *)
(* the accepting one changes state.  A handler already running when the    *)
(* transport closes may still admit.                                       *)

Stored == {j \in Jobs : Present(registry[j])}
StoredOf(o) == {j \in Stored : Owner[j] = o}

QuotaAllows(j) ==
  /\ Cardinality(StoredOf(Owner[j])) < OwnerEntries
  /\ Cardinality(Stored) < ServerEntries
  /\ (Cardinality(StoredOf(Owner[j])) + 1) * ResultBytes <= OwnerBytes
  /\ (Cardinality(Stored) + 1) * ResultBytes <= ServerBytes

Admit(j) ==
  /\ session # "closed"
  /\ runner[j].pc = "idle"
  /\ SlotHolders = {}
  /\ authority[Owner[j]]
  /\ \A k \in Jobs : ~Active(registry[k])
  /\ QuotaAllows(j)
  /\ permit' = [permit EXCEPT ![j] = "held"]
  /\ registry' = [registry EXCEPT ![j] =
       [NoRecord EXCEPT !.state = "admitted", !.created = clock]]
  /\ runner' = [runner EXCEPT ![j].pc = "register"]
  /\ UNCHANGED <<envVars, signalVars, delivery, executionVars, client, sweep,
                 session>>

(* delivery.register follows the insertion; the runner is spawned next.    *)
Register(j) ==
  /\ runner[j].pc = "register"
  /\ delivery' = [delivery EXCEPT ![j] =
                    IF @ = "none" THEN "pending" ELSE @]
  /\ runner' = [runner EXCEPT ![j].pc = "call"]
  /\ UNCHANGED <<envVars, signalVars, registry, permit, executionVars,
                 client, sweep, session>>

-----------------------------------------------------------------------------
(* The runner.  `target` is the phase of the start or set_phase call it is *)
(* making while it is at "call".                                           *)

(* Where a call leaves the runner: a failure up to Execute ends the job    *)
(* before any work, the failures of Collect and Publish are ignored.       *)
AfterCall(s, ok) ==
  CASE s.target = "capture" /\ ok -> [s EXCEPT !.pc = "call", !.target = "prepare"]
    [] s.target = "prepare" /\ ok -> [s EXCEPT !.pc = "call", !.target = "execute"]
    [] s.target = "execute" /\ ok -> [s EXCEPT !.pc = "work", !.target = "collect"]
    [] s.target = "collect"       -> [s EXCEPT !.pc = "call", !.target = "publish"]
    [] s.target = "publish"       -> [s EXCEPT !.pc = "inspect"]
    [] OTHER                      -> [s EXCEPT !.pc = "abort"]

RunnerGoes(j, s) == runner' = [runner EXCEPT ![j] = s]
RunnerAt(j, pc) == RunnerGoes(j, [runner[j] EXCEPT !.pc = pc])
RunnerDone(j) == RunnerGoes(j, [NoRunner EXCEPT !.pc = "done"])

(* start (target "capture") and set_phase: revalidate, then mutate.  The   *)
(* two are one step here: the mutation tests the record again, so only an  *)
(* authority lost in between goes unseen, as if it were lost just after.   *)
RunnerCall(j) ==
  /\ runner[j].pc = "call"
  /\ LET r  == registry[j]
         ok == MayEnter(r, runner[j].target)
     IN  IF ~authority[Owner[j]] /\ Active(r)
         THEN /\ registry' = [registry EXCEPT ![j] = Terminate(r, "revoked")]
              /\ RunnerAt(j, "revoke")
         ELSE IF authority[Owner[j]] /\ ok
         THEN /\ registry' = [registry EXCEPT ![j] = Enter(r, runner[j].target)]
              /\ RunnerGoes(j, AfterCall(runner[j], TRUE))
         ELSE RunnerGoes(j, AfterCall(runner[j], FALSE)) /\ UNCHANGED registry
  /\ UNCHANGED <<envVars, signalVars, slotVars, executionVars, client, sweep,
                 session>>

(* The termination that follows a failed revalidation cancels the signal.  *)
RunnerRevoke(j) ==
  /\ runner[j].pc = "revoke"
  /\ signal' = [signal EXCEPT ![j] = TRUE]
  /\ RunnerGoes(j, AfterCall(runner[j], FALSE))
  /\ UNCHANGED <<envVars, slotVars, registry, cleaned, executionVars, client,
                 sweep, session>>

(* run_joined_with: a cancellation of the job or of the session seen on    *)
(* the blocking thread ends the invocation before the work.                *)
RunnerSkip(j) ==
  /\ runner[j].pc = "work"
  /\ signal[j] \/ session # "open"
  /\ \E outcome \in {"result", "internal"} :
       RunnerGoes(j, [runner[j] EXCEPT !.pc = "call", !.completion = outcome])
  /\ UNCHANGED <<envVars, signalVars, slotVars, registry, executionVars,
                 client, sweep, session>>

RunnerBegin(j) ==
  /\ runner[j].pc = "work"
  /\ ~signal[j]
  /\ live' = live \cup {j}
  /\ RunnerAt(j, "busy")
  /\ UNCHANGED <<envVars, signalVars, slotVars, registry, quarantined,
                 client, sweep, session>>

(* The invocation returns: with a tool result, with one too large or not   *)
(* serializable, or with an error; and the gateway has removed every       *)
(* runtime object, or could not and quarantined itself.                    *)
RunnerEnd(j) ==
  /\ runner[j].pc = "busy"
  /\ \E outcome \in {"result", "internal", "unavailable"} :
       RunnerGoes(j, [runner[j] EXCEPT !.pc = "call", !.completion = outcome])
  /\ \/ live' = live \ {j} /\ UNCHANGED quarantined
     \/ quarantined' = TRUE /\ UNCHANGED live
  /\ UNCHANGED <<envVars, signalVars, slotVars, registry, client, sweep,
                 session>>

(* No work ran: cleanup is attested at once.                               *)
RunnerAbort(j) ==
  /\ runner[j].pc = "abort"
  /\ cleaned' = [cleaned EXCEPT ![j] = TRUE]
  /\ RunnerGoes(j, [runner[j] EXCEPT !.pc = "decide", !.completion = "internal"])
  /\ UNCHANGED <<envVars, slotVars, registry, signal, executionVars, client,
                 sweep, session>>

(* Fault: a returned worker is taken for evidence of cleanup.              *)
InspectTrusting(j) ==
  /\ runner[j].pc = "inspect"
  /\ cleaned' = [cleaned EXCEPT ![j] = TRUE]
  /\ RunnerAt(j, "decide")
  /\ UNCHANGED <<envVars, slotVars, registry, signal, executionVars, client,
                 sweep, session>>

(* A returned worker is not evidence of cleanup once the inspector is      *)
(* quarantined: the signal is never set and finish reports Uncertain.      *)
RunnerInspect(j) ==
  /\ runner[j].pc = "inspect"
  /\ IF quarantined
     THEN /\ RunnerGoes(j, [runner[j] EXCEPT !.pc = "finish_check",
                               !.completion = "cleanup_failed", !.observed = FALSE])
          /\ UNCHANGED cleaned
     ELSE /\ cleaned' = [cleaned EXCEPT ![j] = TRUE]
          /\ RunnerAt(j, "decide")
  /\ UNCHANGED <<envVars, slotVars, registry, signal, executionVars, client,
                 sweep, session>>

(* The last look at the signal before the completion write.                *)
RunnerDecide(j) ==
  /\ runner[j].pc = "decide"
  /\ RunnerAt(j, IF signal[j] THEN "observe" ELSE "finish_check")
  /\ UNCHANGED <<envVars, signalVars, slotVars, registry, executionVars,
                 client, sweep, session>>

(* finish, up to its revalidation.                                         *)
FinishCheck(j) ==
  /\ runner[j].pc = "finish_check"
  /\ LET r == registry[j]
         s == [runner[j] EXCEPT !.observed = @ /\ cleaned[j]]
         rejected == [s EXCEPT !.completion = "unavailable"]
     IN  IF ~Present(r)
         THEN RunnerDone(j) /\ UNCHANGED registry
         ELSE IF authority[Owner[j]]
         THEN RunnerGoes(j, [s EXCEPT !.pc = "finish_apply"]) /\ UNCHANGED registry
         ELSE IF Active(r)
         THEN /\ registry' = [registry EXCEPT ![j] = Terminate(r, "revoked")]
              /\ RunnerGoes(j, [rejected EXCEPT !.pc = "finish_revoke"])
         ELSE RunnerGoes(j, [rejected EXCEPT !.pc = "finish_apply"]) /\ UNCHANGED registry
  /\ UNCHANGED <<envVars, signalVars, slotVars, executionVars, client, sweep,
                 session>>

FinishRevoke(j) ==
  /\ runner[j].pc = "finish_revoke"
  /\ signal' = [signal EXCEPT ![j] = TRUE]
  /\ RunnerAt(j, "finish_apply")
  /\ UNCHANGED <<envVars, slotVars, registry, cleaned, executionVars, client,
                 sweep, session>>

(* The completion write: a terminal record is left alone; otherwise the    *)
(* completion and a fresh cleanup deadline are stored, and the job ends    *)
(* here when its cleanup was observed.                                     *)
FinishApply(j) ==
  /\ runner[j].pc = "finish_apply"
  /\ LET r == registry[j]
         s == runner[j]
         stored == [r EXCEPT !.phase = "cleanup", !.completion = s.completion,
                             !.deadline = After(clock, CleanupTime)]
     IN  IF Active(r)
         THEN /\ registry' = [registry EXCEPT ![j] =
                                IF s.observed THEN Finalize(stored) ELSE stored]
              /\ IF s.observed THEN RunnerAt(j, "release") ELSE RunnerDone(j)
         ELSE RunnerDone(j) /\ UNCHANGED registry
  /\ UNCHANGED <<envVars, signalVars, slotVars, executionVars, client, sweep,
                 session>>

(* observe_cleanup after a cancellation.                                   *)
RunnerObserve(j) ==
  /\ runner[j].pc = "observe"
  /\ IF cleaned[j] /\ Finalizable(registry[j])
     THEN /\ registry' = [registry EXCEPT ![j] = Finalize(@)]
          /\ RunnerAt(j, "release")
     ELSE RunnerDone(j) /\ UNCHANGED registry
  /\ UNCHANGED <<envVars, signalVars, slotVars, executionVars, client, sweep,
                 session>>

(* release_and_event looks the record up again; a record that is gone      *)
(* leaves the permit to be dropped with its last owner.                    *)
ReleasePermit(j) ==
  /\ permit'   = [permit EXCEPT ![j] = IF Present(registry[j]) THEN "released" ELSE @]
  /\ delivery' = [delivery EXCEPT ![j] = IF Present(registry[j]) THEN "none" ELSE @]

RunnerRelease(j) ==
  /\ runner[j].pc = "release"
  /\ ReleasePermit(j)
  /\ RunnerDone(j)
  /\ UNCHANGED <<envVars, signalVars, registry, executionVars, client, sweep,
                 session>>

(* bounded_timestamp refuses the wall clock: the call ends before its      *)
(* registry mutation, and the runner ignores or aborts on the error.       *)
RunnerClockFails(j) ==
  /\ ClockMayFail
  /\ \/ /\ runner[j].pc = "call"
        /\ RunnerGoes(j, AfterCall(runner[j], FALSE))
     \/ /\ runner[j].pc \in {"finish_check", "finish_apply", "observe"}
        /\ RunnerDone(j)
  /\ UNCHANGED <<envVars, signalVars, slotVars, registry, executionVars,
                 client, sweep, session>>

-----------------------------------------------------------------------------
(* The controls.  get, update and cancel all begin with `authorized`, which*)
(* terminates an active job whose authority is gone.                       *)

ControlRevoked(c, j) ==
  /\ session = "open"
  /\ client[c].pc = "idle"
  /\ Active(registry[j])
  /\ ~authority[Owner[j]]
  /\ registry' = [registry EXCEPT ![j] = Terminate(@, "revoked")]
  /\ client' = [client EXCEPT ![c] = [pc |-> "signal", job |-> j]]
  /\ UNCHANGED <<envVars, signalVars, slotVars, runner, executionVars, sweep,
                 session>>

CancelCheck(c, j) ==
  /\ session = "open"
  /\ client[c].pc = "idle"
  /\ Present(registry[j])
  /\ authority[Owner[j]]
  /\ client' = [client EXCEPT ![c] = [pc |-> "apply", job |-> j]]
  /\ UNCHANGED <<envVars, signalVars, slotVars, registry, runner,
                 executionVars, sweep, session>>

(* Fault: cancel does not test whether the job has settled meanwhile.      *)
CancelAnyway(c) ==
  /\ client[c].pc = "apply"
  /\ registry' = [registry EXCEPT ![client[c].job] =
                    IF Present(@) THEN Terminate(@, "client") ELSE @]
  /\ client' = [client EXCEPT ![c].pc = "signal"]
  /\ UNCHANGED <<envVars, signalVars, slotVars, runner, executionVars, sweep,
                 session>>

CancelApply(c) ==
  /\ client[c].pc = "apply"
  /\ LET j == client[c].job IN
     IF Active(registry[j])
     THEN /\ registry' = [registry EXCEPT ![j] = Terminate(@, "client")]
          /\ client' = [client EXCEPT ![c].pc = "signal"]
     ELSE client' = [client EXCEPT ![c].pc = "idle"] /\ UNCHANGED registry
  /\ UNCHANGED <<envVars, signalVars, slotVars, runner, executionVars, sweep,
                 session>>

ControlSignal(c) ==
  /\ client[c].pc = "signal"
  /\ signal' = [signal EXCEPT ![client[c].job] = TRUE]
  /\ client' = [client EXCEPT ![c].pc = "idle"]
  /\ UNCHANGED <<envVars, slotVars, registry, cleaned, runner, executionVars,
                 sweep, session>>

ControlClockFails(c) ==
  /\ ClockMayFail
  /\ client[c].pc = "apply"
  /\ client' = [client EXCEPT ![c].pc = "idle"]
  /\ UNCHANGED <<envVars, signalVars, slotVars, registry, runner,
                 executionVars, sweep, session>>

-----------------------------------------------------------------------------
(* The sweeps.  The watchdog works on the records and on the clock value it*)
(* read when the sweep began; the shutdown sweep follows the last one.     *)

Idle(s) == [s EXCEPT !.job = SomeJob, !.intent = "none", !.until = 0,
                     !.late = FALSE]
SweepAt(pc) == sweep' = [sweep EXCEPT !.pc = pc]
NextVisit(err) ==
  sweep' = [Idle(sweep) EXCEPT !.pc = "visit", !.err = @ \/ err]
JoinFor(duration, late) ==
  sweep' = [sweep EXCEPT !.pc = "join", !.until = After(clock, duration),
                         !.late = late]

WatchdogBegin ==
  /\ session = "open"
  /\ sweep.pc = "sleep"
  /\ sweep' = [sweep EXCEPT !.pc = "visit", !.now = clock, !.todo = registry,
                            !.err = FALSE]
  /\ UNCHANGED <<envVars, signalVars, slotVars, registry, runner,
                 executionVars, client, session>>

(* Fault: only a failed watchdog is followed by the shutdown sweep.        *)
ShutdownAfterFailure ==
  /\ session = "closing"
  /\ sweep.by = "watchdog"
  /\ sweep.pc = "stopped"
  /\ sweep' = [sweep EXCEPT !.pc = "visit", !.by = "shutdown", !.err = FALSE,
                  !.todo = [j \in Jobs |-> IF Active(registry[j])
                                           THEN registry[j] ELSE NoRecord]]
  /\ UNCHANGED <<envVars, signalVars, slotVars, registry, runner,
                 executionVars, client, session>>

(* serve stops the watchdog after the sweep it is in, then joins what is   *)
(* still active.                                                           *)
ShutdownBegin ==
  /\ session = "closing"
  /\ sweep.by = "watchdog"
  /\ sweep.pc \in {"sleep", "stopped"}
  /\ sweep' = [sweep EXCEPT !.pc = "visit", !.by = "shutdown", !.err = FALSE,
                  !.todo = [j \in Jobs |-> IF Active(registry[j])
                                           THEN registry[j] ELSE NoRecord]]
  /\ UNCHANGED <<envVars, signalVars, slotVars, registry, runner,
                 executionVars, client, session>>

(* watchdog_record up to its first registry call, on the snapshot record.  *)
WatchdogVisit(j) ==
  LET r    == sweep.todo[j]
      rest == [sweep EXCEPT !.todo[j] = NoRecord,
                            !.job = IF Terminal(r) THEN @ ELSE j]
      wait == IF r.deadline > sweep.now THEN r.deadline - sweep.now ELSE 0
      orphan == /\ Reached(After(r.created, NonDeliveryTime), sweep.now)
                /\ delivery[j] # "delivered"
  IN
  /\ sweep.pc = "visit"
  /\ sweep.by = "watchdog"
  /\ Present(r)
  /\ sweep' =
       IF Terminal(r) THEN rest
       ELSE IF r.phase = "cleanup"
       THEN [rest EXCEPT !.pc = "join", !.until = After(clock, wait),
                         !.late = Reached(r.deadline, sweep.now)]
       ELSE IF OutOfTime(r, sweep.now)
       THEN [rest EXCEPT !.pc = "terminate", !.intent = "deadline"]
       ELSE IF orphan
       THEN [rest EXCEPT !.pc = "terminate", !.intent = "nondelivery"]
       ELSE [rest EXCEPT !.pc = "recheck"]
  /\ registry' = [registry EXCEPT ![j] =
       IF Terminal(r) /\ Reached(After(r.created, RetentionTime), sweep.now)
       THEN NoRecord ELSE @]
  /\ UNCHANGED <<envVars, signalVars, slotVars, runner, executionVars,
                 client, session>>

ShutdownVisit(j) ==
  /\ sweep.pc = "visit"
  /\ sweep.by = "shutdown"
  /\ Present(sweep.todo[j])
  /\ sweep' = [sweep EXCEPT !.todo[j] = NoRecord, !.job = j,
                            !.pc = "terminate", !.intent = "shutdown"]
  /\ UNCHANGED <<envVars, signalVars, slotVars, registry, runner,
                 executionVars, client, session>>

SweepTerminate ==
  LET j == sweep.job
      r == registry[j]
  IN
  /\ sweep.pc = "terminate"
  /\ registry' = [registry EXCEPT ![j] =
                    IF Active(r) THEN Terminate(r, sweep.intent) ELSE @]
  /\ CASE Active(r)   -> SweepAt("signal")
       [] ~Present(r) -> NextVisit(TRUE)
       [] OTHER       -> IF sweep.by = "shutdown"
                         THEN JoinFor(CleanupTime, FALSE)
                         ELSE SweepAt("recheck")
  /\ UNCHANGED <<envVars, signalVars, slotVars, runner, executionVars,
                 client, session>>

SweepSignal ==
  /\ sweep.pc = "signal"
  /\ signal' = [signal EXCEPT ![sweep.job] = TRUE]
  /\ IF sweep.by = "shutdown" THEN JoinFor(CleanupTime, FALSE)
                              ELSE SweepAt("recheck")
  /\ UNCHANGED <<envVars, slotVars, registry, cleaned, runner, executionVars,
                 client, session>>

WatchdogRecheck ==
  LET r == registry[sweep.job] IN
  /\ sweep.pc = "recheck"
  /\ IF Present(r) /\ r.phase = "cleanup" THEN JoinFor(CleanupTime, FALSE)
     ELSE NextVisit(~Present(r))
  /\ UNCHANGED <<envVars, signalVars, slotVars, registry, runner,
                 executionVars, client, session>>

JoinObserved ==
  /\ sweep.pc = "join"
  /\ cleaned[sweep.job]
  /\ SweepAt("finalize")
  /\ UNCHANGED <<envVars, signalVars, slotVars, registry, runner,
                 executionVars, client, session>>

(* Fault: an uncertain cleanup is taken for an observed one.               *)
JoinAssumed ==
  /\ sweep.pc = "join"
  /\ ~cleaned[sweep.job]
  /\ Reached(sweep.until, clock) \/ SpuriousWake
  /\ SweepAt("finalize")
  /\ UNCHANGED <<envVars, signalVars, slotVars, registry, runner,
                 executionVars, client, session>>

(* A single wait_timeout: the flag is read again when the wait ends.       *)
JoinUncertain ==
  /\ sweep.pc = "join"
  /\ ~cleaned[sweep.job]
  /\ Reached(sweep.until, clock) \/ SpuriousWake
  /\ IF sweep.late THEN SweepAt("fail") ELSE NextVisit(TRUE)
  /\ UNCHANGED <<envVars, signalVars, slotVars, registry, runner,
                 executionVars, client, session>>

(* Fault: the sweep settles a job and leaves the slot to the runner.       *)
FinalizeNoRelease ==
  LET j == sweep.job
      r == registry[j]
  IN
  /\ sweep.pc = "finalize"
  /\ registry' = [registry EXCEPT ![j] = IF Finalizable(r) THEN Finalize(r) ELSE @]
  /\ NextVisit(~Finalizable(r) /\ ~Terminal(r))
  /\ UNCHANGED <<envVars, signalVars, slotVars, runner, executionVars,
                 client, session>>

SweepFinalize ==
  LET j == sweep.job
      r == registry[j]
  IN
  /\ sweep.pc = "finalize"
  /\ registry' = [registry EXCEPT ![j] = IF Finalizable(r) THEN Finalize(r) ELSE @]
  /\ IF Finalizable(r) THEN SweepAt("release") ELSE NextVisit(~Terminal(r))
  /\ UNCHANGED <<envVars, signalVars, slotVars, runner, executionVars,
                 client, session>>

SweepRelease ==
  /\ sweep.pc = "release"
  /\ ReleasePermit(sweep.job)
  /\ NextVisit(~Present(registry[sweep.job]))
  /\ UNCHANGED <<envVars, signalVars, registry, runner, executionVars,
                 client, session>>

(* Fault: a failed cleanup is recorded and the sweep reports no error.     *)
FailQuietly ==
  LET j == sweep.job
      r == registry[j]
  IN
  /\ sweep.pc = "fail"
  /\ registry' = [registry EXCEPT ![j] =
       IF Active(r) /\ r.phase = "cleanup"
       THEN [r EXCEPT !.state = "failed", !.phase = "terminal",
                      !.deadline = 0, !.completion = "cleanup_failed"]
       ELSE @]
  /\ NextVisit(FALSE)
  /\ UNCHANGED <<envVars, signalVars, slotVars, runner, executionVars,
                 client, session>>

(* fail_cleanup: the job fails, its permit is deliberately not released.   *)
SweepFail ==
  LET j == sweep.job
      r == registry[j]
  IN
  /\ sweep.pc = "fail"
  /\ registry' = [registry EXCEPT ![j] =
       IF Active(r) /\ r.phase = "cleanup"
       THEN [r EXCEPT !.state = "failed", !.phase = "terminal",
                      !.deadline = 0, !.completion = "cleanup_failed"]
       ELSE @]
  /\ NextVisit(TRUE)
  /\ UNCHANGED <<envVars, signalVars, slotVars, runner, executionVars,
                 client, session>>

SweepClockFails ==
  /\ ClockMayFail
  /\ sweep.pc \in {"terminate", "finalize", "fail"}
  /\ NextVisit(TRUE)
  /\ UNCHANGED <<envVars, signalVars, slotVars, registry, runner,
                 executionVars, client, session>>

Swept == sweep.pc = "visit" /\ \A j \in Jobs : ~Present(sweep.todo[j])

(* Fault: the watchdog sweeps on after an error.                           *)
WatchdogSweepsOn ==
  /\ sweep.by = "watchdog"
  /\ Swept
  /\ sweep' = [sweep EXCEPT !.pc = "sleep", !.now = 0]
  /\ UNCHANGED <<envVars, signalVars, slotVars, registry, runner,
                 executionVars, client, session>>

(* Any error of a sweep, an uncertain cleanup included, fails the session  *)
(* and ends the watchdog.                                                  *)
WatchdogEnd ==
  /\ sweep.by = "watchdog"
  /\ Swept
  /\ sweep' = [sweep EXCEPT !.pc = IF sweep.err THEN "stopped" ELSE "sleep",
                            !.now = 0]
  /\ session' = IF sweep.err THEN "closing" ELSE session
  /\ UNCHANGED <<envVars, signalVars, slotVars, registry, runner,
                 executionVars, client>>

ShutdownEnd ==
  /\ sweep.by = "shutdown"
  /\ Swept
  /\ SweepAt("stopped")
  /\ session' = "closed"
  /\ UNCHANGED <<envVars, signalVars, slotVars, registry, runner,
                 executionVars, client>>

-----------------------------------------------------------------------------
Runner(j) ==
  \/ Register(j)
  \/ RunnerCall(j)
  \/ RunnerRevoke(j)
  \/ RunnerSkip(j)
  \/ RunnerBegin(j)
  \/ RunnerEnd(j)
  \/ RunnerAbort(j)
  \/ RunnerInspect(j)
  \/ RunnerDecide(j)
  \/ FinishCheck(j)
  \/ FinishRevoke(j)
  \/ FinishApply(j)
  \/ RunnerObserve(j)
  \/ RunnerRelease(j)
  \/ RunnerClockFails(j)

Control(c) ==
  \/ \E j \in Jobs : ControlRevoked(c, j)
  \/ \E j \in Jobs : CancelCheck(c, j)
  \/ CancelApply(c)
  \/ ControlSignal(c)
  \/ ControlClockFails(c)

Sweep ==
  \/ WatchdogBegin
  \/ ShutdownBegin
  \/ \E j \in Jobs : WatchdogVisit(j)
  \/ \E j \in Jobs : ShutdownVisit(j)
  \/ SweepTerminate
  \/ SweepSignal
  \/ WatchdogRecheck
  \/ JoinObserved
  \/ JoinUncertain
  \/ SweepFinalize
  \/ SweepRelease
  \/ SweepFail
  \/ SweepClockFails
  \/ WatchdogEnd
  \/ ShutdownEnd

Environment ==
  \/ Tick
  \/ Disconnect
  \/ \E o \in Owners : ChangeAuthority(o)
  \/ \E j \in Jobs : Deliver(j)
  \/ \E j \in Jobs : Admit(j)

(* The session is over: nothing is left to run.                            *)
Ended ==
  /\ session = "closed"
  /\ \A j \in Jobs : ~RunnerAlive(j)
  /\ UNCHANGED vars

Next ==
  \/ Environment
  \/ \E j \in Jobs : Runner(j)
  \/ \E c \in Clients : Control(c)
  \/ Sweep
  \/ Ended

Spec == Init /\ [][Next]_vars
=============================================================================
