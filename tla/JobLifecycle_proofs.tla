------------------------ MODULE JobLifecycle_proofs ------------------------
(* Proofs, for every number of jobs, clients and owners and for every      *)
(* choice of the deadlines, of what JobProperties states about types, the  *)
(* worker slot, settled records and the sweeps, and that the jobs          *)
(* implement JobCapacity.                                                  *)
EXTENDS JobProperties, TLAPS

-----------------------------------------------------------------------------
(* What the operators on records return.                                   *)

(* A deadline is a number whatever the clock and the duration.             *)
LEMMA AfterType ==
  ASSUME NEW now \in Nat, NEW duration \in Nat
  PROVE  After(now, duration) \in Nat
BY ConstantsAssumption DEF After

(* The value that stands for an id without a record is well typed.         *)
LEMMA NoRecordType == NoRecord \in Record
BY DEF NoRecord, Record, States, TerminalStates, Phases, Intents, Completions

(* Terminating a record gives a record that is in cleanup and as active as *)
(* before.                                                                 *)
LEMMA TerminateType ==
  ASSUME TypeOK, NEW r \in Record, NEW intent \in Intents
  PROVE  /\ Terminate(r, intent) \in Record
         /\ Terminate(r, intent).state = r.state
         /\ Terminate(r, intent).completion = r.completion
         /\ r.intent # "none" => Terminate(r, intent).intent = r.intent
<1>1. After(clock, CleanupTime) \in Nat
  BY AfterType, ConstantsAssumption DEF TypeOK
<1>2. QED
  BY <1>1 DEF Terminate, Record, Phases, Intents

(* Finalizing gives a terminal record.                                     *)
LEMMA FinalizeType ==
  ASSUME NEW r \in Record
  PROVE  /\ Finalize(r) \in Record
         /\ Terminal(Finalize(r))
         /\ Finalize(r).intent = r.intent
<1> DEFINE completion == IF r.intent = "deadline" /\ r.completion = "none"
                         THEN "timed_out" ELSE r.completion
           state == CASE completion = "result"   -> "completed"
                      [] completion \in Failures -> "failed"
                      [] OTHER                   -> "cancelled"
<1>1. completion \in Completions
  BY DEF Record, Completions
<1>2. state \in TerminalStates
  BY DEF TerminalStates
<1>3. Finalize(r) = [r EXCEPT !.phase = "terminal", !.deadline = 0,
                              !.completion = completion, !.state = state]
  BY DEF Finalize
<1>4. PICK c \in Completions, s \in TerminalStates :
        Finalize(r) = [r EXCEPT !.phase = "terminal", !.deadline = 0,
                                !.completion = c, !.state = s]
  BY <1>1, <1>2, <1>3, Zenon
<1>5. s \in States /\ "terminal" \in Phases
  BY DEF States, Phases
<1> DEFINE settled == [r EXCEPT !.phase = "terminal", !.deadline = 0,
                                !.completion = c, !.state = s]
<1>6. settled \in Record /\ settled.state = s /\ settled.intent = r.intent
  BY <1>5 DEF Record
<1>7. QED
  BY <1>4, <1>6 DEF Terminal

(* Entering a phase gives a running record.                                *)
LEMMA EnterType ==
  ASSUME TypeOK, NEW r \in Record, NEW target \in RunnerTargets
  PROVE  /\ Enter(r, target) \in Record
         /\ Enter(r, target).state = "running"
         /\ Enter(r, target).intent = r.intent
<1>1. PhaseTime(target) \in Nat
  BY ConstantsAssumption DEF PhaseTime, RunnerTargets
<1>2. After(clock, PhaseTime(target)) \in Nat
  BY <1>1, AfterType DEF TypeOK
<1>3. QED
  BY <1>2 DEF Enter, Record, States, Phases, RunnerTargets

(* Whatever a start or set_phase call returns leaves a well typed runner.  *)
LEMMA AfterCallType ==
  ASSUME NEW s \in RunnerState, NEW ok \in BOOLEAN
  PROVE  AfterCall(s, ok) \in RunnerState
BY DEF AfterCall, RunnerState, RunnerPcs, RunnerTargets

-----------------------------------------------------------------------------
(* Type correctness, one step per action.                                  *)

(* A write to the record of one job keeps the registry well typed.         *)
LEMMA RegistryUpdate ==
  ASSUME TypeOK, NEW j \in Jobs, NEW r \in Record,
         registry' = [registry EXCEPT ![j] = r]
  PROVE  registry' \in [Jobs -> Record]
BY DEF TypeOK

(* A move of one runner keeps the runners well typed.                      *)
LEMMA RunnerUpdate ==
  ASSUME TypeOK, NEW j \in Jobs, NEW s \in RunnerState, RunnerGoes(j, s)
  PROVE  runner' \in [Jobs -> RunnerState]
BY DEF TypeOK, RunnerGoes

(* Moving one runner to another point keeps the runners well typed.        *)
LEMMA RunnerAtType ==
  ASSUME TypeOK, NEW j \in Jobs, NEW pc \in RunnerPcs, RunnerAt(j, pc)
  PROVE  runner' \in [Jobs -> RunnerState]
<1>1. [runner[j] EXCEPT !.pc = pc] \in RunnerState
  BY DEF TypeOK, RunnerState
<1>2. QED
  BY <1>1, RunnerUpdate DEF RunnerAt

(* Ending one runner keeps the runners well typed.                         *)
LEMMA RunnerDoneType ==
  ASSUME TypeOK, NEW j \in Jobs, RunnerDone(j)
  PROVE  runner' \in [Jobs -> RunnerState]
<1>1. [NoRunner EXCEPT !.pc = "done"] \in RunnerState
  BY DEF NoRunner, RunnerState, RunnerPcs, RunnerTargets, Completions
<1>2. QED
  BY <1>1, RunnerUpdate DEF RunnerDone

(* A runner with some of its fields replaced is a runner.                  *)
LEMMA RunnerFields ==
  ASSUME NEW s \in RunnerState, NEW pc \in RunnerPcs, NEW c \in Completions,
         NEW b \in BOOLEAN
  PROVE  /\ [s EXCEPT !.pc = pc, !.completion = c] \in RunnerState
         /\ [s EXCEPT !.pc = pc, !.completion = c, !.observed = b] \in RunnerState
         /\ [s EXCEPT !.observed = b] \in RunnerState
BY DEF RunnerState

(* A server that has just started is well typed.                           *)
LEMMA InitType == Init => TypeOK
<1> SUFFICES ASSUME Init PROVE TypeOK
  OBVIOUS
<1>1. NoRunner \in RunnerState
  BY DEF NoRunner, RunnerState, RunnerPcs, RunnerTargets, Completions
<1>2. SomeJob \in Jobs
  BY ConstantsAssumption DEF SomeJob
<1>3. client \in [Clients -> ClientState]
  BY <1>2 DEF Init, ClientState
<1>4. sweep \in SweepState
  BY <1>2, NoRecordType DEF Init, SweepState, SweepPcs, Intents
<1>5. registry \in [Jobs -> Record] /\ runner \in [Jobs -> RunnerState]
  BY <1>1, NoRecordType DEF Init
<1>6. QED
  BY <1>3, <1>4, <1>5 DEF Init, TypeOK

(* Time, authority, the transport and admission keep the types.            *)
LEMMA EnvironmentType == TypeOK /\ Environment => TypeOK'
<1> SUFFICES ASSUME TypeOK, Environment PROVE TypeOK'
  OBVIOUS
<1> USE DEF envVars, signalVars, slotVars, executionVars
<1>1. CASE Tick
  BY <1>1, ConstantsAssumption DEF TypeOK, Tick
<1>2. CASE Disconnect
  BY <1>2 DEF TypeOK, Disconnect
<1>3. CASE \E o \in Owners : ChangeAuthority(o)
  BY <1>3 DEF TypeOK, ChangeAuthority
<1>4. CASE \E j \in Jobs : Deliver(j)
  BY <1>4 DEF TypeOK, Deliver
<1>5. ASSUME NEW j \in Jobs, Admit(j)
      PROVE  TypeOK'
  <2>1. [NoRecord EXCEPT !.state = "admitted", !.created = clock] \in Record
    BY NoRecordType DEF TypeOK, Record, States
  <2>2. registry' \in [Jobs -> Record]
    BY <1>5, <2>1, RegistryUpdate DEF Admit
  <2>3. runner' \in [Jobs -> RunnerState]
    BY <1>5 DEF Admit, TypeOK, RunnerState, RunnerPcs
  <2>4. QED
    BY <1>5, <2>2, <2>3 DEF TypeOK, Admit
<1>6. QED
  BY <1>1, <1>2, <1>3, <1>4, <1>5 DEF Environment

(* Every step of run_quality_job keeps the types.                          *)
LEMMA RunnerType ==
  ASSUME TypeOK, NEW j \in Jobs, Runner(j)
  PROVE  TypeOK'
<1> USE DEF envVars, signalVars, slotVars, executionVars
<1>1. registry[j] \in Record /\ runner[j] \in RunnerState /\ Owner[j] \in Owners
  BY ConstantsAssumption DEF TypeOK
<1>2. CASE Register(j)
  BY <1>2 DEF Register, TypeOK, RunnerState, RunnerPcs
<1>3. CASE RunnerCall(j)
  <2>1. runner[j].target \in RunnerTargets
    BY <1>1 DEF RunnerState
  <2>2. /\ Terminate(registry[j], "revoked") \in Record
        /\ Enter(registry[j], runner[j].target) \in Record
    BY <1>1, <2>1, TerminateType, EnterType DEF Intents
  <2>3. /\ AfterCall(runner[j], TRUE) \in RunnerState
        /\ AfterCall(runner[j], FALSE) \in RunnerState
        /\ "revoke" \in RunnerPcs
    BY <1>1, AfterCallType DEF RunnerPcs
  <2>4. registry' \in [Jobs -> Record]
    BY <1>3, <2>2 DEF RunnerCall, TypeOK
  <2>5. runner' \in [Jobs -> RunnerState]
    BY <1>3, <2>3, RunnerUpdate, RunnerAtType DEF RunnerCall
  <2>6. QED
    BY <1>3, <2>4, <2>5 DEF RunnerCall, TypeOK
<1>4. CASE RunnerRevoke(j)
  <2>1. runner' \in [Jobs -> RunnerState]
    BY <1>1, <1>4, AfterCallType, RunnerUpdate DEF RunnerRevoke
  <2>2. QED
    BY <1>4, <2>1 DEF RunnerRevoke, TypeOK
<1>5. CASE RunnerSkip(j)
  <2>1. PICK c \in {"result", "internal"} :
          RunnerGoes(j, [runner[j] EXCEPT !.pc = "call", !.completion = c])
    BY <1>5 DEF RunnerSkip
  <2> "call" \in RunnerPcs /\ c \in Completions
    BY DEF RunnerPcs, Completions
  <2> [runner[j] EXCEPT !.pc = "call", !.completion = c] \in RunnerState
    BY <1>1, RunnerFields
  <2>3. runner' \in [Jobs -> RunnerState]
    BY <2>1, RunnerUpdate
  <2>2. QED
    BY <1>5, <2>3 DEF RunnerSkip, TypeOK
<1>6. CASE RunnerBegin(j)
  <2>1. runner' \in [Jobs -> RunnerState]
    BY <1>6, RunnerAtType DEF RunnerBegin, RunnerPcs
  <2>2. QED
    BY <1>6, <2>1 DEF RunnerBegin, TypeOK
<1>7. CASE RunnerEnd(j)
  <2>1. PICK c \in {"result", "internal", "unavailable"} :
          RunnerGoes(j, [runner[j] EXCEPT !.pc = "call", !.completion = c])
    BY <1>7 DEF RunnerEnd
  <2> "call" \in RunnerPcs /\ c \in Completions
    BY DEF RunnerPcs, Completions
  <2> [runner[j] EXCEPT !.pc = "call", !.completion = c] \in RunnerState
    BY <1>1, RunnerFields
  <2>3. runner' \in [Jobs -> RunnerState]
    BY <2>1, RunnerUpdate
  <2>2. QED
    BY <1>7, <2>3 DEF RunnerEnd, TypeOK
<1>8. CASE RunnerAbort(j)
  <2> "decide" \in RunnerPcs /\ "internal" \in Completions
    BY DEF RunnerPcs, Completions
  <2> [runner[j] EXCEPT !.pc = "decide", !.completion = "internal"] \in RunnerState
    BY <1>1, RunnerFields
  <2>1. runner' \in [Jobs -> RunnerState]
    BY <1>8, RunnerUpdate DEF RunnerAbort
  <2>2. QED
    BY <1>8, <2>1 DEF RunnerAbort, TypeOK
<1>9. CASE RunnerInspect(j)
  <2> /\ "finish_check" \in RunnerPcs /\ "decide" \in RunnerPcs
      /\ "cleanup_failed" \in Completions
    BY DEF RunnerPcs, Completions
  <2> [runner[j] EXCEPT !.pc = "finish_check", !.completion = "cleanup_failed",
                        !.observed = FALSE] \in RunnerState
    BY <1>1, RunnerFields
  <2>1. runner' \in [Jobs -> RunnerState]
    BY <1>9, RunnerUpdate, RunnerAtType DEF RunnerInspect
  <2>2. QED
    BY <1>9, <2>1 DEF RunnerInspect, TypeOK
<1>10. CASE RunnerDecide(j)
  <2>1. runner' \in [Jobs -> RunnerState]
    BY <1>10, RunnerAtType DEF RunnerDecide, RunnerPcs
  <2>2. QED
    BY <1>10, <2>1 DEF RunnerDecide, TypeOK
<1>11. CASE FinishCheck(j)
  <2>1. Terminate(registry[j], "revoked") \in Record
    BY <1>1, TerminateType DEF Intents
  <2>2. registry' \in [Jobs -> Record]
    BY <1>11, <2>1 DEF FinishCheck, TypeOK
  <2>3. runner' \in [Jobs -> RunnerState]
    <3> DEFINE s == [runner[j] EXCEPT !.observed = @ /\ cleaned[j]]
               rejected == [s EXCEPT !.completion = "unavailable"]
    <3>1. s \in RunnerState
      BY <1>1, RunnerFields DEF RunnerState, TypeOK
    <3>2. rejected \in RunnerState
      BY <3>1 DEF RunnerState, Completions
    <3> HIDE DEF s
    <3>3. /\ [s EXCEPT !.pc = "finish_apply"] \in RunnerState
          /\ [rejected EXCEPT !.pc = "finish_apply"] \in RunnerState
          /\ [rejected EXCEPT !.pc = "finish_revoke"] \in RunnerState
      BY <3>1, <3>2 DEF RunnerState, RunnerPcs
    <3>4. \/ RunnerDone(j)
          \/ RunnerGoes(j, [s EXCEPT !.pc = "finish_apply"])
          \/ RunnerGoes(j, [rejected EXCEPT !.pc = "finish_apply"])
          \/ RunnerGoes(j, [rejected EXCEPT !.pc = "finish_revoke"])
      BY <1>11 DEF FinishCheck, s
    <3>5. QED
      BY <3>3, <3>4, RunnerDoneType, RunnerUpdate
  <2>4. QED
    BY <1>11, <2>2, <2>3 DEF FinishCheck, TypeOK
<1>12. CASE FinishRevoke(j)
  <2>1. runner' \in [Jobs -> RunnerState]
    BY <1>12, RunnerAtType DEF FinishRevoke, RunnerPcs
  <2>2. QED
    BY <1>12, <2>1 DEF FinishRevoke, TypeOK
<1>13. CASE FinishApply(j)
  <2> DEFINE stored == [registry[j] EXCEPT
                 !.phase = "cleanup", !.completion = runner[j].completion,
                 !.deadline = After(clock, CleanupTime)]
  <2>1. After(clock, CleanupTime) \in Nat
    BY AfterType, ConstantsAssumption DEF TypeOK
  <2>2. stored \in Record
    BY <1>1, <2>1 DEF Record, Phases, RunnerState
  <2>3. Finalize(stored) \in Record
    BY <2>2, FinalizeType
  <2>4. registry' \in [Jobs -> Record]
    BY <1>13, <2>2, <2>3 DEF FinishApply, TypeOK
  <2>5. runner' \in [Jobs -> RunnerState]
    BY <1>13, RunnerAtType, RunnerDoneType DEF FinishApply, RunnerPcs
  <2>6. QED
    BY <1>13, <2>4, <2>5 DEF FinishApply, TypeOK
<1>14. CASE RunnerObserve(j)
  <2>1. Finalize(registry[j]) \in Record
    BY <1>1, FinalizeType
  <2>2. registry' \in [Jobs -> Record]
    BY <1>14, <2>1 DEF RunnerObserve, TypeOK
  <2>3. runner' \in [Jobs -> RunnerState]
    BY <1>14, RunnerAtType, RunnerDoneType DEF RunnerObserve, RunnerPcs
  <2>4. QED
    BY <1>14, <2>2, <2>3 DEF RunnerObserve, TypeOK
<1>15. CASE RunnerRelease(j)
  <2>1. runner' \in [Jobs -> RunnerState]
    BY <1>15, RunnerDoneType DEF RunnerRelease
  <2>2. QED
    BY <1>15, <2>1 DEF RunnerRelease, ReleasePermit, TypeOK
<1>16. CASE RunnerClockFails(j)
  <2>1. runner' \in [Jobs -> RunnerState]
    BY <1>1, <1>16, AfterCallType, RunnerUpdate, RunnerDoneType DEF RunnerClockFails
  <2>2. QED
    BY <1>16, <2>1 DEF RunnerClockFails, TypeOK
<1>17. QED
  BY <1>2, <1>3, <1>4, <1>5, <1>6, <1>7, <1>8, <1>9, <1>10, <1>11, <1>12,
     <1>13, <1>14, <1>15, <1>16 DEF Runner

(* Every step of tasks/get, tasks/update and tasks/cancel keeps the types. *)
LEMMA ControlType ==
  ASSUME TypeOK, NEW c \in Clients, Control(c)
  PROVE  TypeOK'
<1> USE DEF envVars, signalVars, slotVars, executionVars
<1>1. \A j \in Jobs : /\ Terminate(registry[j], "revoked") \in Record
                      /\ Terminate(registry[j], "client") \in Record
  BY TerminateType DEF TypeOK, Intents
<1>2. client[c] \in ClientState
  BY DEF TypeOK
<1>3. ASSUME NEW j \in Jobs, ControlRevoked(c, j) PROVE TypeOK'
  BY <1>1, <1>3 DEF ControlRevoked, TypeOK, ClientState
<1>4. ASSUME NEW j \in Jobs, CancelCheck(c, j) PROVE TypeOK'
  BY <1>4 DEF CancelCheck, TypeOK, ClientState
<1>5. CASE CancelApply(c)
  <2>1. client[c].job \in Jobs
    BY <1>2 DEF ClientState
  <2>2. registry' \in [Jobs -> Record]
    BY <1>1, <1>5, <2>1 DEF CancelApply, TypeOK
  <2>3. client' \in [Clients -> ClientState]
    BY <1>2, <1>5 DEF CancelApply, TypeOK, ClientState
  <2>4. QED
    BY <1>5, <2>2, <2>3 DEF CancelApply, TypeOK
<1>6. CASE ControlSignal(c)
  BY <1>2, <1>6 DEF ControlSignal, TypeOK, ClientState
<1>7. CASE ControlClockFails(c)
  BY <1>2, <1>7 DEF ControlClockFails, TypeOK, ClientState
<1>8. QED
  BY <1>3, <1>4, <1>5, <1>6, <1>7 DEF Control

(* The moves of the sweep.                                                 *)
LEMMA SweepMoves ==
  ASSUME TypeOK
  PROVE  /\ \A pc \in SweepPcs : SweepAt(pc) => sweep' \in SweepState
         /\ \A err \in BOOLEAN : NextVisit(err) => sweep' \in SweepState
         /\ \A d \in Nat, late \in BOOLEAN :
              JoinFor(d, late) => sweep' \in SweepState
<1>1. sweep \in SweepState
  BY DEF TypeOK
<1>2. ASSUME NEW pc \in SweepPcs, SweepAt(pc) PROVE sweep' \in SweepState
  BY <1>1, <1>2 DEF SweepAt, SweepState
<1>3. ASSUME NEW err \in BOOLEAN, NextVisit(err) PROVE sweep' \in SweepState
  <2>1. SomeJob \in Jobs
    BY ConstantsAssumption DEF SomeJob
  <2> DEFINE idle == [sweep EXCEPT !.job = SomeJob, !.intent = "none",
                                   !.until = 0, !.late = FALSE]
  <2>2. idle \in SweepState
    BY <1>1, <2>1 DEF SweepState, Intents
  <2>3. sweep' = [idle EXCEPT !.pc = "visit", !.err = @ \/ err]
    BY <1>3 DEF NextVisit, Idle
  <2> HIDE DEF idle
  <2>4. QED
    BY <2>2, <2>3 DEF SweepState, SweepPcs
<1>4. ASSUME NEW d \in Nat, NEW late \in BOOLEAN, JoinFor(d, late)
      PROVE  sweep' \in SweepState
  <2>1. After(clock, d) \in Nat
    BY AfterType DEF TypeOK
  <2>2. QED
    BY <1>1, <1>4, <2>1 DEF JoinFor, SweepState, SweepPcs
<1>5. QED
  BY <1>2, <1>3, <1>4

(* The first half of watchdog_record keeps the types.                      *)
LEMMA WatchdogVisitType ==
  ASSUME TypeOK, NEW j \in Jobs, WatchdogVisit(j)
  PROVE  TypeOK'
<1> USE DEF envVars, signalVars, slotVars, executionVars
<1> DEFINE r == sweep.todo[j]
           rest == [sweep EXCEPT !.todo[j] = NoRecord,
                                 !.job = IF Terminal(r) THEN @ ELSE j]
           wait == IF r.deadline > sweep.now THEN r.deadline - sweep.now ELSE 0
           until == After(clock, wait)
           late == Reached(r.deadline, sweep.now)
<1>1. sweep \in SweepState /\ r \in Record
  BY DEF TypeOK, SweepState
<1>2. rest \in SweepState
  BY <1>1, NoRecordType DEF SweepState
<1>3. until \in Nat /\ late \in BOOLEAN
  <2>1. wait \in Nat
    BY <1>1 DEF SweepState, Record
  <2> HIDE DEF wait
  <2>2. until \in Nat
    BY <2>1, AfterType DEF TypeOK
  <2>3. late \in BOOLEAN
    BY DEF Reached
  <2>4. QED
    BY <2>2, <2>3
<1>4. \/ sweep' = rest
      \/ sweep' = [rest EXCEPT !.pc = "join", !.until = until, !.late = late]
      \/ sweep' = [rest EXCEPT !.pc = "terminate", !.intent = "deadline"]
      \/ sweep' = [rest EXCEPT !.pc = "terminate", !.intent = "nondelivery"]
      \/ sweep' = [rest EXCEPT !.pc = "recheck"]
  BY DEF WatchdogVisit
<1>5. registry' \in [Jobs -> Record]
  BY NoRecordType DEF WatchdogVisit, TypeOK
<1> HIDE DEF rest, until, late, r
<1>6. sweep' \in SweepState
  BY <1>2, <1>3, <1>4 DEF SweepState, SweepPcs, Intents
<1>7. QED
  BY <1>5, <1>6 DEF WatchdogVisit, TypeOK

(* Every step of watchdog and shutdown_and_join keeps the types.           *)
LEMMA SweepType == TypeOK /\ Sweep => TypeOK'
<1> SUFFICES ASSUME TypeOK, Sweep PROVE TypeOK'
  OBVIOUS
<1> USE DEF envVars, signalVars, slotVars, executionVars
<1>1. /\ sweep \in SweepState /\ sweep.job \in Jobs /\ sweep.intent \in Intents
      /\ registry[sweep.job] \in Record
  BY DEF TypeOK, SweepState
<1>2. CleanupTime \in Nat
  BY ConstantsAssumption
<1>3. CASE WatchdogBegin
  <2>1. sweep' \in SweepState
    BY <1>1, <1>3 DEF WatchdogBegin, TypeOK, SweepState, SweepPcs
  <2>2. QED
    BY <1>3, <2>1 DEF WatchdogBegin, TypeOK
<1>4. CASE ShutdownBegin
  <2> DEFINE todo == [j \in Jobs |-> IF Active(registry[j])
                                     THEN registry[j] ELSE NoRecord]
  <2>1. todo \in [Jobs -> Record]
    BY NoRecordType DEF TypeOK
  <2>2. sweep' = [sweep EXCEPT !.pc = "visit", !.by = "shutdown",
                               !.err = FALSE, !.todo = todo]
    BY <1>4 DEF ShutdownBegin
  <2> HIDE DEF todo
  <2>3. sweep' \in SweepState
    BY <1>1, <2>1, <2>2 DEF SweepState, SweepPcs
  <2>4. QED
    BY <1>4, <2>3 DEF ShutdownBegin, TypeOK
<1>5. CASE \E j \in Jobs : WatchdogVisit(j)
  BY <1>5, WatchdogVisitType
<1>6. ASSUME NEW j \in Jobs, ShutdownVisit(j) PROVE TypeOK'
  <2>1. sweep' \in SweepState
    BY <1>1, <1>6, NoRecordType DEF ShutdownVisit, SweepState, SweepPcs, Intents
  <2>2. QED
    BY <1>6, <2>1 DEF ShutdownVisit, TypeOK
<1>7. CASE SweepTerminate
  <2>1. Terminate(registry[sweep.job], sweep.intent) \in Record
    BY <1>1, TerminateType
  <2>2. registry' \in [Jobs -> Record]
    BY <1>1, <1>7, <2>1 DEF SweepTerminate, TypeOK
  <2>3. sweep' \in SweepState
    BY <1>2, <1>7, SweepMoves DEF SweepTerminate, SweepPcs
  <2>4. QED
    BY <1>7, <2>2, <2>3 DEF SweepTerminate, TypeOK
<1>8. CASE SweepSignal
  <2>1. sweep' \in SweepState
    BY <1>2, <1>8, SweepMoves DEF SweepSignal, SweepPcs
  <2>2. QED
    BY <1>8, <2>1 DEF SweepSignal, TypeOK
<1>9. CASE WatchdogRecheck
  <2>1. sweep' \in SweepState
    BY <1>2, <1>9, SweepMoves DEF WatchdogRecheck, Present
  <2>2. QED
    BY <1>9, <2>1 DEF WatchdogRecheck, TypeOK
<1>10. CASE JoinObserved
  <2>1. sweep' \in SweepState
    BY <1>10, SweepMoves DEF JoinObserved, SweepPcs
  <2>2. QED
    BY <1>10, <2>1 DEF JoinObserved, TypeOK
<1>11. CASE JoinUncertain
  <2>1. sweep' \in SweepState
    BY <1>11, SweepMoves DEF JoinUncertain, SweepPcs
  <2>2. QED
    BY <1>11, <2>1 DEF JoinUncertain, TypeOK
<1>12. CASE SweepFinalize
  <2>1. Finalize(registry[sweep.job]) \in Record
    BY <1>1, FinalizeType
  <2>2. registry' \in [Jobs -> Record]
    BY <1>1, <1>12, <2>1 DEF SweepFinalize, TypeOK
  <2>3. sweep' \in SweepState
    BY <1>12, SweepMoves DEF SweepFinalize, SweepPcs, Terminal
  <2>4. QED
    BY <1>12, <2>2, <2>3 DEF SweepFinalize, TypeOK
<1>13. CASE SweepRelease
  <2>1. sweep' \in SweepState
    BY <1>13, SweepMoves DEF SweepRelease, Present
  <2>2. QED
    BY <1>13, <2>1 DEF SweepRelease, ReleasePermit, TypeOK
<1>14. CASE SweepFail
  <2> DEFINE failed == [registry[sweep.job] EXCEPT
                 !.state = "failed", !.phase = "terminal",
                 !.deadline = 0, !.completion = "cleanup_failed"]
  <2>1. failed \in Record
    BY <1>1 DEF Record, States, TerminalStates, Phases, Completions
  <2>2. registry' \in [Jobs -> Record]
    BY <1>1, <1>14, <2>1 DEF SweepFail, TypeOK
  <2>3. sweep' \in SweepState
    BY <1>14, SweepMoves DEF SweepFail
  <2>4. QED
    BY <1>14, <2>2, <2>3 DEF SweepFail, TypeOK
<1>15. CASE SweepClockFails
  <2>1. sweep' \in SweepState
    BY <1>15, SweepMoves DEF SweepClockFails
  <2>2. QED
    BY <1>15, <2>1 DEF SweepClockFails, TypeOK
<1>16. CASE WatchdogEnd
  <2>1. sweep' \in SweepState
    BY <1>1, <1>16 DEF WatchdogEnd, SweepState, SweepPcs
  <2>2. QED
    BY <1>16, <2>1 DEF WatchdogEnd, TypeOK
<1>17. CASE ShutdownEnd
  <2>1. sweep' \in SweepState
    BY <1>17, SweepMoves DEF ShutdownEnd, SweepPcs
  <2>2. QED
    BY <1>17, <2>1 DEF ShutdownEnd, TypeOK
<1>18. QED
  BY <1>3, <1>4, <1>5, <1>6, <1>7, <1>8, <1>9, <1>10, <1>11, <1>12, <1>13,
     <1>14, <1>15, <1>16, <1>17 DEF Sweep

(* Types are inductive.                                                    *)
LEMMA NextType == TypeOK /\ [Next]_vars => TypeOK'
<1>1. TypeOK /\ UNCHANGED vars => TypeOK'
  BY DEF TypeOK, vars
<1>2. QED
  BY <1>1, EnvironmentType, RunnerType, ControlType, SweepType DEF Next, Ended

(* Every reachable state is well typed, whatever the deadlines and however *)
(* many jobs, clients and owners there are.                                *)
THEOREM TypeCorrect == Spec => []TypeOK
BY InitType, NextType, PTL DEF Spec

-----------------------------------------------------------------------------
(* The slot.  Most steps leave the records as active as they were and move *)
(* one actor on: the two lemmas that follow are about those.               *)

StaysActive ==
  \A k \in Jobs : \/ registry'[k] = registry[k]
                  \/ Active(registry[k]) /\ Active(registry'[k])

(* Terminating, entering a phase and storing a completion keep a record    *)
(* active; only `finalize` and fail_cleanup settle it.                     *)
LEMMA ActiveWrite ==
  ASSUME TypeOK, NEW j \in Jobs, NEW r \in Record, Active(registry[j]), Active(r),
         registry' = [registry EXCEPT ![j] = r]
  PROVE  StaysActive
BY DEF TypeOK, StaysActive

(* request_termination on an active record leaves it active.               *)
LEMMA TerminateActive ==
  ASSUME TypeOK, NEW j \in Jobs, NEW intent \in Intents, Active(registry[j]),
         registry' = [registry EXCEPT ![j] = Terminate(registry[j], intent)]
  PROVE  StaysActive
<1>1. registry[j] \in Record
  BY DEF TypeOK
<1>2. /\ Terminate(registry[j], intent) \in Record
      /\ Active(Terminate(registry[j], intent))
  BY <1>1, TerminateType DEF Active
<1>3. QED
  BY <1>2, ActiveWrite

SlotParts == <<cleaned, permit, live, quarantined, session>>

(* The sweep moves on and settles nothing.                                 *)
SweepGoesOn ==
  \/ sweep' = sweep
  \/ /\ sweep'.todo = sweep.todo
     /\ sweep'.err \in BOOLEAN
     /\ sweep.err => sweep'.err
     /\ sweep'.pc \in {"visit", "terminate", "signal", "recheck", "join", "fail"}

(* A step that only moves the sweep on, or only terminates an active       *)
(* record, keeps the slot invariant.                                       *)
LEMMA SweepStep ==
  ASSUME TypeOK, SlotInvariant, StaysActive, SweepGoesOn,
         UNCHANGED SlotParts, UNCHANGED runner
  PROVE  SlotInvariant'
<1> USE DEF SlotInvariant, SlotParts, StaysActive
<1>1. IdleUntouched'
  BY DEF IdleUntouched, NoRecord, Active
<1>2. LiveAfterBegin' /\ CollectFollowsWork'
  BY DEF LiveAfterBegin, WorkBegun, CollectFollowsWork
<1>3. CleanedIsOver'
  BY DEF CleanedIsOver
<1>4. ReleaseIsEarned'
  <2>1. sweep.job \in Jobs
    BY DEF TypeOK, SweepState
  <2>2. CASE sweep' = sweep
    BY <2>1, <2>2 DEF ReleaseIsEarned
  <2>3. CASE sweep'.pc \in {"visit", "terminate", "signal", "recheck", "join", "fail"}
    BY <2>3 DEF ReleaseIsEarned
  <2>4. QED
    BY <2>2, <2>3 DEF SweepGoesOn
<1>5. UncleanIsKept'
  BY DEF UncleanIsKept, SweepGoesOn, Active, Terminal, TerminalStates, Present
<1>6. OneHolder'
  BY DEF OneHolder, SlotHolders, RunnerAlive, Active, Present
<1>7. QED
  BY <1>1, <1>2, <1>3, <1>4, <1>5, <1>6

(* The runner of j moves on to s, neither into the work nor to a release.  *)
LEMMA RunnerStep ==
  ASSUME TypeOK, SlotInvariant, NEW j \in Jobs, NEW s \in RunnerState,
         StaysActive, RunnerGoes(j, s), UNCHANGED SlotParts, UNCHANGED sweep,
         RunnerAlive(j), s.pc \notin {"idle", "release"},
         j \in live => WorkBegun(s) /\ quarantined,
         s.pc \in {"work", "busy"} => s.target = "collect",
         cleaned[j] => s.pc \in {"decide", "finish_check", "finish_revoke",
                                 "finish_apply", "observe", "done"},
         s.pc \in {"finish_revoke", "finish_apply"} /\ s.observed => cleaned[j]
  PROVE  SlotInvariant'
<1> USE DEF SlotInvariant, SlotParts, StaysActive
<1>1. /\ runner'[j] = s
      /\ \A k \in Jobs : k # j => runner'[k] = runner[k]
  BY DEF RunnerGoes, TypeOK
<1>2. runner[j].pc \notin {"idle", "done"}
  BY DEF RunnerAlive
<1>3. IdleUntouched'
  BY <1>1, <1>2 DEF IdleUntouched, NoRecord, Active
<1>4. LiveAfterBegin' /\ CollectFollowsWork'
  BY <1>1 DEF LiveAfterBegin, WorkBegun, CollectFollowsWork, TypeOK
<1>5. CleanedIsOver'
  BY <1>1 DEF CleanedIsOver
<1>6. ReleaseIsEarned'
  <2>1. sweep.job \in Jobs
    BY DEF TypeOK, SweepState
  <2>2. ASSUME NEW k \in Jobs
        PROVE  /\ runner'[k].pc \in {"finish_revoke", "finish_apply"} /\ runner'[k].observed
                    => cleaned[k]
               /\ runner'[k].pc = "release" => cleaned[k] /\ ~Active(registry'[k])
               /\ permit[k] = "released" => cleaned[k] /\ ~Active(registry'[k])
    <3>1. CASE k = j
      BY <1>1, <3>1 DEF ReleaseIsEarned
    <3>2. CASE k # j
      BY <1>1, <3>2 DEF ReleaseIsEarned
    <3>3. QED
      BY <3>1, <3>2
  <2>3. QED
    BY <2>1, <2>2 DEF ReleaseIsEarned, Active
<1>7. UncleanIsKept'
  BY <1>1, <1>2 DEF UncleanIsKept, Active, Terminal, TerminalStates, Present
<1>8. OneHolder'
  BY <1>1, <1>2 DEF OneHolder, SlotHolders, RunnerAlive, Active, Present
<1>9. QED
  BY <1>3, <1>4, <1>5, <1>6, <1>7, <1>8

-----------------------------------------------------------------------------
(* The slot invariant, one step per action.                                *)

(* The slot invariant holds of a server that has just started.             *)
LEMMA InitSlot == Init => SlotInvariant
BY DEF Init, SlotInvariant, IdleUntouched, LiveAfterBegin, CleanedIsOver,
   CollectFollowsWork, ReleaseIsEarned, UncleanIsKept, OneHolder, SlotHolders,
   NoRunner, NoRecord,
   Active, Terminal, TerminalStates, Present, RunnerAlive

(* Admission takes the slot only when it is free; time, authority and the  *)
(* transport do not touch it.                                              *)
LEMMA EnvironmentSlot ==
  ASSUME TypeOK, SlotInvariant, Environment
  PROVE  SlotInvariant'
<1> USE DEF envVars, signalVars, slotVars, executionVars
<1>1. ASSUME NEW j \in Jobs, Admit(j) PROVE SlotInvariant'
  <2>1. /\ runner'[j].pc = "register" /\ permit'[j] = "held"
        /\ registry'[j] = [NoRecord EXCEPT !.state = "admitted", !.created = clock]
        /\ \A k \in Jobs : k # j => /\ runner'[k] = runner[k]
                                    /\ permit'[k] = permit[k]
                                    /\ registry'[k] = registry[k]
    BY <1>1 DEF Admit, TypeOK, RunnerState
  <2>2. Present(registry'[j]) /\ ~Terminal(registry'[j])
    BY <2>1 DEF Present, Terminal, TerminalStates, NoRecord
  <2>3. runner[j].pc = "idle" /\ SlotHolders = {} /\ sweep.job \in Jobs
    BY <1>1 DEF Admit, TypeOK, SweepState
  <2>4. ~cleaned[j] /\ j \notin live /\ permit[j] = "none"
    BY <2>3 DEF SlotInvariant, IdleUntouched, LiveAfterBegin, CleanedIsOver, WorkBegun
  <2>5. IdleUntouched' /\ CleanedIsOver' /\ LiveAfterBegin' /\ CollectFollowsWork'
    BY <1>1, <2>1, <2>4 DEF SlotInvariant, IdleUntouched, CleanedIsOver, CollectFollowsWork,
       LiveAfterBegin, WorkBegun, Admit, TypeOK
  <2>6. ReleaseIsEarned'
    BY <1>1, <2>1, <2>3, <2>4 DEF SlotInvariant, ReleaseIsEarned, Admit
  <2>7. UncleanIsKept'
    BY <1>1, <2>1, <2>2, <2>4 DEF SlotInvariant, UncleanIsKept, Admit
  <2>8. OneHolder'
    BY <2>1, <2>3 DEF OneHolder, SlotHolders, RunnerAlive
  <2>9. QED
    BY <2>5, <2>6, <2>7, <2>8 DEF SlotInvariant
<1>2. CASE Disconnect
  BY <1>2 DEF Disconnect, SlotInvariant, IdleUntouched, LiveAfterBegin, WorkBegun,
     CollectFollowsWork,
     CleanedIsOver, ReleaseIsEarned, UncleanIsKept, OneHolder, SlotHolders, RunnerAlive
<1>3. CASE Tick \/ (\E o \in Owners : ChangeAuthority(o)) \/ (\E j \in Jobs : Deliver(j))
  <2>1. UNCHANGED SlotParts /\ UNCHANGED <<registry, runner, sweep, permit>>
    BY <1>3 DEF Tick, ChangeAuthority, Deliver, SlotParts
  <2>2. QED
    BY <2>1, SweepStep DEF StaysActive, SweepGoesOn
<1>4. QED
  BY <1>1, <1>2, <1>3 DEF Environment

(* The controls record intents and raise signals: they never touch the     *)
(* slot.                                                                   *)
LEMMA ControlSlot ==
  ASSUME TypeOK, SlotInvariant, NEW c \in Clients, Control(c)
  PROVE  SlotInvariant'
<1> USE DEF envVars, signalVars, slotVars, executionVars
<1>1. UNCHANGED SlotParts /\ UNCHANGED <<runner, sweep>>
  BY DEF Control, ControlRevoked, CancelCheck, CancelApply, ControlSignal,
     ControlClockFails, SlotParts
<1>2. StaysActive
  <2>1. ASSUME NEW j \in Jobs, ControlRevoked(c, j) PROVE StaysActive
    BY <2>1, TerminateActive DEF ControlRevoked, Intents
  <2>2. CASE CancelApply(c)
    <3>1. client[c].job \in Jobs
      BY DEF TypeOK, ClientState
    <3>2. CASE Active(registry[client[c].job])
      BY <2>2, <3>1, <3>2, TerminateActive DEF CancelApply, Intents
    <3>3. CASE ~Active(registry[client[c].job])
      BY <2>2, <3>3 DEF CancelApply, StaysActive
    <3>4. QED
      BY <3>2, <3>3
  <2>3. CASE \/ ControlSignal(c) \/ ControlClockFails(c)
             \/ \E j \in Jobs : CancelCheck(c, j)
    BY <2>3 DEF ControlSignal, ControlClockFails, CancelCheck, StaysActive
  <2>4. QED
    BY <2>1, <2>2, <2>3 DEF Control
<1>3. QED
  BY <1>1, <1>2, SweepStep DEF SweepGoesOn

(* Where a call of start or set_phase leaves a runner that started nothing *)
(* while it still can give up.                                             *)
LEMMA AfterCallStep ==
  ASSUME TypeOK, NEW j \in Jobs, NEW ok \in BOOLEAN,
         LiveAfterBegin, CleanedIsOver, runner[j].pc \in {"call", "revoke"}
  PROVE  LET s == AfterCall(runner[j], ok) IN
         /\ s \in RunnerState
         /\ s.pc \in {"call", "work", "inspect", "abort"}
         /\ j \in live => WorkBegun(s) /\ quarantined
         /\ s.pc = "work" => s.target = "collect"
         /\ ~cleaned[j]
<1>1. runner[j] \in RunnerState /\ runner[j].target \in RunnerTargets
  BY DEF TypeOK, RunnerState
<1>2. AfterCall(runner[j], ok) \in RunnerState
  BY <1>1, AfterCallType
<1>3. ~cleaned[j]
  BY DEF CleanedIsOver
<1>4. /\ AfterCall(runner[j], ok).pc \in {"call", "work", "inspect", "abort"}
      /\ AfterCall(runner[j], ok).pc = "work" => AfterCall(runner[j], ok).target = "collect"
  BY <1>1 DEF AfterCall, RunnerTargets, RunnerState
<1>5. j \in live => WorkBegun(AfterCall(runner[j], ok)) /\ quarantined
  BY <1>1 DEF LiveAfterBegin, WorkBegun, AfterCall, RunnerTargets, RunnerState
<1>6. QED
  BY <1>2, <1>3, <1>4, <1>5

(* Settling a record after observed cleanup, and going on to the release.  *)
LEMMA RunnerSettles ==
  ASSUME TypeOK, SlotInvariant, NEW j \in Jobs, NEW r \in Record, cleaned[j],
         Active(registry[j]), RunnerAlive(j),
         registry' = [registry EXCEPT ![j] = Finalize(r)],
         RunnerAt(j, "release"), UNCHANGED SlotParts, UNCHANGED sweep
  PROVE  SlotInvariant'
<1> USE DEF SlotInvariant, SlotParts
<1>1. Terminal(Finalize(r))
  BY FinalizeType
<1>2. /\ Terminal(registry'[j]) /\ ~Active(registry'[j]) /\ Present(registry'[j])
      /\ \A k \in Jobs : k # j => registry'[k] = registry[k]
  BY <1>1 DEF TypeOK, Terminal, TerminalStates, Active, Present
<1>3. /\ runner'[j].pc = "release" /\ runner[j].pc \notin {"idle", "done"}
      /\ \A k \in Jobs : k # j => runner'[k] = runner[k]
  BY DEF RunnerAt, RunnerGoes, TypeOK, RunnerState, RunnerAlive
<1>4. sweep.job \in Jobs
  BY DEF TypeOK, SweepState
<1>5. IdleUntouched' /\ CleanedIsOver'
  BY <1>2, <1>3 DEF IdleUntouched, CleanedIsOver
<1>6. LiveAfterBegin' /\ CollectFollowsWork'
  BY <1>3 DEF LiveAfterBegin, WorkBegun, CollectFollowsWork, CleanedIsOver, TypeOK
<1>7. ReleaseIsEarned'
  BY <1>2, <1>3, <1>4 DEF ReleaseIsEarned
<1>8. UncleanIsKept'
  BY <1>2, <1>3 DEF UncleanIsKept
<1>9. OneHolder'
  BY <1>2, <1>3 DEF OneHolder, SlotHolders, RunnerAlive, Active, Present
<1>10. QED
  BY <1>5, <1>6, <1>7, <1>8, <1>9

(* start and set_phase, refused or not, keep the slot invariant.           *)
LEMMA CallSlot ==
  ASSUME TypeOK, SlotInvariant, NEW j \in Jobs, RunnerCall(j) \/ RunnerRevoke(j)
  PROVE  SlotInvariant'
<1> USE DEF envVars, signalVars, slotVars, executionVars
<1>1. /\ runner[j].pc \in {"call", "revoke"} /\ RunnerAlive(j)
      /\ UNCHANGED SlotParts /\ UNCHANGED sweep
  BY DEF RunnerCall, RunnerRevoke, SlotParts, RunnerAlive
<1>2. registry[j] \in Record /\ runner[j] \in RunnerState
      /\ runner[j].target \in RunnerTargets
  BY DEF TypeOK, RunnerState
<1>3. LiveAfterBegin /\ CleanedIsOver
  BY DEF SlotInvariant
<1>4. StaysActive
  <2>1. CASE RunnerRevoke(j) \/ UNCHANGED registry
    BY <2>1 DEF RunnerRevoke, StaysActive
  <2>2. CASE Active(registry[j])
             /\ registry' = [registry EXCEPT ![j] = Terminate(registry[j], "revoked")]
    BY <2>2, TerminateActive DEF Intents
  <2>3. CASE MayEnter(registry[j], runner[j].target)
             /\ registry' = [registry EXCEPT ![j] = Enter(registry[j], runner[j].target)]
    <3>1. Active(registry[j])
      BY <2>3 DEF MayEnter, Active
    <3>2. /\ Enter(registry[j], runner[j].target) \in Record
          /\ Active(Enter(registry[j], runner[j].target))
      BY <1>2, EnterType DEF Active
    <3>3. QED
      BY <2>3, <3>1, <3>2, ActiveWrite
  <2>4. QED
    BY <2>1, <2>2, <2>3 DEF RunnerCall
<1>5. CASE \E ok \in BOOLEAN : RunnerGoes(j, AfterCall(runner[j], ok))
  <2>1. PICK ok \in BOOLEAN : RunnerGoes(j, AfterCall(runner[j], ok))
    BY <1>5
  <2>2. QED
    BY <1>1, <1>3, <1>4, <2>1, AfterCallStep, RunnerStep
<1>6. CASE RunnerCall(j) /\ RunnerAt(j, "revoke")
  <2> DEFINE s == [runner[j] EXCEPT !.pc = "revoke"]
  <2>1. s \in RunnerState /\ s.pc = "revoke" /\ s.target = runner[j].target
    BY <1>2 DEF RunnerState, RunnerPcs
  <2>2. RunnerGoes(j, s) /\ runner[j].pc = "call"
    BY <1>6 DEF RunnerAt, RunnerCall
  <2> HIDE DEF s
  <2>3. ~cleaned[j] /\ (j \in live => WorkBegun(s) /\ quarantined)
    BY <1>3, <2>1, <2>2 DEF LiveAfterBegin, CleanedIsOver, WorkBegun
  <2>4. QED
    BY <1>1, <1>4, <2>1, <2>2, <2>3, RunnerStep
<1>7. QED
  BY <1>5, <1>6 DEF RunnerCall, RunnerRevoke

(* The first half of finish keeps the slot invariant: it goes on as        *)
(* `observed` only when the cleanup flag is up.                            *)
LEMMA FinishCheckSlot ==
  ASSUME TypeOK, SlotInvariant, NEW j \in Jobs, FinishCheck(j)
  PROVE  SlotInvariant'
<1> USE DEF envVars, signalVars, slotVars, executionVars
<1>1. /\ runner[j].pc = "finish_check" /\ RunnerAlive(j)
      /\ UNCHANGED SlotParts /\ UNCHANGED sweep
  BY DEF FinishCheck, SlotParts, RunnerAlive
<1>2. registry[j] \in Record /\ runner[j] \in RunnerState
  BY DEF TypeOK
<1>3. LiveAfterBegin /\ CleanedIsOver
  BY DEF SlotInvariant
<1>4. StaysActive
  BY TerminateActive DEF FinishCheck, Intents, StaysActive
<1>5. j \in live => quarantined
  BY <1>1, <1>3 DEF LiveAfterBegin
<1>6. CASE RunnerDone(j)
  <2> DEFINE s == [NoRunner EXCEPT !.pc = "done"]
  <2>1. s \in RunnerState /\ s.pc = "done"
    BY DEF NoRunner, RunnerState, RunnerPcs, RunnerTargets, Completions
  <2>2. RunnerGoes(j, s)
    BY <1>6 DEF RunnerDone
  <2> HIDE DEF s
  <2>3. QED
    BY <1>1, <1>4, <1>5, <2>1, <2>2, RunnerStep DEF WorkBegun
<1>7. CASE \E c \in Completions, pc \in {"finish_apply", "finish_revoke"} :
             RunnerGoes(j, [runner[j] EXCEPT !.observed = @ /\ cleaned[j],
                                             !.completion = c, !.pc = pc])
  <2>1. PICK c \in Completions, pc \in {"finish_apply", "finish_revoke"} :
             RunnerGoes(j, [runner[j] EXCEPT !.observed = @ /\ cleaned[j],
                                             !.completion = c, !.pc = pc])
    BY <1>7
  <2> DEFINE s == [runner[j] EXCEPT !.observed = @ /\ cleaned[j],
                                    !.completion = c, !.pc = pc]
  <2>2. s \in RunnerState /\ s.pc = pc /\ (s.observed => cleaned[j])
    BY <1>2 DEF RunnerState, RunnerPcs, TypeOK
  <2>3. RunnerGoes(j, s)
    BY <2>1
  <2> HIDE DEF s
  <2>4. QED
    BY <1>1, <1>4, <1>5, <2>2, <2>3, RunnerStep DEF WorkBegun
<1>8. QED
  <2>1. runner[j].completion \in Completions /\ "unavailable" \in Completions
    BY <1>2 DEF RunnerState, Completions
  <2>2. \/ RunnerDone(j)
        \/ RunnerGoes(j, [runner[j] EXCEPT !.observed = @ /\ cleaned[j],
                                           !.pc = "finish_apply"])
        \/ \E pc \in {"finish_apply", "finish_revoke"} :
             RunnerGoes(j, [runner[j] EXCEPT !.observed = @ /\ cleaned[j],
                               !.completion = "unavailable", !.pc = pc])
    BY DEF FinishCheck
  <2>3. [runner[j] EXCEPT !.observed = @ /\ cleaned[j], !.pc = "finish_apply"]
          = [runner[j] EXCEPT !.observed = @ /\ cleaned[j],
                              !.completion = runner[j].completion,
                              !.pc = "finish_apply"]
    BY <1>2 DEF RunnerState
  <2>4. QED
    BY <1>6, <1>7, <2>1, <2>2, <2>3

(* The completion write of finish settles the record only over observed    *)
(* cleanup.                                                                *)
LEMMA FinishApplySlot ==
  ASSUME TypeOK, SlotInvariant, NEW j \in Jobs, FinishApply(j)
  PROVE  SlotInvariant'
<1> USE DEF envVars, signalVars, slotVars, executionVars
<1>1. /\ runner[j].pc = "finish_apply" /\ RunnerAlive(j)
      /\ UNCHANGED SlotParts /\ UNCHANGED sweep
  BY DEF FinishApply, SlotParts, RunnerAlive
<1>2. registry[j] \in Record /\ runner[j] \in RunnerState
  BY DEF TypeOK
<1>3. LiveAfterBegin /\ ReleaseIsEarned
  BY DEF SlotInvariant
<1> DEFINE stored == [registry[j] EXCEPT
               !.phase = "cleanup", !.completion = runner[j].completion,
               !.deadline = After(clock, CleanupTime)]
<1>4. stored \in Record /\ stored.state = registry[j].state
  <2>1. After(clock, CleanupTime) \in Nat
    BY AfterType, ConstantsAssumption DEF TypeOK
  <2>2. QED
    BY <1>2, <2>1 DEF Record, Phases, RunnerState
<1>5. CASE /\ Active(registry[j]) /\ runner[j].observed
           /\ registry' = [registry EXCEPT ![j] = Finalize(stored)]
           /\ RunnerAt(j, "release")
  <2>1. cleaned[j]
    BY <1>1, <1>3, <1>5 DEF ReleaseIsEarned
  <2>2. QED
    BY <1>1, <1>4, <1>5, <2>1, RunnerSettles
<1>6. CASE RunnerDone(j) /\ StaysActive
  <2> DEFINE s == [NoRunner EXCEPT !.pc = "done"]
  <2>1. s \in RunnerState /\ s.pc = "done"
    BY DEF NoRunner, RunnerState, RunnerPcs, RunnerTargets, Completions
  <2>2. RunnerGoes(j, s)
    BY <1>6 DEF RunnerDone
  <2> HIDE DEF s
  <2>3. j \in live => WorkBegun(s) /\ quarantined
    BY <1>1, <1>3, <2>1 DEF LiveAfterBegin, WorkBegun
  <2>4. QED
    BY <1>1, <1>6, <2>1, <2>2, <2>3, RunnerStep
<1>7. QED
  <2>1. CASE /\ Active(registry[j]) /\ RunnerDone(j)
             /\ registry' = [registry EXCEPT ![j] = stored]
    <3>1. Active(stored)
      BY <1>4, <2>1 DEF Active
    <3>2. StaysActive
      BY <1>4, <2>1, <3>1, ActiveWrite
    <3>3. QED
      BY <1>6, <2>1, <3>2
  <2>2. CASE RunnerDone(j) /\ UNCHANGED registry
    BY <1>6, <2>2 DEF StaysActive
  <2>3. QED
    BY <1>5, <2>1, <2>2 DEF FinishApply

(* observe_cleanup, and a call the wall clock refuses, keep the slot       *)
(* invariant.                                                              *)
LEMMA ObserveSlot ==
  ASSUME TypeOK, SlotInvariant, NEW j \in Jobs, RunnerObserve(j) \/ RunnerClockFails(j)
  PROVE  SlotInvariant'
<1> USE DEF envVars, signalVars, slotVars, executionVars
<1>1. /\ runner[j].pc \in {"observe", "finish_check", "finish_apply", "call"} /\ RunnerAlive(j)
      /\ UNCHANGED SlotParts /\ UNCHANGED sweep
  BY DEF RunnerObserve, RunnerClockFails, SlotParts, RunnerAlive
<1>2. LiveAfterBegin /\ CleanedIsOver
  BY DEF SlotInvariant
<1>3. CASE /\ cleaned[j] /\ Finalizable(registry[j])
           /\ registry' = [registry EXCEPT ![j] = Finalize(registry[j])]
           /\ RunnerAt(j, "release")
  <2>1. Active(registry[j]) /\ registry[j] \in Record
    BY <1>3 DEF Finalizable, TypeOK
  <2>2. QED
    BY <1>1, <1>3, <2>1, RunnerSettles
<1>4. CASE runner[j].pc \in {"observe", "finish_check", "finish_apply"} /\ RunnerDone(j)
           /\ UNCHANGED registry
  <2> DEFINE s == [NoRunner EXCEPT !.pc = "done"]
  <2>1. s \in RunnerState /\ s.pc = "done"
    BY DEF NoRunner, RunnerState, RunnerPcs, RunnerTargets, Completions
  <2>2. RunnerGoes(j, s) /\ StaysActive
    BY <1>4 DEF RunnerDone, StaysActive
  <2> HIDE DEF s
  <2>3. j \in live => WorkBegun(s) /\ quarantined
    BY <1>2, <1>4, <2>1 DEF LiveAfterBegin, WorkBegun
  <2>4. QED
    BY <1>1, <2>1, <2>2, <2>3, RunnerStep
<1>5. CASE runner[j].pc = "call" /\ RunnerGoes(j, AfterCall(runner[j], FALSE))
           /\ UNCHANGED registry
  <2>1. StaysActive
    BY <1>5 DEF StaysActive
  <2>2. QED
    BY <1>1, <1>2, <1>5, <2>1, AfterCallStep, RunnerStep
<1>6. QED
  BY <1>3, <1>4, <1>5 DEF RunnerObserve, RunnerClockFails

(* The invocation: it begins once, before any cleanup was observed, and    *)
(* what it leaves behind it leaves in quarantine.                          *)
LEMMA WorkSlot ==
  ASSUME TypeOK, SlotInvariant, NEW j \in Jobs, RunnerBegin(j) \/ RunnerEnd(j)
  PROVE  SlotInvariant'
<1> USE DEF envVars, signalVars, slotVars, executionVars
<1>1. /\ runner[j].pc \in {"work", "busy"} /\ runner[j].target = "collect"
      /\ ~cleaned[j] /\ sweep.job \in Jobs
      /\ UNCHANGED <<registry, permit, cleaned, sweep, session>>
  BY DEF RunnerBegin, RunnerEnd, SlotInvariant, CollectFollowsWork, CleanedIsOver,
     TypeOK, SweepState
<1>2. /\ runner'[j].pc \in {"busy", "call"} /\ runner'[j].target = "collect"
      /\ \A k \in Jobs : k # j => runner'[k] = runner[k]
  <2>1. CASE RunnerBegin(j)
    BY <1>1, <2>1 DEF RunnerBegin, RunnerAt, RunnerGoes, TypeOK, RunnerState
  <2>2. CASE RunnerEnd(j)
    <3>1. PICK c \in {"result", "internal", "unavailable"} :
            RunnerGoes(j, [runner[j] EXCEPT !.pc = "call", !.completion = c])
      BY <2>2 DEF RunnerEnd
    <3>2. QED
      BY <1>1, <3>1 DEF RunnerGoes, TypeOK, RunnerState
  <2>3. QED
    BY <2>1, <2>2
<1>3. \/ live' = live \cup {j} /\ UNCHANGED quarantined /\ runner'[j].pc = "busy"
      \/ live' = live \ {j} /\ UNCHANGED quarantined
      \/ live' = live /\ quarantined'
  BY <1>1, <1>2 DEF RunnerBegin, RunnerEnd, RunnerAt, RunnerGoes, TypeOK, RunnerState
<1>4. IdleUntouched' /\ CollectFollowsWork'
  BY <1>1, <1>2 DEF SlotInvariant, IdleUntouched, CollectFollowsWork
<1>5. LiveAfterBegin'
  BY <1>2, <1>3 DEF SlotInvariant, LiveAfterBegin, WorkBegun, TypeOK
<1>6. CleanedIsOver'
  BY <1>1, <1>2, <1>3 DEF SlotInvariant, CleanedIsOver
<1>7. ReleaseIsEarned'
  BY <1>1, <1>2 DEF SlotInvariant, ReleaseIsEarned
<1>8. UncleanIsKept'
  BY <1>1, <1>2 DEF SlotInvariant, UncleanIsKept
<1>9. OneHolder'
  BY <1>1, <1>2 DEF SlotInvariant, OneHolder, SlotHolders, RunnerAlive
<1>10. QED
  BY <1>4, <1>5, <1>6, <1>7, <1>8, <1>9 DEF SlotInvariant

(* Cleanup is attested when no work ran, or when the inspector says that   *)
(* nothing was left.                                                       *)
LEMMA AttestSlot ==
  ASSUME TypeOK, SlotInvariant, NEW j \in Jobs, RunnerInspect(j) \/ RunnerAbort(j)
  PROVE  SlotInvariant'
<1> USE DEF envVars, signalVars, slotVars, executionVars
<1>1. /\ runner[j].pc \in {"inspect", "abort"} /\ sweep.job \in Jobs
      /\ UNCHANGED <<registry, permit, live, quarantined, sweep, session>>
  BY DEF RunnerInspect, RunnerAbort, TypeOK, SweepState
<1>2. /\ \A k \in Jobs : k # j => runner'[k] = runner[k]
      /\ \/ /\ runner'[j].pc = "decide" /\ cleaned' = [cleaned EXCEPT ![j] = TRUE]
            /\ runner[j].pc = "abort" \/ ~quarantined
         \/ runner'[j].pc = "finish_check" /\ cleaned' = cleaned
  <2>1. CASE RunnerAbort(j)
    BY <2>1 DEF RunnerAbort, RunnerGoes, TypeOK, RunnerState
  <2>2. CASE RunnerInspect(j) /\ quarantined
    <3>1. RunnerGoes(j, [runner[j] EXCEPT !.pc = "finish_check",
                           !.completion = "cleanup_failed", !.observed = FALSE])
      BY <2>2 DEF RunnerInspect
    <3>2. UNCHANGED cleaned
      BY <2>2 DEF RunnerInspect
    <3>3. QED
      BY <3>1, <3>2 DEF RunnerGoes, TypeOK, RunnerState
  <2>3. CASE RunnerInspect(j) /\ ~quarantined
    BY <2>3 DEF RunnerInspect, RunnerAt, RunnerGoes, TypeOK, RunnerState
  <2>4. QED
    BY <2>1, <2>2, <2>3
<1>3. IdleUntouched' /\ CollectFollowsWork'
  BY <1>1, <1>2 DEF SlotInvariant, IdleUntouched, CollectFollowsWork
<1>4. LiveAfterBegin' /\ CleanedIsOver'
  BY <1>1, <1>2 DEF SlotInvariant, LiveAfterBegin, CleanedIsOver, WorkBegun, TypeOK
<1>5. ReleaseIsEarned'
  BY <1>1, <1>2 DEF SlotInvariant, ReleaseIsEarned, TypeOK
<1>6. UncleanIsKept'
  BY <1>1, <1>2 DEF SlotInvariant, UncleanIsKept, TypeOK
<1>7. OneHolder'
  BY <1>1, <1>2 DEF SlotInvariant, OneHolder, SlotHolders, RunnerAlive
<1>8. QED
  BY <1>3, <1>4, <1>5, <1>6, <1>7 DEF SlotInvariant

(* The runner's release gives back a slot whose job is settled and         *)
(* cleaned.                                                                *)
LEMMA ReleaseSlot ==
  ASSUME TypeOK, SlotInvariant, NEW j \in Jobs, RunnerRelease(j)
  PROVE  SlotInvariant'
<1> USE DEF envVars, signalVars, slotVars, executionVars
<1>1. /\ runner[j].pc = "release" /\ cleaned[j] /\ ~Active(registry[j])
      /\ sweep.job \in Jobs
      /\ UNCHANGED <<registry, cleaned, live, quarantined, sweep, session>>
  BY DEF RunnerRelease, SlotInvariant, ReleaseIsEarned, TypeOK, SweepState
<1>2. /\ runner'[j].pc = "done" /\ permit'[j] \in {permit[j], "released"}
      /\ \A k \in Jobs : k # j => runner'[k] = runner[k] /\ permit'[k] = permit[k]
  BY DEF RunnerRelease, ReleasePermit, RunnerDone, RunnerGoes, NoRunner, TypeOK
<1>3. IdleUntouched' /\ CollectFollowsWork' /\ CleanedIsOver'
  BY <1>1, <1>2 DEF SlotInvariant, IdleUntouched, CollectFollowsWork, CleanedIsOver
<1>4. LiveAfterBegin'
  BY <1>1, <1>2 DEF SlotInvariant, LiveAfterBegin, CleanedIsOver, WorkBegun, TypeOK
<1>5. ReleaseIsEarned'
  BY <1>1, <1>2 DEF SlotInvariant, ReleaseIsEarned
<1>6. UncleanIsKept'
  BY <1>1, <1>2 DEF SlotInvariant, UncleanIsKept
<1>7. OneHolder'
  BY <1>1, <1>2 DEF SlotInvariant, OneHolder, SlotHolders, RunnerAlive
<1>8. QED
  BY <1>3, <1>4, <1>5, <1>6, <1>7 DEF SlotInvariant

(* Every step of run_quality_job keeps the slot invariant.                 *)
LEMMA RunnerSlot ==
  ASSUME TypeOK, SlotInvariant, NEW j \in Jobs, Runner(j)
  PROVE  SlotInvariant'
<1> USE DEF envVars, signalVars, slotVars, executionVars
<1>1. runner[j] \in RunnerState
  BY DEF TypeOK
<1>2. CASE Register(j) \/ RunnerDecide(j) \/ FinishRevoke(j)
  <2>1. UNCHANGED SlotParts /\ UNCHANGED <<registry, sweep>> /\ RunnerAlive(j)
    BY <1>2 DEF Register, RunnerDecide, FinishRevoke, SlotParts, RunnerAlive
  <2>2. PICK pc \in {"call", "observe", "finish_check", "finish_apply"} :
          /\ RunnerAt(j, pc)
          /\ \/ runner[j].pc = "register" /\ pc = "call"
             \/ runner[j].pc = "decide" /\ pc \in {"observe", "finish_check"}
             \/ runner[j].pc = "finish_revoke" /\ pc = "finish_apply"
    <3>1. CASE Register(j)
      BY <3>1 DEF Register, RunnerAt, RunnerGoes, TypeOK, RunnerState
    <3>2. CASE RunnerDecide(j)
      BY <3>2 DEF RunnerDecide
    <3>3. CASE FinishRevoke(j)
      BY <3>3 DEF FinishRevoke
    <3>4. QED
      BY <1>2, <3>1, <3>2, <3>3
  <2> DEFINE s == [runner[j] EXCEPT !.pc = pc]
  <2>3. s \in RunnerState /\ s.pc = pc /\ s.observed = runner[j].observed
    BY <1>1 DEF RunnerState, RunnerPcs
  <2>4. RunnerGoes(j, s) /\ StaysActive
    BY <2>1, <2>2 DEF RunnerAt, StaysActive
  <2> HIDE DEF s
  <2>5. /\ j \in live => WorkBegun(s) /\ quarantined
        /\ cleaned[j] => pc # "call"
        /\ pc = "finish_apply" /\ s.observed => cleaned[j]
    BY <2>2, <2>3 DEF SlotInvariant, LiveAfterBegin, CleanedIsOver, ReleaseIsEarned,
       WorkBegun
  <2>6. QED
    BY <2>1, <2>2, <2>3, <2>4, <2>5, RunnerStep
<1>3. CASE RunnerSkip(j)
  <2>1. PICK c \in {"result", "internal"} :
          RunnerGoes(j, [runner[j] EXCEPT !.pc = "call", !.completion = c])
    BY <1>3 DEF RunnerSkip
  <2> DEFINE s == [runner[j] EXCEPT !.pc = "call", !.completion = c]
  <2>2. s \in RunnerState /\ s.pc = "call"
    BY <1>1 DEF RunnerState, RunnerPcs, Completions
  <2>3. RunnerGoes(j, s)
    BY <2>1
  <2> HIDE DEF s
  <2>4. /\ UNCHANGED SlotParts /\ UNCHANGED sweep /\ StaysActive /\ RunnerAlive(j)
        /\ j \notin live /\ ~cleaned[j]
    BY <1>3 DEF RunnerSkip, SlotParts, StaysActive, RunnerAlive, SlotInvariant,
       LiveAfterBegin, CleanedIsOver, WorkBegun
  <2>5. QED
    BY <2>2, <2>3, <2>4, RunnerStep
<1>4. QED
  BY <1>2, <1>3, CallSlot, FinishCheckSlot, FinishApplySlot, ObserveSlot,
     WorkSlot, AttestSlot, ReleaseSlot DEF Runner

(* How the moves of the sweep change what the slot invariant reads of it.  *)
LEMMA SweepMoveFacts ==
  ASSUME TypeOK
  PROVE  /\ \A pc \in SweepPcs : SweepAt(pc) =>
              /\ sweep'.pc = pc /\ sweep'.job = sweep.job
              /\ sweep'.todo = sweep.todo /\ sweep'.err = sweep.err
         /\ \A err \in BOOLEAN : NextVisit(err) =>
              /\ sweep'.pc = "visit" /\ sweep'.todo = sweep.todo
              /\ sweep'.err = (sweep.err \/ err)
         /\ \A d \in Nat, late \in BOOLEAN : JoinFor(d, late) =>
              /\ sweep'.pc = "join" /\ sweep'.todo = sweep.todo
              /\ sweep'.err = sweep.err
<1>1. sweep \in SweepState
  BY DEF TypeOK
<1>2. ASSUME NEW pc \in SweepPcs, SweepAt(pc)
      PROVE  /\ sweep'.pc = pc /\ sweep'.job = sweep.job
             /\ sweep'.todo = sweep.todo /\ sweep'.err = sweep.err
  BY <1>1, <1>2 DEF SweepAt, SweepState
<1>3. ASSUME NEW err \in BOOLEAN, NextVisit(err)
      PROVE  /\ sweep'.pc = "visit" /\ sweep'.todo = sweep.todo
             /\ sweep'.err = (sweep.err \/ err)
  BY <1>1, <1>3 DEF NextVisit, Idle, SweepState
<1>4. ASSUME NEW d \in Nat, NEW late \in BOOLEAN, JoinFor(d, late)
      PROVE  /\ sweep'.pc = "join" /\ sweep'.todo = sweep.todo
             /\ sweep'.err = sweep.err
  BY <1>1, <1>4 DEF JoinFor, SweepState
<1>5. QED
  BY <1>2, <1>3, <1>4

(* The steps after which the sweep only goes on to its next call or visit. *)
LEMMA SweepGoesOnSlot ==
  ASSUME TypeOK, SlotInvariant,
         \/ SweepTerminate \/ SweepSignal \/ WatchdogRecheck \/ JoinUncertain
         \/ SweepClockFails
  PROVE  SlotInvariant'
<1> USE DEF envVars, signalVars, slotVars, executionVars
<1>1. /\ sweep.job \in Jobs /\ sweep.intent \in Intents /\ sweep.err \in BOOLEAN
      /\ CleanupTime \in Nat
  BY ConstantsAssumption DEF TypeOK, SweepState
<1>2. UNCHANGED SlotParts /\ UNCHANGED runner
  BY DEF SweepTerminate, SweepSignal, WatchdogRecheck, JoinUncertain,
     SweepClockFails, SlotParts
<1>3. SweepGoesOn
  <2>1. \/ \E pc \in {"signal", "recheck", "fail"} : SweepAt(pc)
        \/ \E err \in BOOLEAN : NextVisit(err)
        \/ JoinFor(CleanupTime, FALSE)
    BY DEF SweepTerminate, SweepSignal, WatchdogRecheck, JoinUncertain,
       SweepClockFails, Present
  <2>2. QED
    BY <1>1, <2>1, SweepMoveFacts DEF SweepGoesOn, SweepPcs
<1>4. StaysActive
  <2>1. CASE SweepTerminate
    <3>1. CASE Active(registry[sweep.job])
      BY <1>1, <2>1, <3>1, TerminateActive DEF SweepTerminate
    <3>2. CASE ~Active(registry[sweep.job])
      BY <1>1, <2>1, <3>2 DEF SweepTerminate, StaysActive, TypeOK
    <3>3. QED
      BY <3>1, <3>2
  <2>2. CASE UNCHANGED registry
    BY <2>2 DEF StaysActive
  <2>3. QED
    BY <2>1, <2>2 DEF SweepSignal, WatchdogRecheck, JoinUncertain, SweepClockFails
<1>5. QED
  BY <1>2, <1>3, <1>4, SweepStep

(* The sweep settles a job whose cleanup it observed, or declares that the *)
(* cleanup failed and remembers the error.                                 *)
LEMMA SweepSettlesSlot ==
  ASSUME TypeOK, SlotInvariant, SweepFinalize \/ SweepFail
  PROVE  SlotInvariant'
<1> USE DEF envVars, signalVars, slotVars, executionVars
<1> DEFINE j == sweep.job
<1>1. j \in Jobs /\ registry[j] \in Record /\ sweep.err \in BOOLEAN
  BY DEF TypeOK, SweepState
<1>2. UNCHANGED SlotParts /\ UNCHANGED runner
  BY DEF SweepFinalize, SweepFail, SlotParts
<1>3. CASE UNCHANGED registry /\ \E err \in BOOLEAN : NextVisit(err)
  <2>1. SweepGoesOn
    BY <1>1, <1>3, SweepMoveFacts DEF SweepGoesOn
  <2>2. QED
    BY <1>2, <1>3, <2>1, SweepStep DEF StaysActive
<1>4. CASE /\ Active(registry[j])
           /\ Terminal(registry'[j])
           /\ \A k \in Jobs : k # j => registry'[k] = registry[k]
           /\ sweep'.todo = sweep.todo
           /\ \/ cleaned[j] /\ sweep'.pc = "release" /\ sweep'.job = j
                            /\ sweep'.err = sweep.err
              \/ registry'[j].completion = "cleanup_failed" /\ sweep'.pc = "visit" /\ sweep'.err
  <2>1. ~Active(registry'[j]) /\ Present(registry'[j])
    BY <1>4 DEF Terminal, TerminalStates, Active, Present
  <2> USE <1>1, <1>2, <1>4, <2>1 DEF SlotInvariant, SlotParts
  <2>2. IdleUntouched'
    BY DEF IdleUntouched, Active, NoRecord
  <2>3. LiveAfterBegin' /\ CollectFollowsWork' /\ CleanedIsOver'
    BY DEF LiveAfterBegin, CollectFollowsWork, CleanedIsOver, WorkBegun
  <2>4. ReleaseIsEarned'
    BY DEF ReleaseIsEarned
  <2>5. UncleanIsKept'
    BY DEF UncleanIsKept
  <2>6. OneHolder'
    BY DEF OneHolder, SlotHolders, RunnerAlive, Active, Present
  <2>7. QED
    BY <2>2, <2>3, <2>4, <2>5, <2>6
<1>5. CASE SweepFinalize
  <2>1. CASE Finalizable(registry[j])
    <3>1. /\ registry' = [registry EXCEPT ![j] = Finalize(registry[j])]
          /\ SweepAt("release") /\ Active(registry[j])
      BY <1>5, <2>1 DEF SweepFinalize, Finalizable
    <3>2. Terminal(Finalize(registry[j]))
      BY <1>1, FinalizeType
    <3>3. Terminal(registry'[j]) /\ \A k \in Jobs : k # j => registry'[k] = registry[k]
      BY <1>1, <3>1, <3>2 DEF TypeOK
    <3>4. cleaned[j]
      BY <1>5 DEF SweepFinalize, SlotInvariant, ReleaseIsEarned
    <3>5. QED
      BY <1>4, <3>1, <3>3, <3>4, SweepMoveFacts DEF SweepPcs
  <2>2. CASE ~Finalizable(registry[j])
    BY <1>1, <1>3, <1>5, <2>2 DEF SweepFinalize, Terminal, TypeOK
  <2>3. QED
    BY <2>1, <2>2
<1>6. CASE SweepFail
  <2>1. CASE Active(registry[j]) /\ registry[j].phase = "cleanup"
    <3>1. /\ registry' = [registry EXCEPT ![j] =
               [registry[j] EXCEPT !.state = "failed", !.phase = "terminal",
                                   !.deadline = 0, !.completion = "cleanup_failed"]]
          /\ NextVisit(TRUE)
      BY <1>6, <2>1 DEF SweepFail
    <3>2. /\ registry'[j].state = "failed" /\ registry'[j].completion = "cleanup_failed"
          /\ \A k \in Jobs : k # j => registry'[k] = registry[k]
      BY <1>1, <3>1 DEF TypeOK, Record
    <3>3. QED
      BY <1>1, <1>4, <2>1, <3>1, <3>2, SweepMoveFacts DEF Terminal, TerminalStates
  <2>2. CASE ~(Active(registry[j]) /\ registry[j].phase = "cleanup")
    BY <1>1, <1>3, <1>6, <2>2 DEF SweepFail, TypeOK
  <2>3. QED
    BY <2>1, <2>2
<1>7. QED
  BY <1>5, <1>6

(* The sweep's release gives back a slot whose job is settled and cleaned. *)
LEMMA SweepReleaseSlot ==
  ASSUME TypeOK, SlotInvariant, SweepRelease
  PROVE  SlotInvariant'
<1> USE DEF envVars, signalVars, slotVars, executionVars
<1> DEFINE j == sweep.job
<1>1. /\ j \in Jobs /\ cleaned[j] /\ ~Active(registry[j])
      /\ UNCHANGED <<registry, cleaned, live, quarantined, runner, session>>
  BY DEF SweepRelease, SlotInvariant, ReleaseIsEarned, TypeOK, SweepState
<1>2. /\ permit'[j] \in {permit[j], "released"}
      /\ \A k \in Jobs : k # j => permit'[k] = permit[k]
  BY <1>1 DEF SweepRelease, ReleasePermit, TypeOK
<1>3. sweep'.pc = "visit" /\ sweep'.todo = sweep.todo /\ (sweep.err => sweep'.err)
  BY SweepMoveFacts DEF SweepRelease, Present
<1>4. IdleUntouched' /\ LiveAfterBegin' /\ CollectFollowsWork' /\ CleanedIsOver'
  BY <1>1, <1>2 DEF SlotInvariant, IdleUntouched, LiveAfterBegin, CollectFollowsWork,
     CleanedIsOver, WorkBegun
<1>5. ReleaseIsEarned'
  BY <1>1, <1>2, <1>3 DEF SlotInvariant, ReleaseIsEarned
<1>6. UncleanIsKept'
  BY <1>1, <1>3 DEF SlotInvariant, UncleanIsKept
<1>7. OneHolder'
  BY <1>1, <1>2 DEF SlotInvariant, OneHolder, SlotHolders, RunnerAlive
<1>8. QED
  BY <1>4, <1>5, <1>6, <1>7 DEF SlotInvariant

(* Beginning a sweep, visiting a record and ending the sweep.              *)
LEMMA SweepFrameSlot ==
  ASSUME TypeOK, SlotInvariant,
         \/ WatchdogBegin \/ ShutdownBegin \/ JoinObserved \/ WatchdogEnd \/ ShutdownEnd
         \/ \E j \in Jobs : ShutdownVisit(j)
         \/ \E j \in Jobs : WatchdogVisit(j)
  PROVE  SlotInvariant'
<1> USE DEF envVars, signalVars, slotVars, executionVars
<1>1. sweep \in SweepState
  BY DEF TypeOK
<1>2. ASSUME NEW j \in Jobs, WatchdogVisit(j) PROVE SlotInvariant'
  <2>1. /\ UNCHANGED SlotParts /\ UNCHANGED runner /\ sweep.pc = "visit"
        /\ Terminal(sweep.todo[j]) => cleaned[j]
    BY <1>2 DEF WatchdogVisit, SlotParts, SlotInvariant, UncleanIsKept
  <2>2. /\ sweep'.pc \in {"visit", "join", "terminate", "recheck"}
        /\ sweep'.err = sweep.err
        /\ \A k \in Jobs : sweep'.todo[k] \in {sweep.todo[k], NoRecord}
    BY <1>1, <1>2 DEF WatchdogVisit, SweepState
  <2>3. /\ registry'[j] = registry[j] \/ (registry'[j] = NoRecord /\ cleaned[j])
        /\ \A k \in Jobs : k # j => registry'[k] = registry[k]
    BY <1>2, <2>1 DEF WatchdogVisit, TypeOK
  <2>4. ~Present(NoRecord) /\ ~Terminal(NoRecord) /\ ~Active(NoRecord)
    BY DEF NoRecord, Present, Terminal, TerminalStates, Active
  <2> USE <2>1, <2>2, <2>3, <2>4 DEF SlotInvariant, SlotParts
  <2>5. IdleUntouched' /\ LiveAfterBegin' /\ CollectFollowsWork' /\ CleanedIsOver'
    BY DEF IdleUntouched, LiveAfterBegin, CollectFollowsWork, CleanedIsOver, WorkBegun
  <2>6. ReleaseIsEarned'
    BY DEF ReleaseIsEarned
  <2>7. UncleanIsKept'
    BY DEF UncleanIsKept
  <2>8. OneHolder'
    BY DEF OneHolder, SlotHolders, RunnerAlive
  <2>9. QED
    BY <2>5, <2>6, <2>7, <2>8
<1>3. CASE \/ WatchdogBegin \/ ShutdownBegin \/ JoinObserved \/ WatchdogEnd
           \/ ShutdownEnd \/ \E j \in Jobs : ShutdownVisit(j)
  <2>1. UNCHANGED <<registry, cleaned, permit, live, quarantined, runner>>
    BY <1>3 DEF WatchdogBegin, ShutdownBegin, JoinObserved, WatchdogEnd,
       ShutdownEnd, ShutdownVisit
  <2>2. IdleUntouched' /\ LiveAfterBegin' /\ CollectFollowsWork' /\ CleanedIsOver'
        /\ OneHolder'
    BY <2>1 DEF SlotInvariant, IdleUntouched, LiveAfterBegin, CollectFollowsWork,
       CleanedIsOver, WorkBegun, OneHolder, SlotHolders, RunnerAlive
  <2>3. ReleaseIsEarned' /\ UncleanIsKept'
    <3> USE <1>1, <2>1 DEF SlotInvariant, ReleaseIsEarned, UncleanIsKept, SweepState
    <3>1. CASE WatchdogBegin
      BY <3>1 DEF WatchdogBegin
    <3>2. CASE ShutdownBegin
      BY <3>2 DEF ShutdownBegin, Active, Terminal, TerminalStates, NoRecord
    <3>3. CASE JoinObserved
      BY <3>3 DEF JoinObserved, SweepAt
    <3>4. CASE WatchdogEnd
      BY <3>4 DEF WatchdogEnd, Swept
    <3>5. CASE ShutdownEnd
      BY <3>5 DEF ShutdownEnd, SweepAt, Swept
    <3>6. ASSUME NEW j \in Jobs, ShutdownVisit(j)
          PROVE  ReleaseIsEarned' /\ UncleanIsKept'
      <4>1. /\ sweep'.pc = "terminate" /\ sweep'.err = sweep.err
            /\ \A k \in Jobs : sweep'.todo[k] \in {sweep.todo[k], NoRecord}
        BY <3>6 DEF ShutdownVisit
      <4>2. ~Terminal(NoRecord) /\ session' = session /\ sweep.pc = "visit"
        BY <3>6 DEF ShutdownVisit, NoRecord, Terminal, TerminalStates
      <4>3. QED
        BY <4>1, <4>2
    <3>7. QED
      BY <1>3, <3>1, <3>2, <3>3, <3>4, <3>5, <3>6
  <2>4. QED
    BY <2>2, <2>3 DEF SlotInvariant
<1>4. QED
  BY <1>2, <1>3

(* The slot invariant is inductive, given the types.                       *)
LEMMA NextSlot == TypeOK /\ SlotInvariant /\ [Next]_vars => SlotInvariant'
<1> SUFFICES ASSUME TypeOK, SlotInvariant, [Next]_vars PROVE SlotInvariant'
  OBVIOUS
<1>1. CASE UNCHANGED vars
  <2>1. UNCHANGED SlotParts /\ UNCHANGED <<registry, runner, sweep>>
    BY <1>1 DEF vars, SlotParts
  <2>2. QED
    BY <2>1, SweepStep DEF StaysActive, SweepGoesOn
<1>2. CASE Sweep
  BY <1>2, SweepGoesOnSlot, SweepSettlesSlot, SweepReleaseSlot, SweepFrameSlot DEF Sweep
<1>3. QED
  BY <1>1, <1>2, EnvironmentSlot, RunnerSlot, ControlSlot DEF Next, Ended

(* The slot invariant holds in every reachable state.                      *)
LEMMA SlotInductive == Spec => []SlotInvariant
<1>1. TypeOK /\ SlotInvariant /\ [Next]_vars => SlotInvariant'
  BY NextSlot
<1>2. QED
  BY InitSlot, <1>1, TypeCorrect, PTL DEF Spec

(* Whatever a job started and could not remove keeps the only slot, for    *)
(* any number of jobs and any interleaving of the runner, the sweeps and   *)
(* the controls.                                                           *)
THEOREM SlotSafety == Spec => []SlotCoversExecution
<1>1. TypeOK /\ SlotInvariant => SlotCoversExecution
  <2> SUFFICES ASSUME TypeOK, SlotInvariant PROVE SlotCoversExecution
    OBVIOUS
  <2>1. ASSUME NEW j \in live PROVE j \in SlotHolders
    <3>1. j \in Jobs /\ runner[j].pc # "idle" /\ ~cleaned[j]
      BY DEF TypeOK, SlotInvariant, LiveAfterBegin, CleanedIsOver, WorkBegun
    <3>2. permit[j] = "held"
      BY <3>1 DEF TypeOK, SlotInvariant, IdleUntouched, ReleaseIsEarned
    <3>3. Present(registry[j])
      BY <3>1 DEF SlotInvariant, UncleanIsKept
    <3>4. QED
      BY <3>1, <3>2, <3>3 DEF SlotHolders
  <2>2. QED
    BY <2>1 DEF SlotCoversExecution, SlotInvariant, OneHolder
<1>2. QED
  BY <1>1, TypeCorrect, SlotInductive, PTL

(* A free slot means no active job: the registry's own test for a busy     *)
(* server and the semaphore agree in every reachable state.                *)
LEMMA ActiveSafety == Spec => []ActiveHoldsSlot
<1>1. TypeOK /\ SlotInvariant => ActiveHoldsSlot
  <2> SUFFICES ASSUME TypeOK, SlotInvariant, NEW j \in Jobs, Active(registry[j])
               PROVE  j \in SlotHolders
    BY DEF ActiveHoldsSlot
  <2>1. Present(registry[j]) /\ registry[j] # NoRecord
    BY DEF Active, Present, NoRecord
  <2>2. permit[j] = "held"
    BY <2>1 DEF TypeOK, SlotInvariant, IdleUntouched, ReleaseIsEarned
  <2>3. QED
    BY <2>1, <2>2 DEF SlotHolders
<1>2. QED
  BY <1>1, TypeCorrect, SlotInductive, PTL

(* A terminal state is visible only after the joined cleanup was observed, *)
(* or says that cleanup failed.                                            *)
THEOREM JoinSafety == Spec => []TerminalMeansJoined
<1>1. SlotInvariant => TerminalMeansJoined
  BY DEF SlotInvariant, UncleanIsKept, CleanedIsOver, TerminalMeansJoined
<1>2. QED
  BY <1>1, SlotInductive, PTL

-----------------------------------------------------------------------------
(* What a step may do to a record.                                         *)

(* Only an active record is rewritten, and its first intent survives; any  *)
(* other change is an admission or an expiry.                              *)
RecordMoves(j) ==
  \/ registry'[j] \in {registry[j], NoRecord}
  \/ registry[j] = NoRecord
  \/ /\ Active(registry[j])
     /\ registry[j].intent # "none" => registry'[j].intent = registry[j].intent

(* A write to one record moves that record only.                           *)
LEMMA RecordWrite ==
  ASSUME TypeOK, NEW j \in Jobs, NEW r, Active(registry[j]),
         registry[j].intent # "none" => r.intent = registry[j].intent,
         registry' = [registry EXCEPT ![j] = r]
  PROVE  \A k \in Jobs : RecordMoves(k)
BY DEF TypeOK, RecordMoves

(* request_termination keeps the first intent of an active record.         *)
LEMMA TerminateMoves ==
  ASSUME TypeOK, NEW j \in Jobs, NEW intent \in Intents, Active(registry[j]),
         registry' = [registry EXCEPT ![j] = Terminate(registry[j], intent)]
  PROVE  \A k \in Jobs : RecordMoves(k)
BY TerminateType, RecordWrite DEF TypeOK

(* The registry calls of the runner: start, set_phase, finish and          *)
(* observe_cleanup.                                                        *)
LEMMA RunnerMoves ==
  ASSUME TypeOK, NEW j \in Jobs, Runner(j)
  PROVE  \A k \in Jobs : RecordMoves(k)
<1> USE DEF envVars, signalVars, slotVars, executionVars
<1>1. registry[j] \in Record /\ runner[j].target \in RunnerTargets
  BY DEF TypeOK, RunnerState
<1>2. CASE UNCHANGED registry
  BY <1>2 DEF RecordMoves
<1>3. CASE RunnerCall(j)
  <2>1. CASE MayEnter(registry[j], runner[j].target)
             /\ registry' = [registry EXCEPT ![j] = Enter(registry[j], runner[j].target)]
    <3>1. Active(registry[j])
      BY <2>1 DEF MayEnter, Active
    <3>2. Enter(registry[j], runner[j].target).intent = registry[j].intent
      BY <1>1, EnterType
    <3>3. QED
      BY <2>1, <3>1, <3>2, RecordWrite
  <2>2. CASE Active(registry[j])
             /\ registry' = [registry EXCEPT ![j] = Terminate(registry[j], "revoked")]
    BY <2>2, TerminateMoves DEF Intents
  <2>3. QED
    BY <1>2, <1>3, <2>1, <2>2 DEF RunnerCall
<1>4. CASE FinishCheck(j)
  BY <1>2, <1>4, TerminateMoves DEF FinishCheck, Intents
<1>5. CASE FinishApply(j)
  <2> DEFINE stored == [registry[j] EXCEPT
                 !.phase = "cleanup", !.completion = runner[j].completion,
                 !.deadline = After(clock, CleanupTime)]
  <2>1. After(clock, CleanupTime) \in Nat /\ runner[j].completion \in Completions
    BY AfterType, ConstantsAssumption DEF TypeOK, RunnerState
  <2>2. stored \in Record /\ stored.intent = registry[j].intent
    BY <1>1, <2>1 DEF Record, Phases
  <2>3. Finalize(stored).intent = registry[j].intent
    BY <2>2, FinalizeType
  <2>4. \/ Active(registry[j]) /\ registry' = [registry EXCEPT ![j] = Finalize(stored)]
        \/ Active(registry[j]) /\ registry' = [registry EXCEPT ![j] = stored]
        \/ UNCHANGED registry
    BY <1>5 DEF FinishApply
  <2> HIDE DEF stored
  <2>5. QED
    BY <1>2, <2>2, <2>3, <2>4, RecordWrite
<1>6. CASE RunnerObserve(j)
  <2>1. Finalize(registry[j]).intent = registry[j].intent
    BY <1>1, FinalizeType
  <2>2. QED
    BY <1>2, <1>6, <2>1, RecordWrite DEF RunnerObserve, Finalizable
<1>7. QED
  BY <1>2, <1>3, <1>4, <1>5, <1>6 DEF Runner, Register, RunnerRevoke, RunnerSkip,
     RunnerBegin, RunnerEnd, RunnerAbort, RunnerInspect, RunnerDecide, FinishRevoke,
     RunnerRelease, RunnerClockFails

(* The registry calls of the watchdog and of the shutdown sweep.           *)
LEMMA SweepRecordMoves ==
  ASSUME TypeOK, Sweep
  PROVE  \A k \in Jobs : RecordMoves(k)
<1> USE DEF envVars, signalVars, slotVars, executionVars
<1>1. /\ sweep.job \in Jobs /\ sweep.intent \in Intents
      /\ registry[sweep.job] \in Record
  BY DEF TypeOK, SweepState
<1>2. CASE UNCHANGED registry
  BY <1>2 DEF RecordMoves
<1>3. CASE SweepTerminate
  <2>1. CASE Active(registry[sweep.job])
    BY <1>1, <1>3, <2>1, TerminateMoves DEF SweepTerminate
  <2>2. CASE ~Active(registry[sweep.job])
    BY <1>1, <1>3, <2>2 DEF SweepTerminate, RecordMoves, TypeOK
  <2>3. QED
    BY <2>1, <2>2
<1>4. CASE SweepFinalize
  <2>1. Finalize(registry[sweep.job]).intent = registry[sweep.job].intent
    BY <1>1, FinalizeType
  <2>2. CASE Finalizable(registry[sweep.job])
    BY <1>1, <1>4, <2>1, <2>2, RecordWrite DEF SweepFinalize, Finalizable
  <2>3. CASE ~Finalizable(registry[sweep.job])
    BY <1>1, <1>4, <2>3 DEF SweepFinalize, RecordMoves, TypeOK
  <2>4. QED
    BY <2>2, <2>3
<1>5. CASE SweepFail
  <2>1. CASE Active(registry[sweep.job]) /\ registry[sweep.job].phase = "cleanup"
    BY <1>1, <1>5, <2>1 DEF SweepFail, RecordMoves, TypeOK, Record
  <2>2. CASE ~(Active(registry[sweep.job]) /\ registry[sweep.job].phase = "cleanup")
    BY <1>1, <1>5, <2>2 DEF SweepFail, RecordMoves, TypeOK
  <2>3. QED
    BY <2>1, <2>2
<1>6. CASE \E j \in Jobs : WatchdogVisit(j)
  BY <1>6 DEF WatchdogVisit, RecordMoves, TypeOK
<1>7. QED
  BY <1>2, <1>3, <1>4, <1>5, <1>6 DEF Sweep, WatchdogBegin, ShutdownBegin, ShutdownVisit,
     SweepSignal, WatchdogRecheck, JoinObserved, JoinUncertain, SweepRelease,
     SweepClockFails, WatchdogEnd, ShutdownEnd

(* Every step moves every record as RecordMoves says.                      *)
LEMMA NextMoves ==
  ASSUME TypeOK, SlotInvariant, [Next]_vars
  PROVE  \A j \in Jobs : RecordMoves(j)
<1> USE DEF envVars, signalVars, slotVars, executionVars
<1>1. CASE UNCHANGED registry
  BY <1>1 DEF RecordMoves
<1>2. ASSUME NEW j \in Jobs, Admit(j) PROVE \A k \in Jobs : RecordMoves(k)
  <2>1. registry[j] = NoRecord
    BY <1>2 DEF Admit, SlotInvariant, IdleUntouched
  <2>2. \A k \in Jobs : k # j => registry'[k] = registry[k]
    BY <1>2 DEF Admit, TypeOK
  <2>3. QED
    BY <2>1, <2>2 DEF RecordMoves
<1>3. ASSUME NEW c \in Clients, Control(c) PROVE \A k \in Jobs : RecordMoves(k)
  <2>1. client[c].job \in Jobs
    BY DEF TypeOK, ClientState
  <2>2. QED
    BY <1>1, <1>3, <2>1, TerminateMoves DEF Control, ControlRevoked, CancelCheck,
       CancelApply, ControlSignal, ControlClockFails, Intents
<1>4. QED
  BY <1>1, <1>2, <1>3, RunnerMoves, SweepRecordMoves DEF Next, Environment, Tick,
     Disconnect, ChangeAuthority, Deliver, Ended, vars

(* A settled record is never rewritten, whatever stale snapshot the sweep  *)
(* works on and however late a completion arrives.                         *)
THEOREM TerminalFinality == Spec => TerminalIsFinal
<1>1. TypeOK /\ SlotInvariant /\ [Next]_vars
        => (\A j \in Jobs : Terminal(registry[j]) =>
              registry'[j] \in {registry[j], NoRecord})
  BY NextMoves DEF RecordMoves, Terminal, TerminalStates, Active, NoRecord
<1>2. QED
  BY <1>1, TypeCorrect, SlotInductive, PTL DEF Spec, TerminalIsFinal

(* The first termination intent is kept to the end of the record's life.   *)
THEOREM IntentStability == Spec => FirstIntentSticks
<1>1. TypeOK /\ SlotInvariant /\ [Next]_vars
        => (\A j \in Jobs : registry[j].intent # "none" /\ Present(registry'[j])
              => registry'[j].intent = registry[j].intent)
  BY NextMoves DEF RecordMoves, Present, NoRecord
<1>2. QED
  BY <1>1, TypeCorrect, SlotInductive, PTL DEF Spec, FirstIntentSticks

-----------------------------------------------------------------------------
(* The slot of a settled job comes back.                                   *)

(* Somebody gives the slot of a job back, or has.                          *)
Returning(j) ==
  \/ permit[j] = "released"
  \/ runner[j].pc = "release"
  \/ sweep.pc = "release" /\ sweep.job = j
GivesBack(j) ==
  Terminal(registry[j]) /\ registry[j].completion # "cleanup_failed" => Returning(j)

(* A step that settles nothing and drops no pending release.               *)
LEMMA LeakFrame ==
  ASSUME NEW k \in Jobs, GivesBack(k),
         registry'[k] = registry[k] \/ ~Terminal(registry'[k]),
         Returning(k) => Returning(k)' \/ ~Terminal(registry'[k])
  PROVE  GivesBack(k)'
BY DEF GivesBack, Terminal

(* What start, set_phase and a termination write is active.                *)
LEMMA ActiveIsOpen ==
  ASSUME NEW r \in Record, Active(r)
  PROVE  /\ \A intent \in Intents : ~Terminal(Terminate(r, intent))
         /\ \A target \in RunnerTargets : ~Terminal(Enter(r, target))
         /\ ~Terminal(r)
BY DEF Record, Terminate, Enter, Active, Terminal, TerminalStates

(* A runner that settles its job goes on to the release, and its release   *)
(* finds either the record or nothing to give back for.                    *)
LEMMA RunnerGivesBack ==
  ASSUME TypeOK, NEW j \in Jobs, Runner(j), GivesBack(j)
  PROVE  GivesBack(j)'
<1> USE DEF envVars, signalVars, slotVars, executionVars
<1>1. /\ registry[j] \in Record /\ runner[j].target \in RunnerTargets
      /\ runner[j] \in RunnerState
  BY DEF TypeOK, RunnerState
<1>2. ASSUME permit' = permit, sweep' = sweep, runner[j].pc # "release",
             registry'[j] = registry[j] \/ ~Terminal(registry'[j])
      PROVE  GivesBack(j)'
  BY <1>2, LeakFrame DEF Returning
<1>3. ASSUME RunnerAt(j, "release") PROVE GivesBack(j)'
  BY <1>1, <1>3 DEF RunnerAt, RunnerGoes, GivesBack, Returning, TypeOK, RunnerState
<1>4. CASE RunnerCall(j)
  BY <1>1, <1>2, <1>4, ActiveIsOpen DEF RunnerCall, MayEnter, TypeOK, Intents,
     Active
<1>5. CASE FinishCheck(j)
  BY <1>1, <1>2, <1>5, ActiveIsOpen DEF FinishCheck, TypeOK, Intents
<1>6. CASE FinishApply(j)
  <2>1. CASE Active(registry[j]) /\ runner[j].observed
    BY <1>3, <1>6, <2>1 DEF FinishApply
  <2>2. CASE Active(registry[j]) /\ ~runner[j].observed
    <3> DEFINE stored == [registry[j] EXCEPT
                  !.phase = "cleanup", !.completion = runner[j].completion,
                  !.deadline = After(clock, CleanupTime)]
    <3>1. registry' = [registry EXCEPT ![j] = stored]
      BY <1>6, <2>2 DEF FinishApply
    <3>2. stored.state = registry[j].state
      BY <1>1 DEF Record
    <3> HIDE DEF stored
    <3>3. ~Terminal(registry'[j])
      BY <2>2, <3>1, <3>2 DEF TypeOK, Active, Terminal, TerminalStates
    <3>4. QED
      BY <1>2, <1>6, <3>3 DEF FinishApply
  <2>3. CASE ~Active(registry[j])
    BY <1>2, <1>6, <2>3 DEF FinishApply
  <2>4. QED
    BY <2>1, <2>2, <2>3
<1>7. CASE RunnerObserve(j)
  BY <1>2, <1>3, <1>7 DEF RunnerObserve
<1>8. CASE RunnerRelease(j)
  BY <1>8 DEF RunnerRelease, ReleasePermit, GivesBack, Returning, Terminal,
     TerminalStates, Present, TypeOK
<1>9. CASE UNCHANGED <<registry, permit, sweep>> /\ runner[j].pc # "release"
  BY <1>2, <1>9
<1>10. QED
  BY <1>4, <1>5, <1>6, <1>7, <1>8, <1>9 DEF Runner, Register, RunnerRevoke, RunnerSkip,
     RunnerBegin, RunnerEnd, RunnerAbort, RunnerInspect, RunnerDecide, FinishRevoke,
     RunnerClockFails

(* The sweep that settles a job goes on to the release; whatever else it   *)
(* does leaves pending releases pending.                                   *)
LEMMA SweepGivesBack ==
  ASSUME TypeOK, NEW k \in Jobs, Sweep, GivesBack(k)
  PROVE  GivesBack(k)'
<1> USE DEF envVars, signalVars, slotVars, executionVars
<1>1. /\ sweep.job \in Jobs /\ sweep.intent \in Intents /\ sweep \in SweepState
      /\ registry[k] \in Record /\ registry[sweep.job] \in Record
  BY DEF TypeOK, SweepState
<1>2. ASSUME UNCHANGED <<permit, runner>>, sweep.pc # "release",
             registry'[k] = registry[k] \/ ~Terminal(registry'[k])
      PROVE  GivesBack(k)'
  BY <1>2, LeakFrame DEF Returning
<1>3. CASE SweepTerminate
  BY <1>1, <1>2, <1>3, ActiveIsOpen DEF SweepTerminate, TypeOK
<1>4. CASE SweepFinalize
  <2>1. CASE Finalizable(registry[sweep.job])
    <3>1. sweep'.pc = "release" /\ sweep'.job = sweep.job
      BY <1>4, <2>1, SweepMoveFacts DEF SweepFinalize, SweepPcs
    <3>2. CASE k = sweep.job
      BY <3>1, <3>2 DEF GivesBack, Returning
    <3>3. CASE k # sweep.job
      BY <1>1, <1>2, <1>4, <3>3 DEF SweepFinalize, TypeOK
    <3>4. QED
      BY <3>2, <3>3
  <2>2. CASE ~Finalizable(registry[sweep.job])
    BY <1>1, <1>2, <1>4, <2>2 DEF SweepFinalize, TypeOK
  <2>3. QED
    BY <2>1, <2>2
<1>5. CASE SweepFail
  <2>1. CASE k = sweep.job /\ Active(registry[k]) /\ registry[k].phase = "cleanup"
    <3>1. registry'[k].completion = "cleanup_failed"
      BY <1>1, <1>5, <2>1 DEF SweepFail, TypeOK, Record
    <3>2. QED
      BY <3>1 DEF GivesBack
  <2>2. CASE ~(k = sweep.job /\ Active(registry[k]) /\ registry[k].phase = "cleanup")
    BY <1>1, <1>2, <1>5, <2>2 DEF SweepFail, TypeOK
  <2>3. QED
    BY <2>1, <2>2
<1>6. CASE SweepRelease
  BY <1>1, <1>6 DEF SweepRelease, ReleasePermit, GivesBack, Returning, Terminal,
     TerminalStates, Present, TypeOK
<1>7. ASSUME NEW j \in Jobs, WatchdogVisit(j) PROVE GivesBack(k)'
  <2>1. registry'[k] = registry[k] \/ registry'[k] = NoRecord
    BY <1>7 DEF WatchdogVisit, TypeOK
  <2>2. QED
    BY <1>2, <1>7, <2>1 DEF WatchdogVisit, NoRecord, Terminal, TerminalStates
<1>8. CASE UNCHANGED <<registry, permit, runner>> /\ sweep.pc # "release"
  BY <1>2, <1>8
<1>9. QED
  BY <1>3, <1>4, <1>5, <1>6, <1>7, <1>8 DEF Sweep, WatchdogBegin, ShutdownBegin,
     ShutdownVisit, SweepSignal, WatchdogRecheck, JoinObserved, JoinUncertain,
     SweepClockFails, WatchdogEnd, ShutdownEnd, Swept

(* A settled job whose cleanup was observed gives its slot back, whichever *)
(* of the racing finishers settled it, and whatever became of the others.  *)
LEMMA SlotComesBack == Spec => []NoPermitLeak
<1> DEFINE AllGiveBack == \A j \in Jobs : GivesBack(j)
<1>1. Init => AllGiveBack
  BY DEF Init, GivesBack, NoRecord, Terminal, TerminalStates
<1>2. TypeOK /\ SlotInvariant /\ AllGiveBack /\ [Next]_vars => AllGiveBack'
  <2> SUFFICES ASSUME TypeOK, SlotInvariant, AllGiveBack, [Next]_vars, NEW k \in Jobs
               PROVE  GivesBack(k)'
    OBVIOUS
  <2> USE DEF envVars, signalVars, slotVars, executionVars
  <2>1. CASE UNCHANGED <<registry, permit, runner, sweep>>
    BY <2>1 DEF GivesBack, Returning
  <2>2. ASSUME NEW j \in Jobs, Admit(j) PROVE GivesBack(k)'
    <3>1. CASE k = j
      <4>1. registry'[k].state = "admitted"
        BY <2>2, <3>1 DEF Admit, TypeOK, NoRecord
      <4>2. QED
        BY <4>1 DEF GivesBack, Terminal, TerminalStates
    <3>2. CASE k # j
      BY <2>2, <3>2 DEF Admit, TypeOK, GivesBack, Returning
    <3>3. QED
      BY <3>1, <3>2
  <2>3. ASSUME NEW j \in Jobs, Runner(j) PROVE GivesBack(k)'
    <3>1. CASE k = j
      BY <2>3, <3>1, RunnerGivesBack
    <3>2. CASE k # j
      <4>1. /\ runner'[k] = runner[k] /\ registry'[k] = registry[k]
            /\ permit'[k] = permit[k] /\ sweep' = sweep
        BY <2>3, <3>2 DEF TypeOK, Runner, Register, RunnerCall, RunnerRevoke,
           RunnerSkip, RunnerBegin, RunnerEnd, RunnerAbort, RunnerInspect,
           RunnerDecide, FinishCheck, FinishRevoke, FinishApply, RunnerObserve,
           RunnerRelease, RunnerClockFails, ReleasePermit, RunnerAt, RunnerGoes,
           RunnerDone
      <4>2. QED
        BY <4>1 DEF GivesBack, Returning
    <3>3. QED
      BY <3>1, <3>2
  <2>4. ASSUME NEW c \in Clients, Control(c) PROVE GivesBack(k)'
    <3>1. client[c].job \in Jobs /\ UNCHANGED <<permit, runner, sweep>>
      BY <2>4 DEF TypeOK, ClientState, Control, ControlRevoked, CancelCheck,
         CancelApply, ControlSignal, ControlClockFails
    <3>2. registry'[k] = registry[k] \/ ~Terminal(registry'[k])
      BY <2>4, <3>1, ActiveIsOpen DEF Control, ControlRevoked, CancelCheck,
         CancelApply, ControlSignal, ControlClockFails, TypeOK, Intents
    <3>3. QED
      BY <3>1, <3>2, LeakFrame DEF Returning
  <2>5. QED
    BY <2>1, <2>2, <2>3, <2>4, SweepGivesBack DEF Next, Environment, Tick,
       Disconnect, ChangeAuthority, Deliver, Ended, vars
<1>3. AllGiveBack => NoPermitLeak
  BY DEF GivesBack, Returning, NoPermitLeak
<1>4. QED
  BY <1>1, <1>2, <1>3, TypeCorrect, SlotInductive, PTL DEF Spec

(* A free slot means no active job and no settled one still to give it     *)
(* back: record and semaphore agree, for any number of jobs.               *)
THEOREM SlotAgreement == Spec => []SlotFollowsRecord
BY ActiveSafety, SlotComesBack, PTL DEF SlotFollowsRecord

-----------------------------------------------------------------------------
(* A failed cleanup closes the session.                                    *)

(* Where the code "cleanup_failed" may be: with a runner that is about to  *)
(* store it, in an active record whose runner is done and whose cleanup is *)
(* never observed, or in a settled one whose sweep will close the session. *)
Closing == session # "open" \/ (sweep.err /\ sweep.pc \notin {"sleep", "stopped"})
FailureFacts(j) ==
  /\ runner[j].completion = "cleanup_failed" =>
       /\ ~cleaned[j] /\ ~runner[j].observed
       /\ runner[j].pc \in {"finish_check", "finish_revoke", "finish_apply"}
  /\ registry[j].completion = "cleanup_failed" =>
       \/ Active(registry[j]) /\ ~cleaned[j] /\ runner[j].pc = "done"
       \/ ~Active(registry[j]) /\ Closing

(* Entering a phase and terminating keep the completion, settling invents  *)
(* no failed cleanup.                                                      *)
LEMMA CompletionKept ==
  ASSUME TypeOK, NEW r \in Record
  PROVE  /\ \A target \in RunnerTargets : Enter(r, target).completion = r.completion
         /\ \A intent \in Intents : Terminate(r, intent).completion = r.completion
         /\ Finalize(r).completion \in {r.completion, "timed_out"}
<1>1. \A target \in RunnerTargets : Enter(r, target).completion = r.completion
  BY DEF Enter, Record
<1>2. \A intent \in Intents : Terminate(r, intent).completion = r.completion
  BY TerminateType
<1> DEFINE completion == IF r.intent = "deadline" /\ r.completion = "none"
                         THEN "timed_out" ELSE r.completion
           state == CASE completion = "result"   -> "completed"
                      [] completion \in Failures -> "failed"
                      [] OTHER                   -> "cancelled"
<1>3. Finalize(r) = [r EXCEPT !.phase = "terminal", !.deadline = 0,
                              !.completion = completion, !.state = state]
  BY DEF Finalize
<1>4. completion \in {r.completion, "timed_out"}
  OBVIOUS
<1> HIDE DEF completion, state
<1>5. Finalize(r).completion = completion
  BY <1>3 DEF Record
<1>6. QED
  BY <1>1, <1>2, <1>4, <1>5

(* What a step does to the other jobs is nothing, as far as failures go.   *)
LEMMA FailureFrame ==
  ASSUME NEW k \in Jobs, FailureFacts(k), Closing => Closing',
         runner'[k] = runner[k], cleaned'[k] = cleaned[k],
         \/ registry'[k] = registry[k]
         \/ registry'[k].completion # "cleanup_failed"
         \/ /\ registry'[k].completion = registry[k].completion
            /\ Active(registry'[k]) <=> Active(registry[k])
  PROVE  FailureFacts(k)'
BY DEF FailureFacts, Active

(* The runner of the job itself: a step that keeps the completion of an    *)
(* active record, or writes one that is no failed cleanup.                 *)
LEMMA RunnerFailure ==
  ASSUME TypeOK, SlotInvariant, NEW j \in Jobs, Runner(j), FailureFacts(j)
  PROVE  FailureFacts(j)'
<1> USE DEF envVars, signalVars, slotVars, executionVars
<1>1. /\ registry[j] \in Record /\ runner[j] \in RunnerState
      /\ runner[j].target \in RunnerTargets /\ runner[j].completion \in Completions
      /\ UNCHANGED <<sweep, session>>
  BY DEF TypeOK, RunnerState, Runner, Register, RunnerCall, RunnerRevoke, RunnerSkip,
     RunnerBegin, RunnerEnd, RunnerAbort, RunnerInspect, RunnerDecide, FinishCheck,
     FinishRevoke, FinishApply, RunnerObserve, RunnerRelease, RunnerClockFails
<1>2. Closing' <=> Closing
  BY <1>1 DEF Closing
<1>3. ASSUME NEW s \in RunnerState, RunnerGoes(j, s), s.completion # "cleanup_failed",
             runner[j].pc # "done",
             registry'[j].completion # "cleanup_failed" \/ registry'[j] = registry[j]
      PROVE  FailureFacts(j)'
  <2>1. runner'[j] = s
    BY <1>3 DEF RunnerGoes, TypeOK
  <2>2. QED
    BY <1>2, <1>3, <2>1 DEF FailureFacts
<1>4. ASSUME NEW pc \in RunnerPcs, RunnerAt(j, pc), runner[j].completion # "cleanup_failed",
             runner[j].pc # "done",
             registry'[j].completion # "cleanup_failed" \/ registry'[j] = registry[j]
      PROVE  FailureFacts(j)'
  <2> DEFINE s == [runner[j] EXCEPT !.pc = pc]
  <2>1. s \in RunnerState /\ s.completion = runner[j].completion
    BY <1>1 DEF RunnerState
  <2>2. QED
    BY <1>3, <1>4, <2>1 DEF RunnerAt
<1>5. CASE RunnerCall(j)
  <2>1. /\ runner[j].completion # "cleanup_failed"
        /\ registry[j].completion # "cleanup_failed" \/ ~Active(registry[j])
    BY <1>5 DEF RunnerCall, FailureFacts
  <2>2. registry'[j].completion # "cleanup_failed" \/ registry'[j] = registry[j]
    <3>1. MayEnter(registry[j], runner[j].target) => Active(registry[j])
      BY DEF MayEnter, Active
    <3>2. CASE registry' = [registry EXCEPT ![j] = Terminate(registry[j], "revoked")]
               /\ Active(registry[j])
      BY <1>1, <2>1, <3>2, CompletionKept DEF TypeOK, Intents
    <3>3. CASE registry' = [registry EXCEPT ![j] = Enter(registry[j], runner[j].target)]
               /\ Active(registry[j])
      BY <1>1, <2>1, <3>3, CompletionKept DEF TypeOK
    <3>4. QED
      BY <1>5, <3>1, <3>2, <3>3 DEF RunnerCall
  <2>3. CASE RunnerAt(j, "revoke")
    BY <1>4, <1>5, <2>1, <2>2, <2>3 DEF RunnerCall, RunnerPcs
  <2>4. ASSUME NEW ok \in BOOLEAN, RunnerGoes(j, AfterCall(runner[j], ok))
        PROVE  FailureFacts(j)'
    <3>1. /\ AfterCall(runner[j], ok) \in RunnerState
          /\ AfterCall(runner[j], ok).completion = runner[j].completion
      BY <1>1, AfterCallType DEF AfterCall, RunnerState
    <3>2. QED
      BY <1>3, <1>5, <2>1, <2>2, <2>4, <3>1 DEF RunnerCall
  <2>5. QED
    BY <1>5, <2>3, <2>4 DEF RunnerCall
<1>6. ASSUME UNCHANGED registry, runner[j].pc \in {"call", "revoke"},
             RunnerGoes(j, AfterCall(runner[j], FALSE))
      PROVE  FailureFacts(j)'
  <2>1. /\ AfterCall(runner[j], FALSE) \in RunnerState
        /\ AfterCall(runner[j], FALSE).completion = runner[j].completion
    BY <1>1, AfterCallType DEF AfterCall, RunnerState
  <2>2. QED
    BY <1>3, <1>6, <2>1 DEF FailureFacts
<1>7. ASSUME UNCHANGED registry, runner[j].pc # "done", RunnerDone(j)
      PROVE  FailureFacts(j)'
  <2>1. /\ [NoRunner EXCEPT !.pc = "done"] \in RunnerState
        /\ [NoRunner EXCEPT !.pc = "done"].completion = "internal"
    BY DEF NoRunner, RunnerState, RunnerPcs, RunnerTargets, Completions
  <2>2. QED
    BY <1>3, <1>7, <2>1 DEF RunnerDone
<1>8. CASE RunnerInspect(j) /\ quarantined
  <2> DEFINE s == [runner[j] EXCEPT !.pc = "finish_check",
                     !.completion = "cleanup_failed", !.observed = FALSE]
  <2>1. runner'[j] = s /\ UNCHANGED <<registry, cleaned>> /\ runner[j].pc = "inspect"
    BY <1>8 DEF RunnerInspect, RunnerGoes, TypeOK
  <2>2. s.pc = "finish_check" /\ s.completion = "cleanup_failed" /\ ~s.observed
    BY <1>1 DEF RunnerState
  <2>3. ~cleaned[j]
    BY <2>1 DEF SlotInvariant, CleanedIsOver
  <2> HIDE DEF s
  <2>4. QED
    BY <1>2, <2>1, <2>2, <2>3 DEF FailureFacts
<1>9. CASE RunnerAbort(j)
  <2> DEFINE s == [runner[j] EXCEPT !.pc = "decide", !.completion = "internal"]
  <2>1. s \in RunnerState /\ s.completion = "internal"
    BY <1>1 DEF RunnerState, RunnerPcs, Completions
  <2>2. QED
    BY <1>3, <1>9, <2>1 DEF RunnerAbort
<1>10. CASE FinishCheck(j)
  <2> DEFINE s == [runner[j] EXCEPT !.observed = @ /\ cleaned[j]]
             rejected == [s EXCEPT !.completion = "unavailable"]
  <2>1. runner[j].pc = "finish_check" /\ UNCHANGED cleaned
    BY <1>10 DEF FinishCheck
  <2>2. registry'[j] = registry[j] \/ registry'[j].completion # "cleanup_failed"
    BY <1>1, <1>10, CompletionKept DEF FinishCheck, FailureFacts, TypeOK, Intents
  <2>3. /\ \A pc \in RunnerPcs : /\ [rejected EXCEPT !.pc = pc] \in RunnerState
                                /\ [rejected EXCEPT !.pc = pc].completion = "unavailable"
        /\ [s EXCEPT !.pc = "finish_apply"] \in RunnerState
        /\ [s EXCEPT !.pc = "finish_apply"].pc = "finish_apply"
        /\ [s EXCEPT !.pc = "finish_apply"].completion = runner[j].completion
        /\ [s EXCEPT !.pc = "finish_apply"].observed => runner[j].observed
    <3>1. (runner[j].observed /\ cleaned[j]) \in BOOLEAN /\ "unavailable" \in Completions
          /\ "finish_apply" \in RunnerPcs
      BY DEF Completions, RunnerPcs, Failures
    <3>2. QED
      BY <1>1, <3>1 DEF RunnerState
  <2>4. CASE UNCHANGED registry /\ RunnerDone(j)
    BY <1>7, <2>1, <2>4
  <2>5. CASE RunnerGoes(j, [s EXCEPT !.pc = "finish_apply"]) /\ UNCHANGED registry
    <3>1. runner'[j] = [s EXCEPT !.pc = "finish_apply"]
      BY <2>5 DEF RunnerGoes, TypeOK
    <3> HIDE DEF s
    <3>2. QED
      BY <1>2, <2>1, <2>3, <2>5, <3>1 DEF FailureFacts
  <2>6. ASSUME NEW pc \in RunnerPcs, RunnerGoes(j, [rejected EXCEPT !.pc = pc])
        PROVE  FailureFacts(j)'
    <3> HIDE DEF rejected
    <3>1. QED
      BY <1>3, <2>1, <2>2, <2>3, <2>6
  <2>7. QED
    BY <1>10, <2>4, <2>5, <2>6 DEF FinishCheck, RunnerPcs
<1>11. CASE FinishRevoke(j)
  <2>1. runner'[j] = [runner[j] EXCEPT !.pc = "finish_apply"]
        /\ UNCHANGED <<registry, cleaned>> /\ runner[j].pc = "finish_revoke"
    BY <1>11 DEF FinishRevoke, RunnerAt, RunnerGoes, TypeOK
  <2>2. QED
    BY <1>1, <1>2, <2>1 DEF FailureFacts, RunnerState
<1>12. CASE FinishApply(j)
  <2> DEFINE stored == [registry[j] EXCEPT
                 !.phase = "cleanup", !.completion = runner[j].completion,
                 !.deadline = After(clock, CleanupTime)]
  <2>1. After(clock, CleanupTime) \in Nat
    BY AfterType, ConstantsAssumption DEF TypeOK
  <2>2. stored \in Record /\ stored.completion = runner[j].completion
        /\ stored.state = registry[j].state
    BY <1>1, <2>1 DEF Record, Phases
  <2>3. runner[j].pc = "finish_apply" /\ UNCHANGED cleaned
    BY <1>12 DEF FinishApply
  <2>4. CASE ~Active(registry[j])
    BY <1>7, <1>12, <2>3, <2>4 DEF FinishApply
  <2>5. CASE Active(registry[j]) /\ runner[j].observed
    <3>1. registry' = [registry EXCEPT ![j] = Finalize(stored)] /\ RunnerAt(j, "release")
      BY <1>12, <2>5 DEF FinishApply
    <3>2. runner[j].completion # "cleanup_failed"
      BY <2>5 DEF FailureFacts
    <3> HIDE DEF stored
    <3>3. registry'[j].completion # "cleanup_failed"
      BY <2>2, <3>1, <3>2, CompletionKept DEF TypeOK
    <3>4. QED
      BY <1>4, <2>3, <3>1, <3>2, <3>3 DEF RunnerPcs
  <2>6. CASE Active(registry[j]) /\ ~runner[j].observed
    <3>1. registry' = [registry EXCEPT ![j] = stored] /\ RunnerDone(j)
      BY <1>12, <2>6 DEF FinishApply
    <3>2. runner'[j].pc = "done" /\ runner'[j].completion = "internal"
      BY <3>1 DEF RunnerDone, RunnerGoes, NoRunner, TypeOK
    <3> HIDE DEF stored
    <3>3. registry'[j] = stored
      BY <3>1 DEF TypeOK
    <3>4. Active(registry'[j])
      BY <2>2, <2>6, <3>3 DEF Active
    <3>5. QED
      BY <2>2, <2>3, <3>2, <3>3, <3>4 DEF FailureFacts
  <2>7. QED
    BY <2>4, <2>5, <2>6
<1>13. CASE RunnerObserve(j)
  <2>1. CASE cleaned[j] /\ Finalizable(registry[j])
    <3>1. /\ registry' = [registry EXCEPT ![j] = Finalize(registry[j])]
          /\ RunnerAt(j, "release") /\ Active(registry[j]) /\ runner[j].pc = "observe"
      BY <1>13, <2>1 DEF RunnerObserve, Finalizable
    <3>2. registry[j].completion # "cleanup_failed" /\ runner[j].completion # "cleanup_failed"
      BY <2>1, <3>1 DEF FailureFacts
    <3>3. registry'[j].completion # "cleanup_failed"
      BY <1>1, <3>1, <3>2, CompletionKept DEF TypeOK
    <3>4. QED
      BY <1>4, <3>1, <3>2, <3>3 DEF RunnerPcs
  <2>2. CASE ~(cleaned[j] /\ Finalizable(registry[j]))
    BY <1>7, <1>13, <2>2 DEF RunnerObserve
  <2>3. QED
    BY <2>1, <2>2
<1>14. CASE RunnerSkip(j) \/ RunnerEnd(j)
  <2>1. PICK outcome \in {"result", "internal", "unavailable"} :
          RunnerGoes(j, [runner[j] EXCEPT !.pc = "call", !.completion = outcome])
    BY <1>14 DEF RunnerSkip, RunnerEnd
  <2> DEFINE s == [runner[j] EXCEPT !.pc = "call", !.completion = outcome]
  <2>2. s \in RunnerState /\ s.completion = outcome
    BY <1>1 DEF RunnerState, RunnerPcs, Completions, Failures
  <2>3. RunnerGoes(j, s) /\ runner[j].pc # "done" /\ UNCHANGED registry
    BY <1>14, <2>1 DEF RunnerSkip, RunnerEnd
  <2> HIDE DEF s
  <2>4. QED
    BY <1>3, <2>2, <2>3
<1>15. CASE \/ Register(j) \/ RunnerBegin(j) \/ RunnerDecide(j)
            \/ RunnerInspect(j) /\ ~quarantined
  <2>1. /\ \E pc \in RunnerPcs : RunnerAt(j, pc)
        /\ runner[j].pc \in {"register", "work", "decide", "inspect"}
        /\ UNCHANGED registry
    BY <1>15 DEF Register, RunnerBegin, RunnerDecide, RunnerInspect, RunnerPcs,
       RunnerAt, RunnerGoes, TypeOK, RunnerState
  <2>2. QED
    BY <1>4, <2>1 DEF FailureFacts
<1>16. CASE RunnerRelease(j) \/ RunnerClockFails(j)
  BY <1>6, <1>7, <1>16 DEF RunnerRelease, RunnerClockFails
<1>17. QED
  BY <1>5, <1>6, <1>8, <1>9, <1>10, <1>11, <1>12, <1>13, <1>14, <1>15, <1>16
     DEF Runner, RunnerRevoke

(* The sweep: it settles only over an observed cleanup, and the one that   *)
(* declares a cleanup failed remembers the error until the session closes. *)
LEMMA SweepFailure ==
  ASSUME TypeOK, SlotInvariant, NEW k \in Jobs, Sweep, FailureFacts(k)
  PROVE  FailureFacts(k)'
<1> USE DEF envVars, signalVars, slotVars, executionVars
<1> DEFINE j == sweep.job
<1>1. /\ j \in Jobs /\ sweep.intent \in Intents /\ sweep.err \in BOOLEAN
      /\ registry[j] \in Record /\ registry[k] \in Record
      /\ session \in {"open", "closing", "closed"} /\ sweep \in SweepState
      /\ CleanupTime \in Nat
  BY ConstantsAssumption DEF TypeOK, SweepState
<1>2. UNCHANGED <<runner, cleaned>>
  BY DEF Sweep, WatchdogBegin, ShutdownBegin, WatchdogVisit, ShutdownVisit,
     SweepTerminate, SweepSignal, WatchdogRecheck, JoinObserved, JoinUncertain,
     SweepFinalize, SweepRelease, SweepFail, SweepClockFails, WatchdogEnd, ShutdownEnd
<1>3. ASSUME UNCHANGED session, sweep.err => sweep'.err,
             sweep'.pc \notin {"sleep", "stopped"}
      PROVE  Closing => Closing'
  BY <1>3 DEF Closing
<1>4. CASE SweepTerminate
  <2>1. CASE Active(registry[j])
    <3>1. /\ SweepAt("signal") /\ UNCHANGED session
          /\ registry' = [registry EXCEPT ![j] = Terminate(registry[j], sweep.intent)]
      <4>1. SweepAt("signal") /\ UNCHANGED session
        BY <1>4, <2>1 DEF SweepTerminate, Present, Active
      <4>2. registry' = [registry EXCEPT ![j] =
                IF Active(registry[j]) THEN Terminate(registry[j], sweep.intent)
                ELSE registry[j]]
        BY <1>4 DEF SweepTerminate
      <4>3. QED
        BY <2>1, <4>1, <4>2
    <3>2. Closing => Closing'
      BY <1>3, <3>1, SweepMoveFacts DEF SweepPcs
    <3>3. /\ registry'[k].completion = registry[k].completion
          /\ Active(registry'[k]) <=> Active(registry[k])
      BY <1>1, <3>1, TerminateType DEF TypeOK, Active
    <3>4. QED
      BY <1>2, <3>2, <3>3, FailureFrame
  <2>2. CASE ~Active(registry[j])
    <3>1. registry' = registry /\ UNCHANGED session
      BY <1>1, <1>4, <2>2 DEF SweepTerminate, TypeOK
    <3>2. \/ NextVisit(TRUE) \/ JoinFor(CleanupTime, FALSE) \/ SweepAt("recheck")
      BY <1>4, <2>2 DEF SweepTerminate
    <3>3. Closing => Closing'
      BY <1>1, <1>3, <3>1, <3>2, SweepMoveFacts DEF SweepPcs
    <3>4. QED
      BY <1>2, <3>1, <3>3, FailureFrame
  <2>3. QED
    BY <2>1, <2>2
<1>5. CASE SweepFinalize
  <2>1. cleaned[j] /\ UNCHANGED session
    BY <1>5 DEF SweepFinalize, SlotInvariant, ReleaseIsEarned
  <2>2. Closing => Closing'
    <3>1. SweepAt("release") \/ \E err \in BOOLEAN : NextVisit(err)
      BY <1>5 DEF SweepFinalize, Terminal
    <3>2. QED
      BY <1>1, <1>3, <2>1, <3>1, SweepMoveFacts DEF SweepPcs
  <2>3. CASE k = j /\ Finalizable(registry[j])
    <3>1. registry[k].completion # "cleanup_failed"
      BY <2>1, <2>3 DEF FailureFacts, Finalizable
    <3>2. registry'[k] = Finalize(registry[k])
      BY <1>1, <1>5, <2>3 DEF SweepFinalize, TypeOK
    <3>3. registry'[k].completion # "cleanup_failed"
      BY <1>1, <3>1, <3>2, CompletionKept
    <3>4. QED
      BY <1>2, <2>2, <3>3, FailureFrame
  <2>4. CASE ~(k = j /\ Finalizable(registry[j]))
    <3>1. registry'[k] = registry[k]
      BY <1>1, <1>5, <2>4 DEF SweepFinalize, TypeOK
    <3>2. QED
      BY <1>2, <2>2, <3>1, FailureFrame
  <2>5. QED
    BY <2>3, <2>4
<1>6. CASE SweepFail
  <2>1. sweep'.pc = "visit" /\ sweep'.err
    BY <1>1, <1>6, SweepMoveFacts DEF SweepFail
  <2>2. Closing'
    BY <2>1 DEF Closing
  <2>3. CASE k = j /\ Active(registry[j]) /\ registry[j].phase = "cleanup"
    <3>1. registry'[k] = [registry[j] EXCEPT !.state = "failed", !.phase = "terminal",
                            !.deadline = 0, !.completion = "cleanup_failed"]
      BY <1>1, <1>6, <2>3 DEF SweepFail, TypeOK
    <3>2. registry'[k].state = "failed"
      BY <1>1, <3>1 DEF Record
    <3>3. ~Active(registry'[k])
      BY <3>2 DEF Active
    <3>4. QED
      BY <1>2, <2>2, <3>3 DEF FailureFacts
  <2>4. CASE ~(k = j /\ Active(registry[j]) /\ registry[j].phase = "cleanup")
    <3>1. registry'[k] = registry[k]
      BY <1>1, <1>6, <2>4 DEF SweepFail, TypeOK
    <3>2. QED
      BY <1>2, <2>2, <3>1, FailureFrame
  <2>5. QED
    BY <2>3, <2>4
<1>7. ASSUME NEW i \in Jobs, WatchdogVisit(i) PROVE FailureFacts(k)'
  <2>1. UNCHANGED session /\ sweep'.err = sweep.err
        /\ sweep'.pc \in {"visit", "join", "terminate", "recheck"}
    BY <1>1, <1>7 DEF WatchdogVisit, SweepState
  <2>2. Closing => Closing'
    BY <1>3, <2>1
  <2>3. registry'[k] = registry[k] \/ registry'[k].completion # "cleanup_failed"
    BY <1>7 DEF WatchdogVisit, TypeOK, NoRecord
  <2>4. QED
    BY <1>2, <2>2, <2>3, FailureFrame
<1>8. ASSUME UNCHANGED registry, Closing => Closing' PROVE FailureFacts(k)'
  BY <1>2, <1>8, FailureFrame
<1>9. CASE WatchdogBegin \/ ShutdownBegin \/ WatchdogEnd \/ ShutdownEnd
  <2>1. Closing => Closing'
    BY <1>1, <1>9 DEF WatchdogBegin, ShutdownBegin, WatchdogEnd, ShutdownEnd, Closing,
       SweepState, SweepAt, Swept
  <2>2. UNCHANGED registry
    BY <1>9 DEF WatchdogBegin, ShutdownBegin, WatchdogEnd, ShutdownEnd
  <2>3. QED
    BY <1>8, <2>1, <2>2
<1>10. ASSUME NEW i \in Jobs, ShutdownVisit(i) PROVE FailureFacts(k)'
  <2>1. UNCHANGED <<registry, session>> /\ sweep'.err = sweep.err /\ sweep'.pc = "terminate"
    BY <1>1, <1>10 DEF ShutdownVisit, SweepState
  <2>2. QED
    BY <1>3, <1>8, <2>1
<1>11. CASE \/ SweepSignal \/ WatchdogRecheck \/ JoinObserved \/ JoinUncertain
            \/ SweepRelease \/ SweepClockFails
  <2>1. UNCHANGED <<registry, session>>
    BY <1>11 DEF SweepSignal, WatchdogRecheck, JoinObserved, JoinUncertain,
       SweepRelease, SweepClockFails
  <2>2. \/ \E pc \in {"recheck", "finalize", "fail"} : SweepAt(pc)
        \/ \E err \in BOOLEAN : NextVisit(err)
        \/ JoinFor(CleanupTime, FALSE)
    BY <1>11 DEF SweepSignal, WatchdogRecheck, JoinObserved, JoinUncertain,
       SweepRelease, SweepClockFails, Present
  <2>3. sweep'.pc \notin {"sleep", "stopped"} /\ (sweep.err => sweep'.err)
    BY <1>1, <2>2, SweepMoveFacts DEF SweepPcs
  <2>4. QED
    BY <1>3, <1>8, <2>1, <2>3
<1>12. QED
  BY <1>4, <1>5, <1>6, <1>7, <1>9, <1>10, <1>11 DEF Sweep

(* A job whose cleanup failed closes the session, or the sweep that found  *)
(* out is on its way to do so: no second job is admitted to a server that  *)
(* could not clean up after the first, for any number of jobs.             *)
THEOREM FailureCloses == Spec => []FailureQuarantines
<1> DEFINE Facts == \A k \in Jobs : FailureFacts(k)
<1>1. Init => Facts
  BY DEF Init, FailureFacts, NoRecord, NoRunner
<1>2. TypeOK /\ SlotInvariant /\ Facts /\ [Next]_vars => Facts'
  <2> SUFFICES ASSUME TypeOK, SlotInvariant, Facts, [Next]_vars, NEW k \in Jobs
               PROVE  FailureFacts(k)'
    OBVIOUS
  <2> USE DEF envVars, signalVars, slotVars, executionVars
  <2>1. CASE UNCHANGED <<registry, cleaned, runner, sweep>> /\ (session' = session \/ session' = "closing")
    BY <2>1 DEF FailureFacts, Closing
  <2>2. ASSUME NEW j \in Jobs, Admit(j) PROVE FailureFacts(k)'
    <3>1. UNCHANGED <<cleaned, sweep, session>> /\ runner[j].pc = "idle"
      BY <2>2 DEF Admit
    <3>2. CASE k # j
      BY <2>2, <3>1, <3>2, FailureFrame DEF Admit, TypeOK, Closing
    <3>3. CASE k = j
      <4>1. registry'[k].completion = "none"
        BY <2>2, <3>3 DEF Admit, TypeOK, NoRecord
      <4>2. runner'[k].completion = runner[k].completion
        BY <2>2, <3>3 DEF Admit, TypeOK, RunnerState
      <4>3. runner[k].completion # "cleanup_failed"
        BY <3>1, <3>3 DEF FailureFacts
      <4>4. QED
        BY <4>1, <4>2, <4>3 DEF FailureFacts
    <3>4. QED
      BY <3>2, <3>3
  <2>3. ASSUME NEW j \in Jobs, Runner(j) PROVE FailureFacts(k)'
    <3>1. CASE k = j
      BY <2>3, <3>1, RunnerFailure
    <3>2. CASE k # j
      <4>1. /\ runner'[k] = runner[k] /\ registry'[k] = registry[k]
            /\ cleaned'[k] = cleaned[k] /\ UNCHANGED <<sweep, session>>
        BY <2>3, <3>2 DEF TypeOK, Runner, Register, RunnerCall, RunnerRevoke,
           RunnerSkip, RunnerBegin, RunnerEnd, RunnerAbort, RunnerInspect,
           RunnerDecide, FinishCheck, FinishRevoke, FinishApply, RunnerObserve,
           RunnerRelease, RunnerClockFails, RunnerAt, RunnerGoes, RunnerDone
      <4>2. QED
        BY <4>1, FailureFrame DEF Closing
    <3>3. QED
      BY <3>1, <3>2
  <2>4. ASSUME NEW c \in Clients, Control(c) PROVE FailureFacts(k)'
    <3>1. client[c].job \in Jobs /\ UNCHANGED <<cleaned, runner, sweep, session>>
      BY <2>4 DEF TypeOK, ClientState, Control, ControlRevoked, CancelCheck,
         CancelApply, ControlSignal, ControlClockFails
    <3>2. \/ UNCHANGED registry
          \/ \E j \in Jobs, intent \in Intents :
               registry' = [registry EXCEPT ![j] = Terminate(registry[j], intent)]
      BY <2>4, <3>1 DEF Control, ControlRevoked, CancelCheck, CancelApply,
         ControlSignal, ControlClockFails, Intents
    <3>3. \/ registry'[k] = registry[k]
          \/ /\ registry'[k].completion = registry[k].completion
             /\ Active(registry'[k]) <=> Active(registry[k])
      BY <3>2, TerminateType DEF TypeOK, Active
    <3>4. QED
      BY <3>1, <3>3, FailureFrame DEF Closing
  <2>5. QED
    BY <2>1, <2>2, <2>3, <2>4, SweepFailure DEF Next, Environment, Tick,
       Disconnect, ChangeAuthority, Deliver, Ended, vars
<1>3. Facts => FailureQuarantines
  BY DEF FailureFacts, Closing, FailureQuarantines, Terminal, TerminalStates, Active
<1>4. QED
  BY <1>1, <1>2, <1>3, TypeCorrect, SlotInductive, PTL DEF Spec

-----------------------------------------------------------------------------
(* What a sweep of the watchdog enforces.                                  *)

(* A sweep of the watchdog that has met no error so far.                   *)
Watching ==
  sweep.by = "watchdog" /\ ~sweep.err /\ sweep.pc \notin {"sleep", "stopped"}

(* What the sweep owes a job that was there when it began: the visit is to *)
(* come, the sweep is settling it, or nothing is due of it.                *)
ToVisit(j) ==
  Active(sweep.todo[j]) /\ sweep.todo[j].created = registry[j].created
InHand(j) ==
  /\ sweep.job = j
  /\ \/ sweep.pc \in {"terminate", "join", "finalize", "fail"}
     \/ sweep.pc \in {"signal", "recheck"} /\ registry[j].phase = "cleanup"
NothingDue(j) ==
  /\ ~Reached(After(registry[j].created, WorkTime), sweep.now)
  /\ \/ ~Reached(After(registry[j].created, NonDeliveryTime), sweep.now)
     \/ delivery[j] = "delivered"
SweepOwes(j) ==
  Active(registry[j]) /\ registry[j].created < sweep.now
    => ToVisit(j) \/ InHand(j) \/ NothingDue(j)

(* A job in cleanup never leaves it for work: an intent stops its runner,  *)
(* or its runner is gone.                                                  *)
CleanupTold(j) ==
  Active(registry[j]) /\ registry[j].phase = "cleanup"
    => registry[j].intent # "none" \/ runner[j].pc = "done"

SweepInvariant ==
  /\ sweep.now <= clock
  /\ sweep.pc = "terminate" => sweep.intent # "none"
  /\ \A j \in Jobs : CleanupTold(j)
  /\ Watching => \A j \in Jobs : SweepOwes(j)

(* What a step may do to the record of an active job: admit it now, or     *)
(* leave its admission time and its cleanup as they were.                  *)
RecordKept(k) ==
  Active(registry'[k]) =>
    \/ registry'[k].created = clock
    \/ /\ Active(registry[k])
       /\ registry'[k].created = registry[k].created
       /\ registry[k].phase = "cleanup" => registry'[k].phase = "cleanup"
Kept == \A k \in Jobs : RecordKept(k) /\ CleanupTold(k)'

(* A runner that is gone does not come back.                               *)
RunnersEnd == \A k \in Jobs : runner[k].pc = "done" => runner'[k].pc = "done"

(* Terminating a record with an intent keeps its admission time and puts   *)
(* it in cleanup for good.                                                 *)
LEMMA TerminateKeeps ==
  ASSUME TypeOK, NEW r \in Record, NEW intent \in Intents, intent # "none"
  PROVE  /\ Terminate(r, intent).created = r.created
         /\ Terminate(r, intent).phase = "cleanup"
         /\ Terminate(r, intent).intent # "none"
BY DEF Terminate, Record

(* Entering a phase of the work keeps the admission time.                  *)
LEMMA EnterKeeps ==
  ASSUME NEW r \in Record, NEW target \in RunnerTargets
  PROVE  /\ Enter(r, target).created = r.created
         /\ Enter(r, target).phase = target
BY DEF Enter, Record

(* No step revives a runner.                                               *)
LEMMA NoRunnerRevives ==
  ASSUME TypeOK, [Next]_vars
  PROVE  RunnersEnd
<1> USE DEF envVars, signalVars, slotVars, executionVars
<1>1. CASE UNCHANGED runner
  BY <1>1 DEF RunnersEnd
<1>2. ASSUME NEW j \in Jobs, Admit(j) PROVE RunnersEnd
  BY <1>2 DEF Admit, TypeOK, RunnersEnd
<1>3. ASSUME NEW j \in Jobs, Runner(j) PROVE RunnersEnd
  <2>1. runner[j].pc # "done"
    BY <1>3 DEF Runner, Register, RunnerCall, RunnerRevoke, RunnerSkip, RunnerBegin,
       RunnerEnd, RunnerAbort, RunnerInspect, RunnerDecide, FinishCheck, FinishRevoke,
       FinishApply, RunnerObserve, RunnerRelease, RunnerClockFails
  <2>2. \A k \in Jobs : k # j => runner'[k] = runner[k]
    BY <1>3 DEF TypeOK, Runner, Register, RunnerCall, RunnerRevoke,
       RunnerSkip, RunnerBegin, RunnerEnd, RunnerAbort, RunnerInspect,
       RunnerDecide, FinishCheck, FinishRevoke, FinishApply, RunnerObserve,
       RunnerRelease, RunnerClockFails, RunnerAt, RunnerGoes, RunnerDone
  <2>3. QED
    BY <2>1, <2>2 DEF RunnersEnd
<1>4. QED
  BY <1>1, <1>2, <1>3 DEF Next, Environment, Tick, Disconnect, ChangeAuthority,
     Deliver, Control, ControlRevoked, CancelCheck, CancelApply, ControlSignal,
     ControlClockFails, Sweep, WatchdogBegin, ShutdownBegin, WatchdogVisit,
     ShutdownVisit, SweepTerminate, SweepSignal, WatchdogRecheck, JoinObserved,
     JoinUncertain, SweepFinalize, SweepRelease, SweepFail, SweepClockFails,
     WatchdogEnd, ShutdownEnd, Ended, vars

(* A step that leaves the records alone keeps them.                        *)
LEMMA SameKept ==
  ASSUME SweepInvariant, RunnersEnd, UNCHANGED registry
  PROVE  Kept
BY DEF Kept, RecordKept, CleanupTold, RunnersEnd, SweepInvariant

(* A write to one record that is settled by it, or that stays in cleanup   *)
(* with an intent or without a runner, keeps the records.                  *)
LEMMA WriteKept ==
  ASSUME TypeOK, SweepInvariant, RunnersEnd, NEW j \in Jobs, NEW r,
         registry' = [registry EXCEPT ![j] = r],
         Active(r) => /\ Active(registry[j])
                      /\ r.created = registry[j].created
                      /\ registry[j].phase = "cleanup" => r.phase = "cleanup"
                      /\ r.phase = "cleanup" => r.intent # "none" \/ runner'[j].pc = "done"
  PROVE  Kept
<1>1. registry'[j] = r /\ \A k \in Jobs : k # j => registry'[k] = registry[k]
  BY DEF TypeOK
<1>2. \A k \in Jobs : CleanupTold(k)
  BY DEF SweepInvariant
<1>3. RecordKept(j) /\ CleanupTold(j)'
  BY <1>1 DEF RecordKept, CleanupTold
<1>4. ASSUME NEW k \in Jobs, k # j PROVE RecordKept(k) /\ CleanupTold(k)'
  BY <1>1, <1>2, <1>4 DEF RecordKept, CleanupTold, RunnersEnd
<1>5. QED
  BY <1>3, <1>4 DEF Kept

(* request_termination of an active record keeps the records.              *)
LEMMA TerminateKept ==
  ASSUME TypeOK, SweepInvariant, RunnersEnd, NEW j \in Jobs, NEW intent \in Intents,
         intent # "none", Active(registry[j]),
         registry' = [registry EXCEPT ![j] = Terminate(registry[j], intent)]
  PROVE  Kept
<1>1. registry[j] \in Record
  BY DEF TypeOK
<1>2. QED
  BY <1>1, TerminateKeeps, WriteKept

(* The runner's registry calls keep the records.                           *)
LEMMA RunnerKept ==
  ASSUME TypeOK, SweepInvariant, RunnersEnd, NEW j \in Jobs, Runner(j)
  PROVE  Kept
<1> USE DEF envVars, signalVars, slotVars, executionVars
<1>1. registry[j] \in Record /\ runner[j].target \in RunnerTargets /\ CleanupTold(j)
  BY DEF TypeOK, RunnerState, SweepInvariant
<1>2. CASE UNCHANGED registry
  BY <1>2, SameKept
<1>3. CASE RunnerCall(j)
  <2>1. CASE MayEnter(registry[j], runner[j].target)
             /\ registry' = [registry EXCEPT ![j] = Enter(registry[j], runner[j].target)]
    <3>1. Active(registry[j]) /\ runner[j].pc # "done"
      BY <1>3, <2>1 DEF MayEnter, Active, RunnerCall
    <3>2. registry[j].phase # "cleanup"
      BY <1>1, <2>1, <3>1 DEF MayEnter, CleanupTold, PhaseTransitions
    <3>3. /\ Enter(registry[j], runner[j].target).created = registry[j].created
          /\ Enter(registry[j], runner[j].target).phase # "cleanup"
      BY <1>1, EnterKeeps DEF RunnerTargets
    <3>4. QED
      BY <2>1, <3>1, <3>2, <3>3, WriteKept
  <2>2. CASE Active(registry[j])
             /\ registry' = [registry EXCEPT ![j] = Terminate(registry[j], "revoked")]
    BY <2>2, TerminateKept DEF Intents
  <2>3. QED
    BY <1>2, <1>3, <2>1, <2>2 DEF RunnerCall
<1>4. CASE FinishCheck(j)
  BY <1>2, <1>4, TerminateKept DEF FinishCheck, Intents
<1>5. CASE FinishApply(j)
  <2> DEFINE stored == [registry[j] EXCEPT
                 !.phase = "cleanup", !.completion = runner[j].completion,
                 !.deadline = After(clock, CleanupTime)]
  <2>1. After(clock, CleanupTime) \in Nat /\ runner[j].completion \in Completions
    BY AfterType, ConstantsAssumption DEF TypeOK, RunnerState
  <2>2. /\ stored \in Record /\ stored.created = registry[j].created
        /\ stored.phase = "cleanup"
    BY <1>1, <2>1 DEF Record, Phases
  <2>3. ~Active(Finalize(stored))
    BY <2>2, FinalizeType DEF Active, Terminal, TerminalStates
  <2>4. \/ registry' = [registry EXCEPT ![j] = Finalize(stored)]
        \/ /\ Active(registry[j]) /\ registry' = [registry EXCEPT ![j] = stored]
           /\ RunnerDone(j)
        \/ UNCHANGED registry
    BY <1>5 DEF FinishApply
  <2> HIDE DEF stored
  <2>5. RunnerDone(j) => runner'[j].pc = "done"
    BY DEF RunnerDone, RunnerGoes, NoRunner, TypeOK
  <2>6. QED
    BY <1>2, <2>2, <2>3, <2>4, <2>5, WriteKept
<1>6. CASE RunnerObserve(j)
  <2>1. ~Active(Finalize(registry[j]))
    BY <1>1, FinalizeType DEF Active, Terminal, TerminalStates
  <2>2. QED
    BY <1>2, <1>6, <2>1, WriteKept DEF RunnerObserve
<1>7. QED
  BY <1>2, <1>3, <1>4, <1>5, <1>6 DEF Runner, Register, RunnerRevoke, RunnerSkip,
     RunnerBegin, RunnerEnd, RunnerAbort, RunnerInspect, RunnerDecide, FinishRevoke,
     RunnerRelease, RunnerClockFails

(* The sweep's registry calls keep the records.                            *)
LEMMA SweepKept ==
  ASSUME TypeOK, SweepInvariant, RunnersEnd, Sweep
  PROVE  Kept
<1> USE DEF envVars, signalVars, slotVars, executionVars
<1>1. /\ sweep.job \in Jobs /\ sweep.intent \in Intents
      /\ registry[sweep.job] \in Record
  BY DEF TypeOK, SweepState
<1>2. CASE UNCHANGED registry
  BY <1>2, SameKept
<1>3. CASE SweepTerminate
  <2>1. CASE Active(registry[sweep.job])
    <3>1. sweep.intent # "none"
      BY <1>3 DEF SweepTerminate, SweepInvariant
    <3>2. QED
      BY <1>1, <1>3, <2>1, <3>1, TerminateKept DEF SweepTerminate
  <2>2. CASE ~Active(registry[sweep.job])
    BY <1>1, <1>2, <1>3, <2>2 DEF SweepTerminate, TypeOK
  <2>3. QED
    BY <2>1, <2>2
<1>4. CASE SweepFinalize
  <2>1. ~Active(Finalize(registry[sweep.job]))
    BY <1>1, FinalizeType DEF Active, Terminal, TerminalStates
  <2>2. CASE Finalizable(registry[sweep.job])
    BY <1>1, <1>4, <2>1, <2>2, WriteKept DEF SweepFinalize
  <2>3. CASE ~Finalizable(registry[sweep.job])
    BY <1>1, <1>2, <1>4, <2>3 DEF SweepFinalize, TypeOK
  <2>4. QED
    BY <2>2, <2>3
<1>5. CASE SweepFail
  <2> DEFINE failed == [registry[sweep.job] EXCEPT !.state = "failed", !.phase = "terminal",
                          !.deadline = 0, !.completion = "cleanup_failed"]
  <2>1. ~Active(failed)
    BY <1>1 DEF Record, Active
  <2>2. registry' = [registry EXCEPT ![sweep.job] = failed] \/ UNCHANGED registry
    BY <1>1, <1>5 DEF SweepFail, TypeOK
  <2> HIDE DEF failed
  <2>3. QED
    BY <1>1, <1>2, <2>1, <2>2, WriteKept
<1>6. ASSUME NEW j \in Jobs, WatchdogVisit(j) PROVE Kept
  <2>1. registry' = [registry EXCEPT ![j] = NoRecord] \/ UNCHANGED registry
    BY <1>6 DEF WatchdogVisit, TypeOK
  <2>2. ~Active(NoRecord)
    BY DEF Active, NoRecord
  <2>3. QED
    BY <1>2, <2>1, <2>2, WriteKept
<1>7. QED
  BY <1>2, <1>3, <1>4, <1>5, <1>6 DEF Sweep, WatchdogBegin, ShutdownBegin, ShutdownVisit,
     SweepSignal, WatchdogRecheck, JoinObserved, JoinUncertain, SweepRelease,
     SweepClockFails, WatchdogEnd, ShutdownEnd

(* Every step keeps the records.                                           *)
LEMMA NextKept ==
  ASSUME TypeOK, SweepInvariant, [Next]_vars
  PROVE  Kept
<1> USE DEF envVars, signalVars, slotVars, executionVars
<1>1. RunnersEnd
  BY NoRunnerRevives
<1>2. CASE UNCHANGED registry
  BY <1>1, <1>2, SameKept
<1>3. ASSUME NEW j \in Jobs, Admit(j) PROVE Kept
  <2>1. /\ registry'[j].created = clock /\ registry'[j].phase # "cleanup"
        /\ \A k \in Jobs : k # j => registry'[k] = registry[k]
    BY <1>3 DEF Admit, TypeOK, NoRecord
  <2>2. QED
    BY <1>1, <2>1 DEF Kept, RecordKept, CleanupTold, RunnersEnd, SweepInvariant
<1>4. ASSUME NEW c \in Clients, Control(c) PROVE Kept
  <2>1. client[c].job \in Jobs
    BY DEF TypeOK, ClientState
  <2>2. QED
    BY <1>1, <1>2, <1>4, <2>1, TerminateKept DEF Control, ControlRevoked, CancelCheck,
       CancelApply, ControlSignal, ControlClockFails, Intents
<1>5. QED
  BY <1>1, <1>2, <1>3, <1>4, RunnerKept, SweepKept DEF Next, Environment, Tick,
     Disconnect, ChangeAuthority, Deliver, Ended, vars

(* What has reached the client is not forgotten while the job is active.   *)
DeliveryKept ==
  \A k \in Jobs : Active(registry[k]) /\ delivery[k] = "delivered"
                    => delivery'[k] = "delivered"

(* Only a release forgets a delivery, and it comes after the job settled.  *)
LEMMA NextDelivery ==
  ASSUME TypeOK, SlotInvariant, [Next]_vars
  PROVE  DeliveryKept
<1> USE DEF envVars, signalVars, slotVars, executionVars
<1>1. CASE UNCHANGED delivery
  BY <1>1 DEF DeliveryKept
<1>2. ASSUME NEW j \in Jobs, ReleasePermit(j), ~Active(registry[j])
      PROVE  DeliveryKept
  <2>1. \A k \in Jobs : k # j => delivery'[k] = delivery[k]
    BY <1>2 DEF ReleasePermit, TypeOK
  <2>2. QED
    BY <1>2, <2>1 DEF DeliveryKept
<1>3. ASSUME NEW j \in Jobs, Register(j) PROVE DeliveryKept
  BY <1>3 DEF Register, DeliveryKept, TypeOK
<1>4. ASSUME NEW j \in Jobs, Deliver(j) PROVE DeliveryKept
  BY <1>4 DEF Deliver, DeliveryKept, TypeOK
<1>5. ASSUME NEW j \in Jobs, RunnerRelease(j) PROVE DeliveryKept
  BY <1>2, <1>5 DEF RunnerRelease, SlotInvariant, ReleaseIsEarned
<1>6. CASE SweepRelease
  BY <1>2, <1>6 DEF SweepRelease, SlotInvariant, ReleaseIsEarned, TypeOK, SweepState
<1>7. QED
  BY <1>1, <1>3, <1>4, <1>5, <1>6 DEF Next, Environment, Tick, Disconnect,
     ChangeAuthority, Admit, Runner, RunnerCall, RunnerRevoke, RunnerSkip, RunnerBegin,
     RunnerEnd, RunnerAbort, RunnerInspect, RunnerDecide, FinishCheck, FinishRevoke,
     FinishApply, RunnerObserve, RunnerClockFails, Control, ControlRevoked,
     CancelCheck, CancelApply, ControlSignal, ControlClockFails, Sweep,
     WatchdogBegin, ShutdownBegin, WatchdogVisit, ShutdownVisit, SweepTerminate,
     SweepSignal, WatchdogRecheck, JoinObserved, JoinUncertain, SweepFinalize,
     SweepFail, SweepClockFails, WatchdogEnd, ShutdownEnd, Ended, vars

(* What the sweep owes a job it still owes after a step that keeps the     *)
(* record, the visit to come and the job in hand.                          *)
LEMMA OwesStep ==
  ASSUME TypeOK, SweepInvariant, Kept, DeliveryKept, NEW k \in Jobs, SweepOwes(k),
         sweep'.now = sweep.now, sweep'.todo[k] = sweep.todo[k],
         Active(registry'[k]) /\ registry'[k].created < sweep.now /\ InHand(k)
           => InHand(k)'
  PROVE  SweepOwes(k)'
<1> SUFFICES ASSUME Active(registry'[k]), registry'[k].created < sweep.now
             PROVE  ToVisit(k)' \/ InHand(k)' \/ NothingDue(k)'
  BY DEF SweepOwes
<1>1. sweep.now <= clock /\ sweep.now \in Nat /\ clock \in Nat
  BY DEF SweepInvariant, TypeOK, SweepState
<1>2. registry'[k].created # clock
  BY <1>1
<1>3. Active(registry[k]) /\ registry'[k].created = registry[k].created
  BY <1>2 DEF Kept, RecordKept
<1>4. ToVisit(k) \/ InHand(k) \/ NothingDue(k)
  BY <1>3 DEF SweepOwes
<1>5. CASE ToVisit(k)
  BY <1>3, <1>5 DEF ToVisit
<1>6. CASE NothingDue(k)
  <2>1. delivery[k] = "delivered" => delivery'[k] = "delivered"
    BY <1>3 DEF DeliveryKept
  <2>2. QED
    BY <1>3, <1>6, <2>1 DEF NothingDue, Reached, After
<1>7. QED
  BY <1>4, <1>5, <1>6

(* The visit of a job: the sweep takes it in hand, or nothing is due.      *)
LEMMA VisitOwes ==
  ASSUME TypeOK, SweepInvariant, Kept, DeliveryKept, NEW i \in Jobs, WatchdogVisit(i),
         Watching, NEW k \in Jobs
  PROVE  SweepOwes(k)'
<1> USE DEF slotVars
<1>1. /\ sweep.pc = "visit" /\ sweep \in SweepState /\ sweep.job \in Jobs
      /\ SweepOwes(k) /\ UNCHANGED delivery /\ sweep.now <= clock
      /\ sweep.now \in Nat /\ clock \in Nat
  BY DEF WatchdogVisit, TypeOK, SweepState, Watching, SweepInvariant
<1> DEFINE r == sweep.todo[i]
           rest == [sweep EXCEPT !.todo[i] = NoRecord,
                                 !.job = IF Terminal(r) THEN @ ELSE i]
           wait == IF r.deadline > sweep.now THEN r.deadline - sweep.now ELSE 0
           orphan == /\ Reached(After(r.created, NonDeliveryTime), sweep.now)
                     /\ delivery[i] # "delivered"
<1>2. sweep' = IF Terminal(r) THEN rest
       ELSE IF r.phase = "cleanup"
       THEN [rest EXCEPT !.pc = "join", !.until = After(clock, wait),
                         !.late = Reached(r.deadline, sweep.now)]
       ELSE IF OutOfTime(r, sweep.now)
       THEN [rest EXCEPT !.pc = "terminate", !.intent = "deadline"]
       ELSE IF orphan
       THEN [rest EXCEPT !.pc = "terminate", !.intent = "nondelivery"]
       ELSE [rest EXCEPT !.pc = "recheck"]
  BY DEF WatchdogVisit
<1>3. /\ rest.now = sweep.now /\ DOMAIN rest = DOMAIN sweep
      /\ \A j \in Jobs : j # i => rest.todo[j] = sweep.todo[j]
      /\ ~Terminal(r) => rest.job = i
  BY <1>1 DEF SweepState
<1> HIDE DEF rest, wait
<1>4. sweep'.now = sweep.now /\ sweep'.todo = rest.todo /\ sweep'.job = rest.job
  BY <1>2, <1>1, <1>3 DEF SweepState
<1>5. CASE k # i
  <2>1. ~InHand(k)
    BY <1>1 DEF InHand
  <2>2. QED
    BY <1>1, <1>3, <1>4, <1>5, <2>1, OwesStep
<1>6. CASE k = i
  <2> SUFFICES ASSUME Active(registry'[k]), registry'[k].created < sweep.now
               PROVE  ToVisit(k)' \/ InHand(k)' \/ NothingDue(k)'
    BY <1>4 DEF SweepOwes
  <2>1. registry'[k].created # clock
    BY <1>1, <1>4
  <2>2. Active(registry[k]) /\ registry'[k].created = registry[k].created
    BY <2>1 DEF Kept, RecordKept
  <2>3. ToVisit(k) \/ NothingDue(k)
    BY <1>1, <1>4, <2>2 DEF SweepOwes, InHand
  <2>4. CASE NothingDue(k)
    BY <1>1, <1>4, <2>2, <2>4 DEF NothingDue, Reached, After
  <2>5. CASE ToVisit(k)
    <3>1. ~Terminal(r) /\ r.created = registry[k].created
      BY <1>6, <2>5 DEF ToVisit, Active, Terminal, TerminalStates
    <3>2. sweep'.job = i
      BY <1>3, <1>4, <3>1
    <3>3. CASE r.phase = "cleanup" \/ OutOfTime(r, sweep.now) \/ orphan
      <4>1. sweep'.pc \in {"join", "terminate"}
        BY <1>1, <1>2, <1>3, <3>1, <3>3 DEF SweepState
      <4>2. QED
        BY <1>6, <3>2, <4>1 DEF InHand
    <3>4. CASE ~(OutOfTime(r, sweep.now) \/ orphan)
      <4>1. /\ ~Reached(After(registry[k].created, WorkTime), sweep.now)
            /\ \/ ~Reached(After(registry[k].created, NonDeliveryTime), sweep.now)
               \/ delivery[k] = "delivered"
        BY <1>6, <3>1, <3>4 DEF OutOfTime
      <4>2. NothingDue(k)
        BY <4>1 DEF NothingDue
      <4>3. QED
        BY <1>1, <1>4, <2>2, <4>2 DEF NothingDue, Reached, After
    <3>5. QED
      BY <3>3, <3>4
  <2>6. QED
    BY <2>3, <2>4, <2>5
<1>7. QED
  BY <1>5, <1>6

(* What the moves of the sweep leave as it was.                            *)
LEMMA SweepMoveFrame ==
  ASSUME TypeOK
  PROVE  /\ \A pc \in SweepPcs : SweepAt(pc) =>
              /\ sweep'.now = sweep.now /\ sweep'.by = sweep.by
              /\ sweep'.intent = sweep.intent
         /\ \A err \in BOOLEAN : NextVisit(err) =>
              sweep'.now = sweep.now /\ sweep'.by = sweep.by
         /\ \A d \in Nat, late \in BOOLEAN : JoinFor(d, late) =>
              /\ sweep'.now = sweep.now /\ sweep'.by = sweep.by
              /\ sweep'.job = sweep.job
<1>1. sweep \in SweepState
  BY DEF TypeOK
<1>2. ASSUME NEW pc \in SweepPcs, SweepAt(pc)
      PROVE  /\ sweep'.now = sweep.now /\ sweep'.by = sweep.by
             /\ sweep'.intent = sweep.intent
  BY <1>1, <1>2 DEF SweepAt, SweepState
<1>3. ASSUME NEW err \in BOOLEAN, NextVisit(err)
      PROVE  sweep'.now = sweep.now /\ sweep'.by = sweep.by
  BY <1>1, <1>3 DEF NextVisit, Idle, SweepState
<1>4. ASSUME NEW d \in Nat, NEW late \in BOOLEAN, JoinFor(d, late)
      PROVE  /\ sweep'.now = sweep.now /\ sweep'.by = sweep.by
             /\ sweep'.job = sweep.job
  BY <1>1, <1>4 DEF JoinFor, SweepState
<1>5. QED
  BY <1>2, <1>3, <1>4

(* The step of a sweep on the job in hand: while the job is active the     *)
(* sweep keeps it in hand, or reports an error.                            *)
LEMMA HandOwes ==
  ASSUME TypeOK, SlotInvariant, SweepInvariant, Kept, DeliveryKept, Watching',
         \/ SweepTerminate \/ SweepSignal \/ WatchdogRecheck \/ JoinObserved
         \/ JoinUncertain \/ SweepFinalize \/ SweepRelease \/ SweepFail
         \/ SweepClockFails
  PROVE  \A k \in Jobs : SweepOwes(k)'
<1> USE DEF envVars, signalVars, slotVars, executionVars
<1>1. /\ sweep.job \in Jobs /\ sweep \in SweepState /\ sweep.err \in BOOLEAN
      /\ CleanupTime \in Nat /\ registry[sweep.job] \in Record
  BY ConstantsAssumption DEF TypeOK, SweepState
<1>2. sweep'.by = "watchdog" /\ ~sweep'.err
  BY DEF Watching
<1>3. \/ \E pc \in {"signal", "recheck", "finalize", "fail", "release"} : SweepAt(pc)
      \/ \E err \in BOOLEAN : NextVisit(err)
      \/ JoinFor(CleanupTime, FALSE)
  BY DEF SweepTerminate, SweepSignal, WatchdogRecheck, JoinObserved, JoinUncertain,
     SweepFinalize, SweepRelease, SweepFail, SweepClockFails, Present, Terminal
<1>4. /\ sweep'.now = sweep.now /\ sweep'.todo = sweep.todo /\ sweep'.by = sweep.by
      /\ sweep.err => sweep'.err
  BY <1>1, <1>3, SweepMoveFacts, SweepMoveFrame DEF SweepPcs
<1>5. \A k \in Jobs : SweepOwes(k)
  <2>1. sweep.pc \notin {"sleep", "stopped"}
    BY DEF SweepTerminate, SweepSignal, WatchdogRecheck, JoinObserved, JoinUncertain,
       SweepFinalize, SweepRelease, SweepFail, SweepClockFails
  <2>2. QED
    BY <1>2, <1>4, <2>1 DEF SweepInvariant, Watching
<1>6. ASSUME NEW j \in Jobs, Active(registry'[j]), InHand(j) PROVE InHand(j)'
  <2> sweep.job = j
    BY <1>6 DEF InHand
  <2>1. ~NextVisit(TRUE)
    BY <1>1, <1>2, SweepMoveFacts
  <2>2. CASE SweepTerminate
    <3>1. CASE Active(registry[j])
      <4>1. SweepAt("signal") /\ registry'[j] = Terminate(registry[j], sweep.intent)
        <5>1. SweepAt("signal")
          BY <2>2, <3>1 DEF SweepTerminate, Present, Active
        <5>2. registry'[j] = Terminate(registry[j], sweep.intent)
          BY <1>1, <2>2, <3>1 DEF SweepTerminate, TypeOK
        <5>3. QED
          BY <5>1, <5>2
      <4>2. registry'[j].phase = "cleanup"
        <5>1. sweep.intent \in Intents /\ sweep.intent # "none"
          BY <1>1, <2>2 DEF SweepState, SweepInvariant, SweepTerminate
        <5>2. QED
          BY <1>1, <4>1, <5>1, TerminateKeeps
      <4>3. QED
        BY <4>1, <4>2, SweepMoveFacts DEF InHand, SweepPcs
    <3>2. CASE ~Active(registry[j])
      <4>1. registry' = registry
        BY <1>1, <2>2, <3>2 DEF SweepTerminate, TypeOK
      <4>2. QED
        BY <1>6, <3>2, <4>1
    <3>3. QED
      BY <3>1, <3>2
  <2>3. CASE SweepSignal
    <3>1. SweepAt("recheck") /\ registry' = registry /\ registry[j].phase = "cleanup"
      BY <1>2, <1>4, <1>6, <2>3 DEF SweepSignal, InHand
    <3>2. QED
      BY <3>1, SweepMoveFacts DEF InHand, SweepPcs
  <2>4. CASE WatchdogRecheck
    <3>1. registry' = registry /\ registry[j].phase = "cleanup"
      BY <1>6, <2>4 DEF WatchdogRecheck, InHand
    <3>2. JoinFor(CleanupTime, FALSE)
      BY <1>6, <2>4, <3>1 DEF WatchdogRecheck, Present, Active
    <3>3. QED
      BY <1>1, <3>2, SweepMoveFacts, SweepMoveFrame DEF InHand
  <2>5. CASE JoinObserved
    BY <2>5, SweepMoveFacts DEF JoinObserved, InHand, SweepPcs
  <2>6. CASE JoinUncertain
    BY <2>1, <2>6, SweepMoveFacts DEF JoinUncertain, InHand, SweepPcs
  <2>7. CASE SweepFinalize
    <3>1. CASE Finalizable(registry[j])
      <4>1. registry'[j] = Finalize(registry[j])
        BY <1>1, <2>7, <3>1 DEF SweepFinalize, TypeOK
      <4>2. QED
        BY <1>1, <1>6, <4>1, FinalizeType DEF Active, Terminal, TerminalStates
    <3>2. CASE ~Finalizable(registry[j])
      <4>1. registry' = registry
        BY <1>1, <2>7, <3>2 DEF SweepFinalize, TypeOK
      <4>2. NextVisit(~Terminal(registry[j]))
        BY <2>7, <3>2 DEF SweepFinalize
      <4>3. QED
        BY <1>6, <2>1, <4>1, <4>2 DEF Active, Terminal, TerminalStates
    <3>3. QED
      BY <3>1, <3>2
  <2>8. CASE SweepRelease
    BY <1>6, <2>8 DEF SweepRelease, InHand
  <2>9. CASE SweepFail \/ SweepClockFails
    BY <2>1, <2>9 DEF SweepFail, SweepClockFails
  <2>10. QED
    BY <2>2, <2>3, <2>4, <2>5, <2>6, <2>7, <2>8, <2>9
<1>7. QED
  BY <1>4, <1>5, <1>6, OwesStep

(* The sweep keeps its invariant.                                          *)
LEMMA SweepAgain ==
  ASSUME TypeOK, SlotInvariant, SweepInvariant, Kept, DeliveryKept, Sweep
  PROVE  SweepInvariant'
<1> USE DEF envVars, signalVars, slotVars, executionVars
<1>1. sweep \in SweepState /\ clock \in Nat /\ CleanupTime \in Nat
  BY ConstantsAssumption DEF TypeOK, SweepState
<1>2. clock' = clock
  BY DEF Sweep, WatchdogBegin, ShutdownBegin, WatchdogVisit, ShutdownVisit,
     SweepTerminate, SweepSignal, WatchdogRecheck, JoinObserved, JoinUncertain,
     SweepFinalize, SweepRelease, SweepFail, SweepClockFails, WatchdogEnd, ShutdownEnd
<1>3. \A j \in Jobs : CleanupTold(j)'
  BY DEF Kept
<1> SUFFICES /\ sweep'.now <= clock
             /\ sweep'.pc = "terminate" => sweep'.intent # "none"
             /\ Watching' => \A j \in Jobs : SweepOwes(j)'
  BY <1>2, <1>3 DEF SweepInvariant
<1>4. CASE WatchdogBegin
  <2>1. /\ sweep'.now = clock /\ sweep'.pc = "visit" /\ sweep'.todo = registry
        /\ registry' = registry
    BY <1>1, <1>4 DEF WatchdogBegin, SweepState
  <2>2. QED
    BY <1>1, <2>1 DEF SweepOwes, ToVisit
<1>5. CASE ShutdownBegin
  <2>1. sweep'.now = sweep.now /\ sweep'.pc = "visit" /\ sweep'.by = "shutdown"
    BY <1>1, <1>5 DEF ShutdownBegin, SweepState
  <2>2. QED
    BY <2>1 DEF Watching, SweepInvariant
<1>6. CASE WatchdogEnd \/ ShutdownEnd
  <2>1. sweep'.now \in {sweep.now, 0} /\ sweep'.pc \in {"sleep", "stopped"}
    BY <1>1, <1>6 DEF WatchdogEnd, ShutdownEnd, SweepAt, SweepState
  <2>2. QED
    BY <1>1, <2>1 DEF Watching, SweepInvariant
<1>7. ASSUME NEW i \in Jobs, WatchdogVisit(i)
      PROVE  /\ sweep'.now <= clock
             /\ sweep'.pc = "terminate" => sweep'.intent # "none"
             /\ Watching' => \A j \in Jobs : SweepOwes(j)'
  <2>1. /\ sweep'.now = sweep.now /\ sweep'.by = sweep.by /\ sweep'.err = sweep.err
        /\ sweep'.pc = "terminate" => sweep'.intent \in {"deadline", "nondelivery"}
        /\ sweep.pc = "visit"
    BY <1>1, <1>7 DEF WatchdogVisit, SweepState
  <2>2. Watching' => Watching
    BY <2>1 DEF Watching
  <2>3. QED
    BY <1>7, <2>1, <2>2, VisitOwes DEF SweepInvariant
<1>8. ASSUME NEW i \in Jobs, ShutdownVisit(i)
      PROVE  /\ sweep'.now <= clock
             /\ sweep'.pc = "terminate" => sweep'.intent # "none"
             /\ Watching' => \A j \in Jobs : SweepOwes(j)'
  <2>1. sweep'.now = sweep.now /\ sweep'.by = "shutdown" /\ sweep'.intent = "shutdown"
    BY <1>1, <1>8 DEF ShutdownVisit, SweepState
  <2>2. QED
    BY <2>1 DEF Watching, SweepInvariant
<1>9. CASE \/ SweepTerminate \/ SweepSignal \/ WatchdogRecheck \/ JoinObserved
           \/ JoinUncertain \/ SweepFinalize \/ SweepRelease \/ SweepFail
           \/ SweepClockFails
  <2>1. \/ \E pc \in {"signal", "recheck", "finalize", "fail", "release"} : SweepAt(pc)
        \/ \E err \in BOOLEAN : NextVisit(err)
        \/ JoinFor(CleanupTime, FALSE)
    BY <1>9 DEF SweepTerminate, SweepSignal, WatchdogRecheck, JoinObserved, JoinUncertain,
       SweepFinalize, SweepRelease, SweepFail, SweepClockFails, Present, Terminal
  <2>2. sweep'.now = sweep.now /\ sweep'.pc # "terminate"
    BY <1>1, <2>1, SweepMoveFacts, SweepMoveFrame DEF SweepPcs
  <2>3. QED
    BY <1>9, <2>2, HandOwes DEF SweepInvariant
<1>10. QED
  BY <1>4, <1>5, <1>6, <1>7, <1>8, <1>9 DEF Sweep

(* So does every other step: the clock only runs on, and a job admitted    *)
(* during the sweep is not older than it.                                  *)
LEMMA NextSweep ==
  ASSUME TypeOK, SlotInvariant, SweepInvariant, [Next]_vars
  PROVE  SweepInvariant'
<1> USE DEF envVars, signalVars, slotVars, executionVars
<1>1. Kept /\ DeliveryKept
  BY NextKept, NextDelivery
<1>2. CASE Sweep
  BY <1>1, <1>2, SweepAgain
<1>3. CASE sweep' = sweep /\ clock' >= clock
  <2>1. sweep.now <= clock'
    <3>1. clock' \in Nat /\ clock \in Nat /\ sweep.now \in Nat
      BY NextType DEF TypeOK, SweepState
    <3>2. sweep.now <= clock
      BY DEF SweepInvariant
    <3>3. QED
      BY <1>3, <3>1, <3>2
  <2>2. \A j \in Jobs : CleanupTold(j)'
    BY <1>1 DEF Kept
  <2>3. ASSUME Watching', NEW k \in Jobs PROVE SweepOwes(k)'
    <3>1. SweepOwes(k)
      BY <1>3, <2>3 DEF Watching, SweepInvariant
    <3>2. ASSUME Active(registry'[k]), registry'[k].created < sweep.now, InHand(k)
          PROVE  InHand(k)'
      <4>1. CASE sweep.pc \in {"terminate", "join", "finalize", "fail"}
        BY <1>3, <3>2, <4>1 DEF InHand
      <4>2. CASE sweep.pc \in {"signal", "recheck"} /\ registry[k].phase = "cleanup"
        <5>1. registry'[k].created # clock
          BY <3>2 DEF SweepInvariant, TypeOK, SweepState
        <5>2. registry'[k].phase = "cleanup"
          BY <1>1, <3>2, <4>2, <5>1 DEF Kept, RecordKept
        <5>3. QED
          BY <1>3, <3>2, <4>2, <5>2 DEF InHand
      <4>3. QED
        BY <3>2, <4>1, <4>2 DEF InHand
    <3>3. QED
      BY <1>1, <1>3, <3>1, <3>2, OwesStep
  <2>4. QED
    BY <1>3, <2>1, <2>2, <2>3 DEF SweepInvariant
<1>4. clock \in Nat
  BY DEF TypeOK
<1>5. CASE Environment \/ Ended \/ UNCHANGED vars
  <2>1. sweep' = sweep /\ clock' \in {clock, clock + 1}
    BY <1>5 DEF Environment, Tick, Disconnect, ChangeAuthority, Deliver, Admit, Ended, vars
  <2>2. QED
    BY <1>3, <1>4, <2>1
<1>6. ASSUME NEW j \in Jobs, Runner(j) PROVE SweepInvariant'
  <2>1. sweep' = sweep /\ clock' = clock
    BY <1>6 DEF Runner, Register, RunnerCall, RunnerRevoke, RunnerSkip, RunnerBegin,
       RunnerEnd, RunnerAbort, RunnerInspect, RunnerDecide, FinishCheck, FinishRevoke,
       FinishApply, RunnerObserve, RunnerRelease, RunnerClockFails
  <2>2. QED
    BY <1>3, <1>4, <2>1
<1>7. ASSUME NEW c \in Clients, Control(c) PROVE SweepInvariant'
  <2>1. sweep' = sweep /\ clock' = clock
    BY <1>7 DEF Control, ControlRevoked, CancelCheck, CancelApply, ControlSignal,
       ControlClockFails
  <2>2. QED
    BY <1>3, <1>4, <2>1
<1>8. QED
  BY <1>2, <1>5, <1>6, <1>7 DEF Next

(* A sweep of the watchdog that ends without an error has enforced the     *)
(* work deadline and the delivery deadline on every job that was there     *)
(* when it began, whatever the runner, the controls and the clock did      *)
(* meanwhile: for any number of jobs, clients and any deadlines.           *)
THEOREM SweepsEnforce == Spec => []SweepEnforces
<1>1. Init => SweepInvariant
  BY DEF Init, SweepInvariant, CleanupTold, NoRecord, Watching, Active
<1>2. TypeOK /\ SlotInvariant /\ SweepInvariant /\ [Next]_vars => SweepInvariant'
  BY NextSweep
<1>3. SweepInvariant => SweepEnforces
  <2> SUFFICES ASSUME SweepInvariant, Swept, sweep.by = "watchdog", ~sweep.err,
                      NEW j \in Jobs, Active(registry[j]),
                      registry[j].created < sweep.now
               PROVE  NothingDue(j)
    BY DEF SweepEnforces, NothingDue
  <2>1. Watching /\ ~InHand(j)
    BY DEF Watching, Swept, InHand
  <2>2. ~ToVisit(j)
    BY DEF Swept, ToVisit, Active, Present
  <2>3. QED
    BY <2>1, <2>2 DEF SweepInvariant, SweepOwes
<1>4. QED
  BY <1>1, <1>2, <1>3, TypeCorrect, SlotInductive, PTL DEF Spec

-----------------------------------------------------------------------------
(* The jobs implement JobCapacity: every step of the runners, the controls *)
(* and the sweeps is one step of the abstract capacity, or changes nothing *)
(* a client of it can tell.                                                *)

(* The steps of the capacity, and those it does not see.                   *)
CapacityStep == [Capacity!AbsNext]_(Capacity!absVars)

Holds(j) == permit[j] = "held" /\ (Present(registry[j]) \/ RunnerAlive(j))

(* The step concerns one job.                                              *)
Only(j) ==
  \A k \in Jobs : k # j =>
    /\ registry'[k] = registry[k]
    /\ runner'[k] = runner[k]
    /\ permit'[k] = permit[k]

-----------------------------------------------------------------------------
(* What the capacity sees of a step.                                       *)

(* A step that changes neither a task, nor a holder, nor what runs is      *)
(* invisible.                                                              *)
LEMMA Invisible ==
  ASSUME \A k \in Jobs : TaskOf(k)' = TaskOf(k) /\ (Holds(k)' <=> Holds(k)),
         live' = live
  PROVE  CapacityStep
<1>1. [k \in Jobs |-> TaskOf(k)]' = [k \in Jobs |-> TaskOf(k)]
  OBVIOUS
<1>2. SlotHolders' = SlotHolders
  BY DEF Holds, SlotHolders
<1>3. QED
  BY <1>1, <1>2 DEF CapacityStep, Capacity!absVars

(* A step that concerns one job leaves the tasks and slots of the others.  *)
LEMMA OthersStay ==
  ASSUME NEW j \in Jobs, Only(j)
  PROVE  /\ \A k \in Jobs : k # j => TaskOf(k)' = TaskOf(k) /\ (Holds(k)' <=> Holds(k))
         /\ [k \in Jobs |-> TaskOf(k)]' =
              [[k \in Jobs |-> TaskOf(k)] EXCEPT ![j] = TaskOf(j)']
         /\ Holds(j)' /\ Holds(j) => SlotHolders' = SlotHolders
         /\ ~Holds(j)' /\ ~Holds(j) => SlotHolders' = SlotHolders
         /\ ~Holds(j)' => SlotHolders' = SlotHolders \ {j}
         /\ Holds(j)' => SlotHolders' = SlotHolders \cup {j}
<1>1. \A k \in Jobs : k # j => TaskOf(k)' = TaskOf(k) /\ (Holds(k)' <=> Holds(k))
  BY DEF Only, TaskOf, Holds, RunnerAlive
<1>2. [k \in Jobs |-> TaskOf(k)]' = [[k \in Jobs |-> TaskOf(k)] EXCEPT ![j] = TaskOf(j)']
  BY <1>1
<1>3. \A k \in Jobs : /\ k \in SlotHolders <=> Holds(k)
                      /\ k \in SlotHolders' <=> Holds(k)'
  BY DEF SlotHolders, Holds
<1>4. SlotHolders \subseteq Jobs /\ SlotHolders' \subseteq Jobs
  BY DEF SlotHolders
<1>5. QED
  BY <1>1, <1>2, <1>3, <1>4

(* A step of one job that its client cannot tell.                          *)
LEMMA QuietStep ==
  ASSUME NEW j \in Jobs, Only(j), live' = live,
         TaskOf(j)' = TaskOf(j), Holds(j)' <=> Holds(j)
  PROVE  CapacityStep
BY OthersStay, Invisible

(* A job settles, with its processes gone or as a failure.                 *)
LEMMA SettleStep ==
  ASSUME NEW j \in Jobs, Only(j), live' = live, Holds(j)' <=> Holds(j),
         TaskOf(j) = "working", TaskOf(j)' \in {"completed", "failed", "cancelled"},
         TaskOf(j)' = "failed" \/ j \notin live
  PROVE  CapacityStep
<1>1. Capacity!Settle(j, TaskOf(j)')
  BY OthersStay DEF Capacity!Settle
<1>2. QED
  BY <1>1 DEF CapacityStep, Capacity!AbsNext, Capacity!Outcomes

(* A job gives its slot back, or had given it back before.                 *)
LEMMA GiveBackStep ==
  ASSUME NEW j \in Jobs, Only(j), live' = live, TaskOf(j)' = TaskOf(j),
         TaskOf(j) # "working", j \notin live, ~Holds(j)'
  PROVE  CapacityStep
<1>1. CASE Holds(j)
  <2>1. j \in SlotHolders
    BY <1>1 DEF Holds, SlotHolders
  <2>2. Capacity!GiveBack(j)
    BY <2>1, OthersStay DEF Capacity!GiveBack
  <2>3. QED
    BY <2>2 DEF CapacityStep, Capacity!AbsNext
<1>2. CASE ~Holds(j)
  BY <1>2, QuietStep
<1>3. QED
  BY <1>1, <1>2

(* A settled task expires.                                                 *)
LEMMA ExpireStep ==
  ASSUME NEW j \in Jobs, Only(j), live' = live, Holds(j)' <=> Holds(j),
         TaskOf(j) \in {"completed", "failed", "cancelled"}, TaskOf(j)' = "gone"
  PROVE  CapacityStep
<1>1. Capacity!Expire(j)
  BY OthersStay DEF Capacity!Expire, Capacity!Outcomes
<1>2. QED
  BY <1>1 DEF CapacityStep, Capacity!AbsNext

(* What a task is called, before and after a step.                         *)
LEMMA TaskNames ==
  ASSUME NEW j \in Jobs
  PROVE  /\ Active(registry[j]) => TaskOf(j) = "working"
         /\ Terminal(registry[j]) => TaskOf(j) = registry[j].state
         /\ ~Present(registry[j]) =>
              TaskOf(j) = IF runner[j].pc = "idle" THEN "none" ELSE "gone"
         /\ ~Active(registry[j]) => TaskOf(j) # "working"
         /\ Active(registry'[j]) => TaskOf(j)' = "working"
         /\ Terminal(registry'[j]) => TaskOf(j)' = registry'[j].state
         /\ ~Present(registry'[j]) =>
              TaskOf(j)' = IF runner'[j].pc = "idle" THEN "none" ELSE "gone"
         /\ registry'[j] = registry[j] /\ (runner'[j].pc = "idle" <=> runner[j].pc = "idle")
              => TaskOf(j)' = TaskOf(j)
BY DEF TaskOf, Active, Terminal, TerminalStates, Present

(* An active or absent record is rewritten as it was; the runner stays in  *)
(* the job.                                                                *)
LEMMA QuietRecord ==
  ASSUME NEW j \in Jobs, Only(j), live' = live, permit'[j] = permit[j],
         \/ registry'[j] = registry[j]
         \/ Active(registry[j]) /\ Active(registry'[j]),
         runner'[j].pc = "idle" <=> runner[j].pc = "idle",
         Active(registry'[j]) \/ (runner'[j].pc = "done" <=> runner[j].pc = "done")
  PROVE  CapacityStep
<1>1. TaskOf(j)' = TaskOf(j)
  BY TaskNames
<1>2. Holds(j)' <=> Holds(j)
  BY DEF Holds, RunnerAlive, Active, Present
<1>3. QED
  BY <1>1, <1>2, QuietStep

(* A runner that ends leaves the permit with the record; when the record   *)
(* is gone the permit drops, and nothing of the job runs any more.         *)
LEMMA RunnerEnds ==
  ASSUME TypeOK, SlotInvariant, NEW j \in Jobs, Only(j),
         UNCHANGED <<registry, permit, live>>,
         runner[j].pc # "idle", runner'[j].pc = "done"
  PROVE  CapacityStep
<1>1. TaskOf(j)' = TaskOf(j)
  BY TaskNames
<1>2. CASE Present(registry[j])
  BY <1>1, <1>2, QuietStep DEF Holds
<1>3. CASE ~Present(registry[j])
  <2>1. cleaned[j] /\ j \notin live
    BY <1>3 DEF SlotInvariant, UncleanIsKept, CleanedIsOver
  <2>2. ~Holds(j)'
    BY <1>3 DEF Holds, RunnerAlive
  <2>3. TaskOf(j) # "working"
    BY <1>3, TaskNames DEF Active, Present
  <2>4. QED
    BY <1>1, <2>1, <2>2, <2>3, GiveBackStep
<1>4. QED
  BY <1>2, <1>3

-----------------------------------------------------------------------------
(* One step per action.                                                    *)

(* An admission is an Accept of the abstract capacity.                     *)
LEMMA AdmitCapacity ==
  ASSUME TypeOK, SlotInvariant, NEW j \in Jobs, Admit(j)
  PROVE  CapacityStep
<1> USE DEF envVars, signalVars, executionVars
<1>1. runner[j].pc = "idle" /\ registry[j] = NoRecord
  BY DEF Admit, SlotInvariant, IdleUntouched
<1>2. TaskOf(j) = "none" /\ \A k \in Jobs : TaskOf(k) # "working"
  BY <1>1, TaskNames DEF NoRecord, Present, Admit
<1>3. Only(j) /\ live' = live /\ SlotHolders = {}
  BY DEF Only, Admit, TypeOK
<1>4. Active(registry'[j]) /\ permit'[j] = "held"
  BY DEF Admit, TypeOK, NoRecord, Active
<1>5. TaskOf(j)' = "working" /\ Holds(j)'
  BY <1>4, TaskNames DEF Holds, Active, Present
<1>6. SlotHolders' = {j}
  BY <1>3, <1>5, OthersStay
<1>7. Capacity!Accept(j)
  BY <1>2, <1>3, <1>5, <1>6, OthersStay DEF Capacity!Accept
<1>8. QED
  BY <1>7 DEF CapacityStep, Capacity!AbsNext

(* The work begins with nothing left of any other work.                    *)
LEMMA BeginCapacity ==
  ASSUME TypeOK, SlotInvariant, NEW j \in Jobs, RunnerBegin(j), live \subseteq SlotHolders
  PROVE  CapacityStep
<1> USE DEF envVars, signalVars, slotVars
<1>1. runner[j].pc = "work" /\ runner'[j].pc = "busy" /\ registry' = registry
      /\ permit' = permit /\ live' = live \cup {j} /\ Only(j)
  BY DEF RunnerBegin, RunnerAt, RunnerGoes, TypeOK, RunnerState, Only
<1>2. permit[j] = "held"
  BY <1>1 DEF SlotInvariant, IdleUntouched, ReleaseIsEarned, CleanedIsOver, TypeOK
<1>3. j \in SlotHolders /\ Holds(j) /\ Holds(j)'
  BY <1>1, <1>2 DEF SlotHolders, Holds, RunnerAlive
<1>4. live = {}
  BY <1>1, <1>3 DEF SlotInvariant, OneHolder, LiveAfterBegin, WorkBegun
<1>5. TaskOf(j)' = TaskOf(j)
  BY <1>1, TaskNames
<1>6. [k \in Jobs |-> TaskOf(k)]' = [k \in Jobs |-> TaskOf(k)]
  BY <1>1, <1>5, OthersStay
<1>7. Capacity!Run(j)
  BY <1>1, <1>3, <1>4, <1>6, OthersStay DEF Capacity!Run
<1>8. QED
  BY <1>7 DEF CapacityStep, Capacity!AbsNext

(* The invocation returns, and its processes are gone or left behind.      *)
LEMMA EndCapacity ==
  ASSUME TypeOK, NEW j \in Jobs, RunnerEnd(j)
  PROVE  CapacityStep
<1> USE DEF envVars, signalVars, slotVars
<1>1. runner[j].pc = "busy" /\ runner'[j].pc = "call" /\ registry' = registry
      /\ permit' = permit /\ Only(j)
  BY DEF RunnerEnd, RunnerGoes, TypeOK, RunnerState, Only
<1>2. CASE live' = live
  BY <1>1, <1>2, QuietRecord
<1>3. CASE live' = live \ {j}
  <2>1. TaskOf(j)' = TaskOf(j) /\ (Holds(j)' <=> Holds(j))
    BY <1>1, TaskNames DEF Holds, RunnerAlive
  <2>2. [k \in Jobs |-> TaskOf(k)]' = [k \in Jobs |-> TaskOf(k)] /\ SlotHolders' = SlotHolders
    BY <1>1, <2>1, OthersStay
  <2>3. Capacity!Stop(j)
    BY <1>3, <2>2 DEF Capacity!Stop
  <2>4. QED
    BY <2>3 DEF CapacityStep, Capacity!AbsNext
<1>4. QED
  BY <1>2, <1>3 DEF RunnerEnd

(* A job that is finalized settles over nothing that runs.                 *)
LEMMA FinalizeCapacity ==
  ASSUME TypeOK, SlotInvariant, NEW j \in Jobs, NEW r \in Record, Only(j),
         Active(registry[j]), registry'[j] = Finalize(r), cleaned[j],
         permit'[j] = permit[j], live' = live, RunnerAlive(j) <=> RunnerAlive(j)'
  PROVE  CapacityStep
<1>1. Terminal(registry'[j])
  BY FinalizeType
<1>2. TaskOf(j) = "working" /\ TaskOf(j)' \in {"completed", "failed", "cancelled"}
  BY <1>1, TaskNames DEF Terminal, TerminalStates
<1>3. Holds(j)' <=> Holds(j)
  BY <1>1 DEF Holds, Terminal, TerminalStates, Active, Present
<1>4. j \notin live
  BY DEF SlotInvariant, CleanedIsOver
<1>5. QED
  BY <1>2, <1>3, <1>4, SettleStep

(* release_and_event gives the slot of a settled, cleaned job back.        *)
LEMMA ReleaseCapacity ==
  ASSUME TypeOK, SlotInvariant, NEW j \in Jobs, Only(j), ReleasePermit(j),
         UNCHANGED <<registry, live>>, cleaned[j], ~Active(registry[j]),
         runner[j].pc # "idle", runner'[j] = runner[j] \/ runner'[j].pc = "done"
  PROVE  CapacityStep
<1>1. CASE ~Present(registry[j])
  <2>1. permit' = permit
    BY <1>1 DEF ReleasePermit, TypeOK
  <2>2. QED
    BY <2>1, RunnerEnds, QuietRecord
<1>2. CASE Present(registry[j])
  <2>1. ~Holds(j)'
    BY <1>2 DEF ReleasePermit, Holds, TypeOK
  <2>2. j \notin live
    BY DEF SlotInvariant, CleanedIsOver
  <2>3. TaskOf(j) # "working" /\ TaskOf(j)' = TaskOf(j)
    BY TaskNames
  <2>4. QED
    BY <2>1, <2>2, <2>3, GiveBackStep
<1>3. QED
  BY <1>1, <1>2

(* The runner of a job takes one step of the capacity at a time.           *)
LEMMA RunnerCapacity ==
  ASSUME TypeOK, SlotInvariant, live \subseteq SlotHolders, NEW j \in Jobs, Runner(j)
  PROVE  CapacityStep
<1> USE DEF envVars, signalVars, slotVars, executionVars
<1>1. /\ registry[j] \in Record /\ runner[j] \in RunnerState
      /\ runner[j].target \in RunnerTargets
  BY DEF TypeOK, RunnerState
<1>2. Only(j)
  BY DEF Only, TypeOK, Runner, Register, RunnerCall, RunnerRevoke, RunnerSkip,
     RunnerBegin, RunnerEnd, RunnerAbort, RunnerInspect, RunnerDecide, FinishCheck,
     FinishRevoke, FinishApply, RunnerObserve, RunnerRelease, RunnerClockFails,
     ReleasePermit, RunnerAt, RunnerGoes, RunnerDone
<1>3. ASSUME RunnerDone(j), UNCHANGED <<registry, permit, live>>, runner[j].pc # "idle"
      PROVE  CapacityStep
  BY <1>2, <1>3, RunnerEnds DEF RunnerDone, RunnerGoes, NoRunner, TypeOK
<1>4. ASSUME NEW s \in RunnerState, RunnerGoes(j, s), UNCHANGED <<permit, live>>,
             runner[j].pc \notin {"idle", "done"}, s.pc \notin {"idle", "done"},
             \/ registry'[j] = registry[j]
             \/ Active(registry[j]) /\ Active(registry'[j])
      PROVE  CapacityStep
  <2>1. runner'[j] = s
    BY <1>4 DEF RunnerGoes, TypeOK
  <2>2. QED
    BY <1>2, <1>4, <2>1, QuietRecord
<1>5. ASSUME NEW pc \in RunnerPcs \ {"idle", "done"}, RunnerAt(j, pc),
             UNCHANGED <<permit, live>>, runner[j].pc \notin {"idle", "done"},
             \/ registry'[j] = registry[j]
             \/ Active(registry[j]) /\ Active(registry'[j])
      PROVE  CapacityStep
  <2> DEFINE s == [runner[j] EXCEPT !.pc = pc]
  <2>1. s \in RunnerState /\ s.pc = pc
    BY <1>1 DEF RunnerState
  <2>2. QED
    BY <1>4, <1>5, <2>1 DEF RunnerAt
<1>6. \A ok \in BOOLEAN : runner[j].pc \in {"call", "revoke"} =>
         /\ AfterCall(runner[j], ok) \in RunnerState
         /\ AfterCall(runner[j], ok).pc \notin {"idle", "done"}
  BY AfterCallStep DEF SlotInvariant
<1>7. CASE RunnerCall(j)
  <2>1. CASE Active(registry[j]) /\ RunnerAt(j, "revoke")
             /\ registry' = [registry EXCEPT ![j] = Terminate(registry[j], "revoked")]
    <3>1. Active(registry'[j])
      BY <1>1, <2>1, TerminateType DEF TypeOK, Intents, Active
    <3>2. QED
      BY <1>5, <1>7, <2>1, <3>1 DEF RunnerCall, RunnerPcs
  <2>2. CASE MayEnter(registry[j], runner[j].target)
             /\ RunnerGoes(j, AfterCall(runner[j], TRUE))
             /\ registry' = [registry EXCEPT ![j] = Enter(registry[j], runner[j].target)]
    <3>1. Active(registry[j])
      BY <2>2 DEF MayEnter, Active
    <3>2. Active(registry'[j])
      BY <1>1, <2>2 DEF TypeOK, Record, Enter, Active
    <3>3. QED
      BY <1>4, <1>6, <1>7, <2>2, <3>1, <3>2 DEF RunnerCall
  <2>3. CASE RunnerGoes(j, AfterCall(runner[j], FALSE)) /\ UNCHANGED registry
    BY <1>4, <1>6, <1>7, <2>3 DEF RunnerCall
  <2>4. QED
    BY <1>7, <2>1, <2>2, <2>3 DEF RunnerCall
<1>8. CASE RunnerRevoke(j)
  BY <1>4, <1>6, <1>8 DEF RunnerRevoke
<1>9. CASE FinishCheck(j)
  <2> DEFINE s == [runner[j] EXCEPT !.observed = runner[j].observed /\ cleaned[j]]
             rejected == [s EXCEPT !.completion = "unavailable"]
             apply == [s EXCEPT !.pc = "finish_apply"]
             rejectedApply == [rejected EXCEPT !.pc = "finish_apply"]
             rejectedRevoke == [rejected EXCEPT !.pc = "finish_revoke"]
  <2>1. cleaned[j] \in BOOLEAN /\ runner[j].observed \in BOOLEAN
    BY <1>1 DEF TypeOK, RunnerState
  <2>2. s \in RunnerState
    BY <1>1, <2>1 DEF RunnerState
  <2>3. rejected \in RunnerState
    BY <2>2 DEF RunnerState, Completions
  <2>4. /\ apply \in RunnerState /\ apply.pc = "finish_apply"
        /\ rejectedApply \in RunnerState /\ rejectedApply.pc = "finish_apply"
        /\ rejectedRevoke \in RunnerState /\ rejectedRevoke.pc = "finish_revoke"
    <3>1. ASSUME NEW x \in RunnerState, NEW pc \in RunnerPcs
          PROVE  [x EXCEPT !.pc = pc] \in RunnerState /\ [x EXCEPT !.pc = pc].pc = pc
      BY DEF RunnerState
    <3> HIDE DEF s, rejected
    <3>2. QED
      BY <2>2, <2>3, <3>1 DEF RunnerPcs
  <2>5. \/ RunnerDone(j) /\ UNCHANGED registry
        \/ RunnerGoes(j, apply) /\ UNCHANGED registry
        \/ RunnerGoes(j, rejectedApply) /\ UNCHANGED registry
        \/ /\ RunnerGoes(j, rejectedRevoke) /\ Active(registry[j])
           /\ registry' = [registry EXCEPT ![j] = Terminate(registry[j], "revoked")]
    BY <1>9 DEF FinishCheck
  <2> HIDE DEF s, rejected, apply, rejectedApply, rejectedRevoke
  <2>6. runner[j].pc = "finish_check" /\ UNCHANGED <<permit, live>>
    BY <1>9 DEF FinishCheck
  <2>7. CASE RunnerGoes(j, rejectedRevoke) /\ Active(registry[j])
             /\ registry' = [registry EXCEPT ![j] = Terminate(registry[j], "revoked")]
    <3>1. Active(registry'[j])
      BY <1>1, <2>7, TerminateType DEF TypeOK, Intents, Active
    <3>2. QED
      BY <1>4, <2>4, <2>6, <2>7, <3>1
  <2>8. QED
    BY <1>3, <1>4, <2>4, <2>5, <2>6, <2>7
<1>10. CASE FinishApply(j)
  <2> DEFINE stored == [registry[j] EXCEPT
                 !.phase = "cleanup", !.completion = runner[j].completion,
                 !.deadline = After(clock, CleanupTime)]
  <2>1. After(clock, CleanupTime) \in Nat /\ runner[j].completion \in Completions
    BY <1>1, AfterType, ConstantsAssumption DEF TypeOK, RunnerState
  <2>2. stored \in Record /\ stored.state = registry[j].state
    BY <1>1, <2>1 DEF Record, Phases
  <2>3. \/ RunnerDone(j) /\ UNCHANGED registry
        \/ /\ Active(registry[j]) /\ runner[j].observed /\ RunnerAt(j, "release")
           /\ registry' = [registry EXCEPT ![j] = Finalize(stored)]
        \/ /\ Active(registry[j]) /\ RunnerDone(j)
           /\ registry' = [registry EXCEPT ![j] = stored]
    BY <1>10 DEF FinishApply
  <2> HIDE DEF stored
  <2>4. runner[j].pc = "finish_apply" /\ UNCHANGED <<permit, live>>
    BY <1>10 DEF FinishApply
  <2>5. CASE Active(registry[j]) /\ runner[j].observed /\ RunnerAt(j, "release")
             /\ registry' = [registry EXCEPT ![j] = Finalize(stored)]
    <3>1. cleaned[j]
      BY <2>4, <2>5 DEF SlotInvariant, ReleaseIsEarned
    <3>2. registry'[j] = Finalize(stored) /\ runner'[j].pc = "release"
      BY <1>1, <2>5 DEF TypeOK, RunnerAt, RunnerGoes, RunnerState
    <3>3. QED
      BY <1>2, <2>2, <2>4, <2>5, <3>1, <3>2, FinalizeCapacity DEF RunnerAlive
  <2>6. CASE Active(registry[j]) /\ RunnerDone(j)
             /\ registry' = [registry EXCEPT ![j] = stored]
    <3>1. registry'[j] = stored /\ runner'[j].pc = "done"
      BY <2>6 DEF TypeOK, RunnerDone, RunnerGoes, NoRunner
    <3>2. Active(registry'[j])
      BY <2>2, <2>6, <3>1 DEF Active
    <3>3. QED
      BY <1>2, <2>4, <2>6, <3>1, <3>2, QuietRecord
  <2>7. QED
    BY <1>3, <2>3, <2>4, <2>5, <2>6
<1>11. CASE RunnerObserve(j)
  <2>1. CASE cleaned[j] /\ Finalizable(registry[j])
    <3>1. registry'[j] = Finalize(registry[j]) /\ runner'[j].pc = "release"
      BY <1>1, <1>11, <2>1 DEF RunnerObserve, TypeOK, RunnerAt, RunnerGoes, RunnerState
    <3>2. runner[j].pc = "observe" /\ UNCHANGED <<permit, live>> /\ Active(registry[j])
      BY <1>11, <2>1 DEF RunnerObserve, Finalizable
    <3>3. QED
      BY <1>1, <1>2, <2>1, <3>1, <3>2, FinalizeCapacity DEF RunnerAlive
  <2>2. CASE ~(cleaned[j] /\ Finalizable(registry[j]))
    BY <1>3, <1>11, <2>2 DEF RunnerObserve
  <2>3. QED
    BY <2>1, <2>2
<1>12. CASE RunnerRelease(j)
  <2>1. runner[j].pc = "release" /\ cleaned[j] /\ ~Active(registry[j])
    BY <1>12 DEF RunnerRelease, SlotInvariant, ReleaseIsEarned
  <2>2. runner'[j].pc = "done"
    BY <1>12 DEF RunnerRelease, RunnerDone, RunnerGoes, NoRunner, TypeOK
  <2>3. QED
    BY <1>2, <1>12, <2>1, <2>2, ReleaseCapacity DEF RunnerRelease
<1>13. CASE RunnerClockFails(j)
  BY <1>3, <1>4, <1>6, <1>13 DEF RunnerClockFails
<1>14. CASE RunnerSkip(j)
  <2>1. PICK outcome \in {"result", "internal"} :
          RunnerGoes(j, [runner[j] EXCEPT !.pc = "call", !.completion = outcome])
    BY <1>14 DEF RunnerSkip
  <2> DEFINE s == [runner[j] EXCEPT !.pc = "call", !.completion = outcome]
  <2>2. s \in RunnerState /\ s.pc = "call"
    BY <1>1 DEF RunnerState, RunnerPcs, Completions
  <2>3. RunnerGoes(j, s) /\ runner[j].pc = "work" /\ UNCHANGED <<registry, permit, live>>
    BY <1>14, <2>1 DEF RunnerSkip
  <2> HIDE DEF s
  <2>4. QED
    BY <1>4, <2>2, <2>3
<1>15. CASE RunnerAbort(j) \/ RunnerInspect(j)
  <2>1. \/ RunnerGoes(j, [runner[j] EXCEPT !.pc = "decide", !.completion = "internal"])
        \/ RunnerGoes(j, [runner[j] EXCEPT !.pc = "finish_check",
                             !.completion = "cleanup_failed", !.observed = FALSE])
        \/ RunnerAt(j, "decide")
    BY <1>15 DEF RunnerAbort, RunnerInspect
  <2>2. /\ [runner[j] EXCEPT !.pc = "decide", !.completion = "internal"] \in RunnerState
        /\ [runner[j] EXCEPT !.pc = "finish_check", !.completion = "cleanup_failed",
                             !.observed = FALSE] \in RunnerState
    BY <1>1 DEF RunnerState, RunnerPcs, Completions
  <2>3. /\ [runner[j] EXCEPT !.pc = "decide", !.completion = "internal"].pc = "decide"
        /\ [runner[j] EXCEPT !.pc = "finish_check", !.completion = "cleanup_failed",
                             !.observed = FALSE].pc = "finish_check"
    BY <1>1 DEF RunnerState
  <2>4. /\ runner[j].pc \in {"abort", "inspect"}
        /\ UNCHANGED <<registry, permit, live>>
    BY <1>15 DEF RunnerAbort, RunnerInspect
  <2>5. QED
    BY <1>4, <1>5, <2>1, <2>2, <2>3, <2>4 DEF RunnerPcs
<1>16. CASE Register(j) \/ RunnerDecide(j) \/ FinishRevoke(j)
  <2>1. \E pc \in RunnerPcs \ {"idle", "done"} : RunnerAt(j, pc)
    BY <1>16 DEF Register, RunnerDecide, FinishRevoke, RunnerPcs, RunnerAt, RunnerGoes
  <2>2. /\ runner[j].pc \in {"register", "decide", "finish_revoke"}
        /\ UNCHANGED <<registry, permit, live>>
    BY <1>16 DEF Register, RunnerDecide, FinishRevoke
  <2>3. QED
    BY <1>5, <2>1, <2>2
<1>17. QED
  BY <1>7, <1>8, <1>9, <1>10, <1>11, <1>12, <1>13, <1>14, <1>15, <1>16,
     BeginCapacity, EndCapacity DEF Runner

(* The controls terminate active jobs, and nothing else.                   *)
LEMMA ControlCapacity ==
  ASSUME TypeOK, NEW c \in Clients, Control(c)
  PROVE  CapacityStep
<1> USE DEF envVars, signalVars, slotVars, executionVars
<1>1. client[c].job \in Jobs
  BY DEF TypeOK, ClientState
<1>2. UNCHANGED <<permit, runner, live>>
  BY DEF Control, ControlRevoked, CancelCheck, CancelApply, ControlSignal,
     ControlClockFails
<1>3. CASE registry' = registry
  BY <1>2, <1>3, Invisible DEF TaskOf, Holds, RunnerAlive
<1>4. ASSUME NEW j \in Jobs, NEW intent \in Intents, Active(registry[j]),
             registry' = [registry EXCEPT ![j] = Terminate(registry[j], intent)]
      PROVE  CapacityStep
  <2>1. Active(registry'[j])
    BY <1>4, TerminateType DEF TypeOK, Active
  <2>2. Only(j)
    BY <1>2, <1>4 DEF Only, TypeOK
  <2>3. QED
    BY <1>2, <1>4, <2>1, <2>2, QuietRecord
<1>5. QED
  BY <1>1, <1>3, <1>4 DEF Control, ControlRevoked, CancelCheck, CancelApply,
     ControlSignal, ControlClockFails, Intents

-----------------------------------------------------------------------------
(* The sweeps, and what their snapshot is worth.                           *)

(* Only an admission puts a record where there was none.                   *)
LEMMA AbsentStays ==
  ASSUME TypeOK, [Next]_vars, NEW k \in Jobs, ~Present(registry[k]), ~Admit(k)
  PROVE  ~Present(registry'[k])
<1> USE DEF envVars, signalVars, slotVars, executionVars
<1>1. ~Active(registry[k]) /\ registry[k].state # "admitted" /\ registry[k].state # "running"
  BY DEF Present, Active
<1>2. CASE UNCHANGED registry
  BY <1>2
<1>3. ASSUME NEW j \in Jobs, Admit(j) PROVE ~Present(registry'[k])
  BY <1>3 DEF Admit, TypeOK
<1>4. ASSUME NEW j \in Jobs, Runner(j) PROVE ~Present(registry'[k])
  BY <1>1, <1>2, <1>4 DEF Runner, Register, RunnerCall, RunnerRevoke, RunnerSkip,
     RunnerBegin, RunnerEnd, RunnerAbort, RunnerInspect, RunnerDecide, FinishCheck,
     FinishRevoke, FinishApply, RunnerObserve, RunnerRelease, RunnerClockFails,
     MayEnter, Finalizable, TypeOK
<1>5. ASSUME NEW c \in Clients, Control(c) PROVE ~Present(registry'[k])
  BY <1>1, <1>2, <1>5 DEF Control, ControlRevoked, CancelCheck, CancelApply,
     ControlSignal, ControlClockFails, TypeOK
<1>6. CASE Sweep
  <2>1. CASE \E j \in Jobs : WatchdogVisit(j)
    BY <2>1 DEF WatchdogVisit, TypeOK, NoRecord, Present
  <2>2. CASE SweepTerminate
    BY <1>1, <2>2 DEF SweepTerminate, TypeOK
  <2>3. CASE SweepFinalize
    BY <1>1, <2>3 DEF SweepFinalize, Finalizable, TypeOK
  <2>4. CASE SweepFail
    BY <1>1, <2>4 DEF SweepFail, TypeOK
  <2>5. QED
    BY <1>2, <1>6, <2>1, <2>2, <2>3, <2>4 DEF Sweep, WatchdogBegin, ShutdownBegin,
       ShutdownVisit, SweepSignal, WatchdogRecheck, JoinObserved, JoinUncertain,
       SweepRelease, SweepClockFails, WatchdogEnd, ShutdownEnd
<1>7. QED
  BY <1>2, <1>3, <1>4, <1>5, <1>6 DEF Next, Environment, Tick, Disconnect,
     ChangeAuthority, Deliver, Ended, vars

(* A settled record in the snapshot of a sweep is the one in the registry, *)
(* unless that has expired, and its cleanup did not fail.                  *)
SnapshotIsReal(j) ==
  Terminal(sweep.todo[j]) =>
    /\ sweep.todo[j].completion # "cleanup_failed"
    /\ registry[j] = sweep.todo[j] \/ ~Present(registry[j])
AllSnapshots == \A j \in Jobs : SnapshotIsReal(j)

(* The watchdog takes its snapshot in an open session, where no settled    *)
(* job has a failed cleanup; afterwards settled records are final.         *)
LEMMA SnapshotStep ==
  ASSUME TypeOK, SlotInvariant, FailureQuarantines, AllSnapshots, [Next]_vars
  PROVE  AllSnapshots'
<1> SUFFICES ASSUME NEW k \in Jobs, Terminal(sweep'.todo[k])
             PROVE  /\ sweep'.todo[k].completion # "cleanup_failed"
                    /\ registry'[k] = sweep'.todo[k] \/ ~Present(registry'[k])
  BY DEF AllSnapshots, SnapshotIsReal
<1> USE DEF envVars, signalVars, slotVars, executionVars
<1>1. sweep \in SweepState /\ CleanupTime \in Nat
  BY ConstantsAssumption DEF TypeOK
<1>2. CASE WatchdogBegin
  <2>1. sweep'.todo = registry /\ registry' = registry /\ session = "open"
        /\ sweep.pc = "sleep"
    BY <1>1, <1>2 DEF WatchdogBegin, SweepState
  <2>2. QED
    BY <2>1 DEF FailureQuarantines
<1>3. CASE ShutdownBegin
  <2>1. sweep'.todo[k] = IF Active(registry[k]) THEN registry[k] ELSE NoRecord
    BY <1>1, <1>3 DEF ShutdownBegin, SweepState
  <2>2. QED
    BY <2>1 DEF Active, Terminal, TerminalStates, NoRecord
<1>4. CASE sweep'.todo[k] \in {sweep.todo[k], NoRecord}
  <2>1. sweep'.todo[k] = sweep.todo[k] /\ Terminal(sweep.todo[k])
    BY <1>4 DEF Terminal, TerminalStates, NoRecord
  <2>2. /\ sweep.todo[k].completion # "cleanup_failed"
        /\ registry[k] = sweep.todo[k] \/ ~Present(registry[k])
    BY <2>1 DEF AllSnapshots, SnapshotIsReal
  <2>3. CASE registry[k] = sweep.todo[k]
    <3>1. registry'[k] \in {registry[k], NoRecord}
      BY <2>1, <2>3, NextMoves DEF RecordMoves, Terminal, TerminalStates, Active, NoRecord
    <3>2. QED
      BY <2>1, <2>2, <2>3, <3>1 DEF NoRecord, Present
  <2>4. CASE ~Present(registry[k])
    <3>1. runner[k].pc # "idle"
      BY <2>1 DEF SlotInvariant, UncleanIsKept, CleanedIsOver
    <3>2. ~(\E j \in Jobs : Admit(j) /\ j = k)
      BY <3>1 DEF Admit
    <3>3. ~Present(registry'[k])
      BY <2>4, <3>2, AbsentStays
    <3>4. QED
      BY <2>1, <2>2, <3>3
  <2>5. QED
    BY <2>2, <2>3, <2>4
<1>5. CASE Sweep /\ ~WatchdogBegin /\ ~ShutdownBegin
  <2>1. \/ \E j \in Jobs : sweep'.todo = [sweep.todo EXCEPT ![j] = NoRecord]
        \/ sweep'.todo = sweep.todo
    <3>1. CASE \E j \in Jobs : WatchdogVisit(j) \/ ShutdownVisit(j)
      <4>1. PICK j \in Jobs : WatchdogVisit(j) \/ ShutdownVisit(j)
        BY <3>1
      <4>2. CASE WatchdogVisit(j)
        <5>1. sweep'.todo = [sweep.todo EXCEPT ![j] = NoRecord]
          BY <1>1, <4>2 DEF WatchdogVisit, SweepState
        <5>2. QED
          BY <5>1
      <4>3. CASE ShutdownVisit(j)
        <5>1. sweep' = [sweep EXCEPT !.todo[j] = NoRecord, !.job = j,
                                     !.pc = "terminate", !.intent = "shutdown"]
          BY <4>3 DEF ShutdownVisit
        <5>2. sweep'.todo = [sweep.todo EXCEPT ![j] = NoRecord]
          BY <1>1, <5>1 DEF SweepState
        <5>3. QED
          BY <5>2
      <4>4. QED
        BY <4>1, <4>2, <4>3
    <3>2. CASE WatchdogEnd \/ ShutdownEnd
      BY <1>1, <3>2 DEF WatchdogEnd, ShutdownEnd, SweepState, SweepAt
    <3>3. CASE \/ SweepTerminate \/ SweepSignal \/ WatchdogRecheck \/ JoinObserved
               \/ JoinUncertain \/ SweepFinalize \/ SweepRelease \/ SweepFail
               \/ SweepClockFails
      <4>1. \/ \E pc \in SweepPcs : SweepAt(pc)
            \/ \E err \in BOOLEAN : NextVisit(err)
            \/ \E d \in Nat, late \in BOOLEAN : JoinFor(d, late)
        BY <1>1, <3>3 DEF SweepTerminate, SweepSignal, WatchdogRecheck, JoinObserved,
           JoinUncertain, SweepFinalize, SweepRelease, SweepFail, SweepClockFails,
           SweepPcs, Present, Terminal
      <4>2. QED
        BY <4>1, SweepMoveFacts
    <3>4. QED
      BY <1>5, <3>1, <3>2, <3>3 DEF Sweep
  <2>2. sweep.todo \in [Jobs -> Record]
    BY <1>1 DEF SweepState
  <2>3. QED
    BY <1>4, <2>1, <2>2
<1>6. CASE ~Sweep
  <2>1. sweep' = sweep
    BY <1>6 DEF Next, Environment, Tick, Disconnect, ChangeAuthority, Deliver, Admit,
       Runner, Register, RunnerCall, RunnerRevoke, RunnerSkip, RunnerBegin, RunnerEnd,
       RunnerAbort, RunnerInspect, RunnerDecide, FinishCheck, FinishRevoke,
       FinishApply, RunnerObserve, RunnerRelease, RunnerClockFails, Control,
       ControlRevoked, CancelCheck, CancelApply, ControlSignal, ControlClockFails,
       Ended, vars
  <2>2. QED
    BY <1>4, <2>1
<1>7. QED
  BY <1>2, <1>3, <1>5, <1>6

(* A sweep takes one step of the capacity at a time.  In particular an     *)
(* expiry takes no slot with it: a settled job has given its slot back, or *)
(* its runner still will.                                                  *)
LEMMA SweepCapacity ==
  ASSUME TypeOK, SlotInvariant, NoPermitLeak, AllSnapshots, Sweep
  PROVE  CapacityStep
<1> USE DEF envVars, signalVars, slotVars, executionVars
<1>0. PICK j \in Jobs : j = sweep.job
  BY DEF TypeOK, SweepState
<1>1. /\ sweep.intent \in Intents /\ sweep \in SweepState
      /\ registry[j] \in Record
  BY DEF TypeOK, SweepState
<1>2. UNCHANGED <<runner, live>>
  BY DEF Sweep, WatchdogBegin, ShutdownBegin, WatchdogVisit, ShutdownVisit,
     SweepTerminate, SweepSignal, WatchdogRecheck, JoinObserved, JoinUncertain,
     SweepFinalize, SweepRelease, SweepFail, SweepClockFails, WatchdogEnd, ShutdownEnd
<1>3. CASE UNCHANGED <<registry, permit>>
  BY <1>2, <1>3, Invisible DEF TaskOf, Holds, RunnerAlive
<1>4. CASE SweepTerminate
  <2>1. permit' = permit
    BY <1>0, <1>4 DEF SweepTerminate
  <2>2. CASE Active(registry[j])
    <3>1. registry' = [registry EXCEPT ![j] = Terminate(registry[j], sweep.intent)]
      <4>1. registry' = [registry EXCEPT ![j] =
                IF Active(registry[j]) THEN Terminate(registry[j], sweep.intent)
                ELSE registry[j]]
        BY <1>0, <1>4 DEF SweepTerminate
      <4>2. QED
        BY <2>2, <4>1
    <3>2. Active(registry'[j])
      BY <1>1, <2>2, <3>1, TerminateType DEF TypeOK, Active
    <3>3. Only(j)
      BY <1>2, <2>1, <3>1 DEF Only, TypeOK
    <3>4. QED
      BY <1>1, <1>2, <2>1, <2>2, <3>2, <3>3, QuietRecord
  <2>3. CASE ~Active(registry[j])
    BY <1>0, <1>1, <1>3, <1>4, <2>1, <2>3 DEF SweepTerminate, TypeOK
  <2>4. QED
    BY <2>2, <2>3
<1>5. CASE SweepFinalize
  <2>1. permit' = permit /\ cleaned[j]
    BY <1>0, <1>5 DEF SweepFinalize, SlotInvariant, ReleaseIsEarned
  <2>2. CASE Finalizable(registry[j])
    <3>1. registry' = [registry EXCEPT ![j] = Finalize(registry[j])]
      BY <1>0, <1>5, <2>2 DEF SweepFinalize
    <3>2. Only(j) /\ registry'[j] = Finalize(registry[j]) /\ Active(registry[j])
      BY <1>1, <1>2, <2>1, <2>2, <3>1 DEF Only, TypeOK, Finalizable
    <3>3. RunnerAlive(j) <=> RunnerAlive(j)'
      BY <1>2 DEF RunnerAlive
    <3>4. QED
      BY <1>1, <1>2, <2>1, <3>2, <3>3, FinalizeCapacity
  <2>3. CASE ~Finalizable(registry[j])
    BY <1>0, <1>1, <1>3, <1>5, <2>1, <2>3 DEF SweepFinalize, TypeOK
  <2>4. QED
    BY <2>2, <2>3
<1>6. CASE SweepFail
  <2>1. permit' = permit
    BY <1>0, <1>6 DEF SweepFail
  <2>2. CASE Active(registry[j]) /\ registry[j].phase = "cleanup"
    <3>1. registry' = [registry EXCEPT ![j] =
              [registry[j] EXCEPT !.state = "failed", !.phase = "terminal",
                                  !.deadline = 0, !.completion = "cleanup_failed"]]
      BY <1>0, <1>6, <2>2 DEF SweepFail
    <3>2. Only(j) /\ registry'[j].state = "failed"
      BY <1>1, <1>2, <2>1, <3>1 DEF Only, TypeOK, Record
    <3>3. TaskOf(j) = "working" /\ TaskOf(j)' = "failed"
      BY <1>1, <2>2, <3>2, TaskNames DEF Terminal, TerminalStates
    <3>4. Holds(j)' <=> Holds(j)
      BY <1>2, <2>1, <2>2, <3>2 DEF Holds, RunnerAlive, Active, Present
    <3>5. QED
      BY <1>1, <1>2, <3>2, <3>3, <3>4, SettleStep
  <2>3. CASE ~(Active(registry[j]) /\ registry[j].phase = "cleanup")
    BY <1>0, <1>1, <1>3, <1>6, <2>1, <2>3 DEF SweepFail, TypeOK
  <2>4. QED
    BY <2>2, <2>3
<1>7. CASE SweepRelease
  <2>1. cleaned[j] /\ ~Active(registry[j])
    BY <1>0, <1>7 DEF SweepRelease, SlotInvariant, ReleaseIsEarned
  <2>2. runner[j].pc # "idle"
    BY <1>1, <2>1 DEF SlotInvariant, CleanedIsOver
  <2>3. Only(j) /\ ReleasePermit(j) /\ registry' = registry
    BY <1>0, <1>2, <1>7 DEF SweepRelease, ReleasePermit, Only, TypeOK
  <2>4. QED
    BY <1>1, <1>2, <2>1, <2>2, <2>3, ReleaseCapacity
<1>8. ASSUME NEW i \in Jobs, WatchdogVisit(i) PROVE CapacityStep
  <2>1. permit' = permit /\ sweep.pc = "visit" /\ Only(i)
    BY <1>2, <1>8 DEF WatchdogVisit, Only, TypeOK
  <2>2. CASE registry'[i] = registry[i]
    BY <1>2, <2>1, <2>2, QuietRecord
  <2>3. CASE registry'[i] # registry[i]
    <3>1. Terminal(sweep.todo[i]) /\ registry'[i] = NoRecord
      BY <1>8, <2>3 DEF WatchdogVisit, TypeOK
    <3>2. registry[i] = sweep.todo[i] \/ ~Present(registry[i])
      BY <3>1 DEF AllSnapshots, SnapshotIsReal
    <3>3. CASE registry[i] = sweep.todo[i]
      <4>1. Terminal(registry[i]) /\ registry[i].completion # "cleanup_failed"
        BY <3>1, <3>3 DEF AllSnapshots, SnapshotIsReal
      <4>2. permit[i] = "released" \/ runner[i].pc = "release"
        BY <2>1, <4>1 DEF NoPermitLeak
      <4>3. Holds(i)' <=> Holds(i)
        BY <1>2, <2>1, <4>2 DEF Holds, RunnerAlive
      <4>4. ~Present(registry'[i])
        BY <3>1 DEF NoRecord, Present
      <4>5. runner'[i].pc # "idle"
        BY <1>2, <4>1 DEF SlotInvariant, IdleUntouched, NoRecord, Terminal, TerminalStates
      <4>6. TaskOf(i)' = "gone"
        BY <4>4, <4>5, TaskNames
      <4>7. TaskOf(i) \in {"completed", "failed", "cancelled"}
        BY <4>1, TaskNames DEF Terminal, TerminalStates
      <4>8. QED
        BY <1>2, <2>1, <4>3, <4>6, <4>7, ExpireStep
    <3>4. CASE ~Present(registry[i])
      <4>1. ~Present(registry'[i])
        BY <3>1 DEF NoRecord, Present
      <4>2. TaskOf(i)' = TaskOf(i) /\ (Holds(i)' <=> Holds(i))
        BY <1>2, <2>1, <3>4, <4>1, TaskNames DEF Holds, RunnerAlive
      <4>3. QED
        BY <1>2, <2>1, <4>2, QuietStep
    <3>5. QED
      BY <3>2, <3>3, <3>4
  <2>4. QED
    BY <2>2, <2>3
<1>9. QED
  BY <1>3, <1>4, <1>5, <1>6, <1>7, <1>8 DEF Sweep, WatchdogBegin, ShutdownBegin,
     ShutdownVisit, SweepSignal, WatchdogRecheck, JoinObserved, JoinUncertain,
     SweepClockFails, WatchdogEnd, ShutdownEnd

-----------------------------------------------------------------------------
(* The jobs keep the promise of JobCapacity, for any number of jobs,       *)
(* clients and owners and any budgets: one slot, tasks that settle once,   *)
(* and a slot given back only over nothing that runs.                      *)
THEOREM JobsImplementCapacity == Spec => ImplementsCapacity
<1>1. Init => Capacity!AbsInit
  <2> SUFFICES ASSUME Init PROVE Capacity!AbsInit
    OBVIOUS
  <2>1. \A j \in Jobs : ~Present(registry[j]) /\ runner[j].pc = "idle" /\ permit[j] = "none"
    BY DEF Init, NoRecord, NoRunner, Present
  <2>2. [j \in Jobs |-> TaskOf(j)] = [j \in Jobs |-> "none"]
    BY <2>1, TaskNames
  <2>3. SlotHolders = {} /\ live = {}
    BY <2>1 DEF SlotHolders, Init
  <2>4. QED
    BY <2>2, <2>3 DEF Capacity!AbsInit
<1>2. Init => AllSnapshots
  BY DEF Init, AllSnapshots, SnapshotIsReal, NoRecord, Terminal, TerminalStates
<1>3. TypeOK /\ SlotInvariant /\ SlotCoversExecution /\ NoPermitLeak /\ AllSnapshots
        /\ [Next]_vars => CapacityStep
  <2> SUFFICES ASSUME TypeOK, SlotInvariant, SlotCoversExecution, NoPermitLeak,
                      AllSnapshots, [Next]_vars
               PROVE  CapacityStep
    OBVIOUS
  <2>1. CASE UNCHANGED <<registry, permit, runner, live>>
    BY <2>1, Invisible DEF TaskOf, Holds, RunnerAlive
  <2>2. CASE \E j \in Jobs : Runner(j)
    BY <2>2, RunnerCapacity DEF SlotCoversExecution
  <2>3. QED
    BY <2>1, <2>2, AdmitCapacity, ControlCapacity, SweepCapacity DEF Next, Environment,
       Tick, Disconnect, ChangeAuthority, Deliver, Ended, vars, slotVars, executionVars
<1>4. TypeOK /\ SlotInvariant /\ FailureQuarantines /\ AllSnapshots /\ [Next]_vars
        => AllSnapshots'
  BY SnapshotStep
<1>5. Spec => []AllSnapshots
  BY <1>2, <1>4, TypeCorrect, SlotInductive, FailureCloses, PTL DEF Spec
<1>6. QED
  BY <1>1, <1>3, <1>5, TypeCorrect, SlotInductive, SlotSafety, SlotComesBack, PTL
     DEF Spec, ImplementsCapacity, Capacity!AbsSpec, CapacityStep
=============================================================================
