--------------------------- MODULE ExecutionGateway ---------------------------
(***************************************************************************)
(* Sandboxed runs under one gateway: the inspector that opens and          *)
(* calibrates it, one run at a time, every request to the container daemon *)
(* with the replies it can get or lose, cancellation and deadline, the     *)
(* cleanup that decides whether the gateway may be used again, and the     *)
(* quarantine when it may not.                                             *)
(*                                                                         *)
(* The daemon is external.  A creation whose reply was lost has happened,  *)
(* has not, or still will: the code says so where it fails closed          *)
(* (mutation_gateway.rs:117).  An object is named by its run, the kind of  *)
(* that run, and its role in it.                                           *)
(***************************************************************************)
EXTENDS GatewayPlans, FiniteSets

CONSTANTS
  Verticals,       (* the kinds of run callers ask for                     *)
  MaxRuns,         (* bound: runs, the calibration's included              *)
  MaxCrashes       (* bound: kills of the server                           *)

ASSUME VerticalsAssumption == Verticals \subseteq AllVerticals
ASSUME BoundsAssumption == MaxRuns \in Nat /\ MaxCrashes \in Nat

VARIABLES
  session,         (* the inspector and its gateway, gone in a crash       *)
  job,             (* the run that holds the single-flight lock            *)
  cancelled,       (* its caller's token                                   *)
  expired,         (* its deadline, or that of the phase it is in          *)
  runs,            (* runs started so far, which is the nonce              *)
  crashes,
  objects,         (* containers and volumes the daemon has                *)
  live,            (* the containers that execute                          *)
  pending,         (* creations that may still happen                      *)
  tardy            (* objects made after the gateway stopped waiting       *)

daemon == <<objects, live, pending, tardy>>
signals == <<cancelled, expired>>
vars == <<session, job, signals, runs, crashes, daemon>>

Roles == UNION {{Work[v][i].on : i \in DOMAIN Work[v]} : v \in AllVerticals}
Objects == (1..MaxRuns) \X AllVerticals \X Roles

NoJob == [stage |-> "idle", vertical |-> "cargo", probing |-> FALSE, pc |-> 1,
          sub |-> "look", exit |-> "zero", work |-> "open", terminal |-> "none",
          dirt |-> {}]

Closed == [open |-> FALSE, quarantined |-> FALSE, sealed |-> FALSE,
           poisoned |-> FALSE, calibrated |-> "no", since |-> 0]

Exits == {"zero", "nonzero", "cancelled", "late", "limit"}
Results == {"open", "exited", "cancelled", "late", "limit", "error", "uncertain"}

SessionStates ==
  [open : BOOLEAN, quarantined : BOOLEAN, sealed : BOOLEAN, poisoned : BOOLEAN,
   calibrated : {"no", "yes", "failed"}, since : Nat]

JobStates ==
  [stage : {"idle", "work", "cleanup", "answered"}, vertical : AllVerticals,
   probing : BOOLEAN, pc : Nat \ {0}, sub : {"look", "running", "take", "check"},
   exit : Exits, work : Results, terminal : {"none", "cancelled", "late"},
   dirt : SUBSET {"containers", "volumes"}]

TypeOK ==
  /\ session \in SessionStates /\ job \in JobStates
  /\ cancelled \in BOOLEAN /\ expired \in BOOLEAN
  /\ runs \in 0..MaxRuns /\ crashes \in 0..MaxCrashes
  /\ objects \subseteq Objects /\ live \subseteq Objects
  /\ pending \subseteq Objects /\ tardy \subseteq Objects

Init ==
  /\ session = Closed /\ job = NoJob
  /\ cancelled = FALSE /\ expired = FALSE
  /\ runs = 0 /\ crashes = 0
  /\ objects = {} /\ live = {} /\ pending = {} /\ tardy = {}

Mine(role) == <<runs, job.vertical, role>>
Quarantine == session' = [session EXCEPT !.quarantined = TRUE]

-----------------------------------------------------------------------------
(* The inspector: with_gateway, then the admission of a run.               *)

Usable == session.open /\ ~session.sealed /\ ~session.poisoned /\ ~session.quarantined

(* Fault: only the containers of an earlier session are looked for.        *)
OpenOverVolumes ==
  /\ job.stage = "idle" /\ ~session.open /\ ~session.sealed
  /\ \/ {o \in objects : o[3] # "source"} = {}
        /\ session' = [session EXCEPT !.open = TRUE, !.since = runs]
     \/ session' = [session EXCEPT !.sealed = TRUE]
  /\ UNCHANGED <<job, signals, runs, crashes, daemon>>

(* A gateway is opened on first use, and only over a daemon that shows     *)
(* neither a container nor a volume of an earlier session; one that cannot *)
(* be listed is not trusted.                                               *)
Open ==
  /\ job.stage = "idle" /\ ~session.open /\ ~session.sealed
  /\ \/ objects = {} /\ session' = [session EXCEPT !.open = TRUE, !.since = runs]
     \/ session' = [session EXCEPT !.sealed = TRUE]
  /\ UNCHANGED <<job, signals, runs, crashes, daemon>>

(* A poisoned lock or a quarantined gateway seals the inspector.           *)
Refuse ==
  /\ job.stage = "idle" /\ session.open /\ ~session.sealed
  /\ session.poisoned \/ session.quarantined
  /\ session' = [session EXCEPT !.sealed = TRUE, !.quarantined = TRUE]
  /\ UNCHANGED <<job, signals, runs, crashes, daemon>>

Start(v, probing) ==
  /\ runs < MaxRuns /\ runs' = runs + 1
  /\ job' = [NoJob EXCEPT !.stage = "work", !.vertical = v, !.probing = probing]
  /\ cancelled' = FALSE /\ expired' = FALSE
  /\ UNCHANGED <<session, crashes, daemon>>

(* Fault: the flag is not read under the lock.                             *)
AdmitDirty(v) ==
  /\ job.stage = "idle" /\ session.open /\ ~session.sealed
  /\ session.calibrated # "failed"
  /\ IF session.calibrated = "yes" THEN Start(v, FALSE) ELSE Start("cargo", TRUE)

(* The first run of a session is a calibration probe, under the same lock. *)
Admit(v) ==
  /\ job.stage = "idle" /\ Usable /\ session.calibrated # "failed"
  /\ IF session.calibrated = "yes" THEN Start(v, FALSE) ELSE Start("cargo", TRUE)

-----------------------------------------------------------------------------
(* The work: one call of the plan after the other.                         *)

Plan == Work[job.vertical]
This == Plan[job.pc]
At(kind) == job.stage = "work" /\ This.call = kind

(* WorkBudget::stop: a cancellation is named before a deadline.            *)
Signal == IF cancelled THEN "cancelled" ELSE IF expired THEN "late" ELSE "none"

(* The work ends; soft runs and the analyzer read the signal before any    *)
(* cleanup.                                                                *)
Ends(result) ==
  [job EXCEPT !.stage = "cleanup", !.pc = 1, !.sub = "look", !.work = result,
              !.exit = "zero",
              !.terminal = IF Closing[job.vertical] \in {"override", "beside"}
                           THEN Signal ELSE "none"]
Going(skip) ==
  IF job.pc + skip >= Len(Plan) THEN Ends("exited")
  ELSE [job EXCEPT !.pc = @ + skip + 1, !.sub = "look"]
End(result) == job' = Ends(result)
Go == job' = Going(0)

(* A hard call is not sent once the caller stopped waiting.                *)
Unsent == This.hard /\ Signal # "none"
(* What the error of a call can say.                                       *)
Failures ==
  {"error"} \cup (IF This.hard /\ cancelled THEN {"cancelled"} ELSE {})
            \cup (IF This.hard /\ expired THEN {"late"} ELSE {})
Fail == \E result \in Failures : End(result)

Quiet == UNCHANGED <<session, signals, runs, crashes>>

(* Budget checks of soft plans.                                            *)
CheckStop ==
  /\ \/ At("stop") /\ IF Signal = "none" THEN Go ELSE End(Signal)
     \/ At("unstopped") /\ IF Signal = "none" THEN Go ELSE End("error")
  /\ Quiet /\ UNCHANGED daemon

(* Inspections, verifications, listings: the reply answers or is lost.  A  *)
(* phase that was stopped is not inspected.                                *)
Stopped == job.exit \notin {"zero", "nonzero"}
Ask ==
  /\ \/ At("ask") /\ ((~Unsent /\ Go) \/ Fail)
     \/ At("ended") /\ IF Stopped THEN Go ELSE (~Unsent /\ Go) \/ Fail
     \/ At("absent") /\ \/ ~Unsent /\ Mine(This.on) \notin objects /\ Go
                        \/ Fail
                        \/ End("uncertain")
  /\ Quiet /\ UNCHANGED daemon

(* A creation is refused, or its reply is lost before or after it happens, *)
(* or it happens later.                                                    *)
Lost(o) ==
  \/ UNCHANGED daemon
  \/ objects' = objects \cup {o} /\ UNCHANGED <<live, pending, tardy>>
  \/ pending' = pending \cup {o} /\ UNCHANGED <<objects, live, tardy>>

(* Fault: a soft creation without a reply is taken for one that happened.  *)
MakeHopeful ==
  /\ At("make") /\ UNCHANGED <<signals, runs, crashes>>
  /\ \/ ~Unsent /\ objects' = objects \cup {Mine(This.on)} /\ Go
        /\ UNCHANGED <<session, live, pending, tardy>>
     \/ Unsent /\ Fail /\ UNCHANGED <<session, daemon>>
     \/ ~This.hard /\ Lost(Mine(This.on)) /\ Go /\ UNCHANGED session
     \/ This.hard /\ Lost(Mine(This.on)) /\ End("uncertain") /\ Quarantine

Make ==
  /\ At("make") /\ UNCHANGED <<signals, runs, crashes>>
  /\ \/ ~Unsent /\ objects' = objects \cup {Mine(This.on)} /\ Go
        /\ UNCHANGED <<session, live, pending, tardy>>
     \/ Unsent /\ Fail /\ UNCHANGED <<session, daemon>>
     \/ ~This.hard /\ Lost(Mine(This.on)) /\ End("error") /\ UNCHANGED session
     \/ This.hard /\ Lost(Mine(This.on)) /\ End("uncertain") /\ Quarantine

(* A guardian is started detached.                                         *)
Launch ==
  /\ At("launch") /\ UNCHANGED <<signals, runs, crashes, objects, pending, tardy>>
  /\ \/ ~Unsent /\ live' = live \cup {Mine(This.on)} /\ Go /\ UNCHANGED session
     \/ Unsent /\ Fail /\ UNCHANGED <<session, live>>
     \/ /\ live' \in {live, live \cup {Mine(This.on)}}
        /\ \/ ~This.hard /\ End("error") /\ UNCHANGED session
           \/ This.hard /\ End("uncertain") /\ Quarantine

(* A phase is started attached and watched until it exits or the watching  *)
(* stops, which kills the client and may leave the container running.      *)
Attach ==
  /\ At("attach") /\ job.sub = "look"
  /\ \/ ~Unsent /\ live' = live \cup {Mine(This.on)} /\ job' = [job EXCEPT !.sub = "running"]
     \/ Unsent /\ Fail /\ UNCHANGED live
  /\ UNCHANGED <<session, signals, runs, crashes, objects, pending, tardy>>

Stops == {"limit"} \cup (IF expired THEN {"late"} ELSE {})
                   \cup (IF cancelled \/ (~This.hard /\ expired) THEN {"cancelled"} ELSE {})

Detach ==
  /\ At("attach") /\ job.sub = "running"
  /\ \/ \E exit \in {"zero", "nonzero"} :
          /\ live' = live \ {Mine(This.on)}
          /\ job' = [Going(0) EXCEPT !.exit = exit] /\ UNCHANGED session
     \/ /\ live' \in {live, live \ {Mine(This.on)}}
        /\ \/ \E exit \in Stops : job' = [Going(0) EXCEPT !.exit = exit] /\ UNCHANGED session
           \/ ~This.hard /\ End("error") /\ UNCHANGED session
           \/ This.hard /\ End("uncertain") /\ Quarantine
  /\ UNCHANGED <<signals, runs, crashes, objects, pending, tardy>>

(* What the plan does with the exit of the last phase.                     *)
Follow(policy, outcome) ==
  CASE policy = "go" -> Go [] policy = "main" -> End("exited")
    [] policy = "own" \/ policy = (IF outcome = "limit" THEN "size" ELSE "signal") ->
         End(outcome)
    [] OTHER -> End("error")

Judge ==
  /\ \/ At("verdict") /\ CASE job.exit = "zero" -> Go
                           [] job.exit = "nonzero" -> Follow(This.nonzero, "exited")
                           [] OTHER -> Follow(This.stopped, job.exit)
     \/ At("branch") /\ job' = Going(IF job.exit = "zero" THEN 0 ELSE This.skip)
     \/ At("maybe") /\ \E skip \in {0, This.skip} : job' = Going(skip)
     \/ At("decide") /\ (Go \/ End("exited"))
  /\ Quiet /\ UNCHANGED daemon

(* rm --force; a refusal or a lost reply quarantines.                      *)
Gone(o) == objects' = objects \ {o} /\ live' = live \ {o} /\ UNCHANGED <<pending, tardy>>

Rm ==
  /\ At("rm") /\ UNCHANGED <<signals, runs, crashes>>
  /\ \/ ~Unsent /\ Gone(Mine(This.on)) /\ Go /\ UNCHANGED session
     \/ This.hard /\ Fail /\ UNCHANGED <<session, daemon>>
     \/ (Gone(Mine(This.on)) \/ UNCHANGED daemon) /\ End("uncertain") /\ Quarantine

(* The listing that proves it.                                             *)
Listed ==
  /\ At("listed") /\ UNCHANGED <<signals, runs, crashes, daemon>>
  /\ \/ ~Unsent /\ Mine(This.on) \notin objects /\ Go /\ UNCHANGED session
     \/ This.hard /\ (Fail \/ End("uncertain")) /\ UNCHANGED session
     \/ ~This.hard /\ End("uncertain") /\ Quarantine

-----------------------------------------------------------------------------
(* Cleanup: every object of the run is looked for, removed and looked for  *)
(* again; what cannot be proved gone is dirt.                              *)

Sweeps == Cleanup[job.vertical]
Swept == Sweeps[job.pc]
Cleaning(sub) == job.stage = "cleanup" /\ job.pc <= Len(Sweeps) /\ job.sub = sub
Kind == IF Swept.volume THEN "volumes" ELSE "containers"
NextSweep == job' = [job EXCEPT !.pc = @ + 1, !.sub = "look"]
Soil == job' = [job EXCEPT !.pc = @ + 1, !.sub = "look", !.dirt = @ \cup {Kind}]
Skipped == Swept.gated /\ "containers" \in job.dirt

(* Fault: a lookup that failed is taken for an object that is not there.   *)
LookTrusting ==
  /\ Cleaning("look")
  /\ \/ NextSweep
     \/ ~Skipped /\ Mine(Swept.on) \in objects /\ job' = [job EXCEPT !.sub = "take"]
  /\ Quiet /\ UNCHANGED daemon

Look ==
  /\ Cleaning("look")
  /\ \/ Skipped /\ NextSweep
     \/ ~Skipped /\ \/ Soil
                    \/ Mine(Swept.on) \notin objects /\ NextSweep
                    \/ Mine(Swept.on) \in objects /\ job' = [job EXCEPT !.sub = "take"]
  /\ Quiet /\ UNCHANGED daemon

(* Ownership is proved first; the daemon may refuse, as it does for a      *)
(* volume that a container still mounts.                                   *)
Take ==
  /\ Cleaning("take")
  /\ \/ Gone(Mine(Swept.on)) /\ (job' = [job EXCEPT !.sub = "check"] \/ Soil)
     \/ UNCHANGED daemon /\ Soil
  /\ Quiet

Check ==
  /\ Cleaning("check")
  /\ \/ Soil
     \/ Mine(Swept.on) \notin objects /\ NextSweep
  /\ Quiet /\ UNCHANGED daemon

(* Fault: a stop that interrupts a failure replaces it.                    *)
OutcomeMasked ==
  IF job.dirt # {} THEN "uncertain"
  ELSE IF job.terminal # "none" THEN job.terminal ELSE job.work

(* finish_work: only an ordinary outcome is overridden by the signal.  An  *)
(* analyzer whose session never began is cancelled, or else out of time.   *)
Outcome ==
  IF job.dirt # {} THEN "uncertain"
  ELSE CASE Closing[job.vertical] = "override" ->
              IF job.work \in {"exited", "cancelled"} /\ job.terminal # "none"
              THEN job.terminal ELSE job.work
         [] Closing[job.vertical] = "cancelled again" ->
              IF job.work = "exited" /\ cancelled THEN "cancelled" ELSE job.work
         [] Closing[job.vertical] = "stopped again" ->
              IF job.work = "exited" /\ Signal # "none" THEN Signal ELSE job.work
         [] OTHER -> IF job.work \in {"cancelled", "late", "limit"}
                     THEN IF job.terminal = "cancelled" THEN "cancelled" ELSE "late"
                     ELSE job.work

(* The lock is released; a run that is not clean quarantines the gateway.  *)
Finish ==
  /\ job.stage = "cleanup" /\ job.pc > Len(Sweeps)
  /\ job' = [job EXCEPT !.stage = "answered", !.work = Outcome]
  /\ session' = [session EXCEPT !.quarantined = @ \/ job.dirt # {}]
  /\ UNCHANGED <<signals, runs, crashes, daemon>>

(* The inspector sees the answer: uncertainty seals it, a calibration      *)
(* passes, may be tried again when it was cancelled, or is never repeated. *)
Answer ==
  /\ job.stage = "answered"
  /\ \E verdict \in {"yes", "failed"} :
       session' = [session EXCEPT
         !.sealed = @ \/ job.work = "uncertain",
         !.calibrated = IF ~job.probing \/ job.work = "cancelled" THEN @
                        ELSE IF job.work = "exited" THEN verdict ELSE "failed"]
  /\ job' = NoJob /\ cancelled' = FALSE /\ expired' = FALSE
  /\ UNCHANGED <<runs, crashes, daemon>>

-----------------------------------------------------------------------------
(* The environment.                                                        *)

Busy == job.stage \in {"work", "cleanup"}
Cancel == Busy /\ ~cancelled /\ cancelled' = TRUE
          /\ UNCHANGED <<session, job, expired, runs, crashes, daemon>>
Expire == Busy /\ ~expired /\ expired' = TRUE
          /\ UNCHANGED <<session, job, cancelled, runs, crashes, daemon>>

(* A creation that nobody waits for any more.                              *)
LateCommit ==
  /\ \E o \in pending : /\ pending' = pending \ {o}
                        /\ objects' = objects \cup {o} /\ tardy' = tardy \cup {o}
  /\ UNCHANGED <<session, job, signals, runs, crashes, live>>

(* A panic inside a run poisons the lock and cleans nothing.               *)
Panic ==
  /\ Busy /\ session' = [session EXCEPT !.poisoned = TRUE]
  /\ job' = NoJob /\ UNCHANGED <<signals, runs, crashes, daemon>>

(* kill -9: the process is gone, the daemon and what it was asked are not. *)
Crash ==
  /\ crashes < MaxCrashes /\ crashes' = crashes + 1
  /\ session' = Closed /\ job' = NoJob /\ cancelled' = FALSE /\ expired' = FALSE
  /\ IF At("make") THEN Lost(Mine(This.on)) ELSE UNCHANGED daemon
  /\ UNCHANGED runs

Step ==
  \/ CheckStop \/ Ask \/ Make \/ Launch \/ Attach \/ Detach \/ Judge \/ Rm
  \/ Listed \/ Look \/ Take \/ Check \/ Finish \/ Answer

Next ==
  \/ Open \/ Refuse \/ (\E v \in Verticals : Admit(v)) \/ Step
  \/ Cancel \/ Expire \/ LateCommit \/ Panic \/ Crash

Spec == Init /\ [][Next]_vars
===============================================================================
