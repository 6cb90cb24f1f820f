----------------------- MODULE ExecutionGateway_proofs -----------------------
(* Theorems about the sandbox gateway, for any number of runs and for any  *)
(* plans that meet PlansAssumption and OrderAssumption: none of them looks *)
(* into a plan.                                                            *)
EXTENDS GatewayProperties, TLAPS

(* The roles of the run that its cleanup still has to look for.            *)
Ahead(role) ==
  \E k \in DOMAIN Sweeps : (job.stage = "work" \/ job.pc <= k) /\ Sweeps[k].on = role

(* Runs are numbered in order, and the session saw only those after it.    *)
RunsInOrder ==
  /\ session.since <= runs /\ (job.stage # "idle" => runs >= 1)
  /\ \A o \in objects \cup pending \cup tardy : o[1] <= runs

(* Only a gateway that may be used works; a quarantine met on the way out  *)
(* is reported.                                                            *)
WorkIsAdmitted ==
  /\ job.stage = "work" => Usable /\ job.pc <= Len(Plan)
  /\ job.stage \in {"work", "cleanup"} => session.open /\ ~session.poisoned
  /\ session.sealed => job.stage = "idle"
  /\ session.quarantined /\ job.stage # "idle" => job.work = "uncertain"

(* What the run made and nobody took away is still ahead of its cleanup,   *)
(* or the cleanup has met dirt.                                            *)
CleanupCovers ==
  /\ Busy => \A o \in objects : o[1] = runs /\ o \notin tardy =>
               o[2] = job.vertical /\ (Ahead(o[3]) \/ job.dirt # {})
  /\ job.stage = "answered" /\ (\E o \in objects : o[1] = runs /\ o \notin tardy) =>
       session.quarantined

(* A creation given up by a run that fails closed costs it the gateway; by *)
(* any other, its ordinary outcome.                                        *)
LateIsPaidFor ==
  /\ \A o \in pending \cup tardy :
       o[2] \in FailsClosed => ~Usable \/ o[1] <= session.since
  /\ job.stage # "idle" => \A o \in pending :
       o[1] = runs /\ o \notin tardy => job.work \in {"error", "uncertain"}

(* A cancellation that is reported, or will be, was asked for.             *)
Overriding == Closing[job.vertical] \in {"override", "beside"}
CancelIsAsked ==
  /\ job.stage = "work" => job.work = "open" /\ job.terminal = "none"
  /\ job.stage = "work" /\ job.exit = "cancelled" =>
       cancelled \/ (expired /\ Overriding)
  /\ job.terminal = "cancelled" => cancelled
  /\ job.stage = "cleanup" /\ job.work = "cancelled" =>
       cancelled \/ (Overriding /\ job.terminal # "none")

GatewayInvariant ==
  /\ TypeOK
  /\ RunsInOrder
  /\ WorkIsAdmitted
  /\ CleanupCovers
  /\ LateIsPaidFor
  /\ CancelIsAsked
  /\ CleanSlate
  /\ AnswerIsEarned

-----------------------------------------------------------------------------
(* One call of the work goes on to a later one or ends the work.           *)
Unasked == ~cancelled /\ ~(expired /\ Overriding)

Onward ==
  /\ job' \in JobStates /\ job'.stage = "work" /\ job'.pc <= Len(Plan)
  /\ job'.vertical = job.vertical /\ job'.dirt = job.dirt
  /\ job'.work = job.work /\ job'.terminal = job.terminal
  /\ job'.exit = "cancelled" => job.exit = "cancelled" \/ ~Unasked

Ending(result) ==
  /\ job' \in JobStates /\ job'.stage = "cleanup" /\ job'.pc = 1
  /\ job'.vertical = job.vertical /\ job'.dirt = job.dirt /\ job'.work = result
  /\ job'.terminal = IF Overriding THEN Signal ELSE "none"

Working == TypeOK /\ WorkIsAdmitted /\ CancelIsAsked /\ job.stage = "work"

(* What a run is told to stop for.                                         *)
LEMMA SignalIs == TypeOK => /\ Signal \in {"none", "cancelled", "late"}
                            /\ Signal = "cancelled" <=> cancelled
                            /\ Signal = "none" <=> ~cancelled /\ ~expired
BY DEF TypeOK, Signal

(* The call that is made belongs to the plan, and a plan that fails closed *)
(* creates and runs nothing through a soft call.                           *)
LEMMA CallOfPlan ==
  ASSUME Working
  PROVE  /\ job.vertical \in AllVerticals /\ Len(Plan) \in Nat /\ job.pc \in DOMAIN Plan
         /\ This \in Calls
         /\ This.call \in {"make", "attach"} /\ ~This.hard => Overriding
         /\ This.call = "make" => \E k \in DOMAIN Sweeps : Sweeps[k].on = This.on
<1>1. job.vertical \in AllVerticals /\ job.pc \in Nat \ {0} /\ job.pc <= Len(Plan)
  BY DEF Working, TypeOK, JobStates, WorkIsAdmitted
<1>2. Plan \in Seq(Calls)
  BY <1>1, PlansAssumption DEF Plan
<1>3. Len(Plan) \in Nat /\ job.pc \in DOMAIN Plan
  BY <1>1, <1>2
<1>4. This \in Calls
  BY <1>2, <1>3 DEF This
<1>5. job.vertical \notin FailsClosed => Overriding
  BY <1>1 DEF FailsClosed, Overriding, Closing
<1> QED
  BY <1>1, <1>3, <1>4, <1>5, PlansAssumption DEF This, Plan, Sweeps

(* A job state with the fields of an end, of a call or of a phase replaced. *)
Ended(j, result, stopped) ==
  [j EXCEPT !.stage = "cleanup", !.pc = 1, !.sub = "look", !.work = result,
            !.exit = "zero", !.terminal = stopped]
Stepped(j, pc) == [j EXCEPT !.pc = pc, !.sub = "look"]
Exited(j, exit) == [j EXCEPT !.exit = exit]

SameRun(k, j) == k.vertical = j.vertical /\ k.dirt = j.dirt
SameOutcome(k, j) ==
  SameRun(k, j) /\ k.stage = j.stage /\ k.work = j.work /\ k.terminal = j.terminal

(* The three updates of the job, each with its type and what it keeps.     *)
LEMMA EndedIs ==
  ASSUME NEW j \in JobStates, NEW result \in Results,
         NEW stopped \in {"none", "cancelled", "late"}
  PROVE  LET k == Ended(j, result, stopped)
         IN  /\ k \in JobStates /\ SameRun(k, j) /\ k.stage = "cleanup" /\ k.pc = 1
             /\ k.work = result /\ k.terminal = stopped
<1>1. 1 \in Nat \ {0} /\ "zero" \in Exits
  BY DEF Exits
<1> QED
  BY <1>1 DEF JobStates, Ended, SameRun

LEMMA SteppedIs ==
  ASSUME NEW j \in JobStates, NEW pc \in Nat \ {0}
  PROVE  LET k == Stepped(j, pc)
         IN  k \in JobStates /\ SameOutcome(k, j) /\ k.pc = pc /\ k.exit = j.exit
BY DEF JobStates, Stepped, SameOutcome, SameRun

LEMMA ExitedIs ==
  ASSUME NEW j \in JobStates, NEW exit \in Exits
  PROVE  LET k == Exited(j, exit)
         IN  k \in JobStates /\ SameOutcome(k, j) /\ k.pc = j.pc /\ k.exit = exit
BY DEF JobStates, Exited, SameOutcome, SameRun

(* What the end of the work and its continuation make of the job.          *)
LEMMA EndsIs ==
  ASSUME Working, NEW result \in Results
  PROVE  LET k == Ends(result)
         IN  /\ k \in JobStates /\ SameRun(k, job) /\ k.stage = "cleanup" /\ k.pc = 1
             /\ k.work = result /\ k.terminal = IF Overriding THEN Signal ELSE "none"
<1>1. job \in JobStates
  BY DEF Working, TypeOK
<1>2. PICK stopped \in {"none", "cancelled", "late"} :
        stopped = IF Overriding THEN Signal ELSE "none"
  BY SignalIs DEF Working
<1>3. Ends(result) = Ended(job, result, stopped)
  BY <1>2, Zenon DEF Ends, Overriding, Ended
<1> QED
  BY <1>1, <1>2, <1>3, EndedIs

LEMMA GoingIs ==
  ASSUME Working, NEW skip \in Nat
  PROVE  \/ Going(skip) = Ends("exited")
         \/ \E pc \in Nat \ {0} : pc <= Len(Plan) /\ Going(skip) = Stepped(job, pc)
<1>1. job.pc \in Nat \ {0} /\ Len(Plan) \in Nat
  BY CallOfPlan DEF Working, TypeOK, JobStates
<1>2. CASE job.pc + skip >= Len(Plan)
  BY <1>2, Zenon DEF Going
<1>3. CASE ~(job.pc + skip >= Len(Plan))
  <2>1. job.pc + skip + 1 \in Nat \ {0} /\ job.pc + skip + 1 <= Len(Plan)
    BY <1>1, <1>3
  <2>2. Going(skip) = Stepped(job, job.pc + skip + 1)
    BY <1>3 DEF Going, Stepped
  <2> QED
    BY <2>1, <2>2
<1> QED
  BY <1>2, <1>3

(* The same for an action that ends the work, goes on, or goes on with an  *)
(* exit.                                                                   *)
LEMMA WorkEnds ==
  ASSUME Working, NEW result \in Results, job' = Ends(result)
  PROVE  Ending(result)
BY EndsIs DEF Ending, SameRun

LEMMA WorkGoes ==
  ASSUME Working, NEW skip \in Nat, job' = Going(skip)
  PROVE  Onward \/ Ending("exited")
<1>1. CASE job' = Ends("exited")
  BY <1>1, WorkEnds DEF Results
<1>2. ASSUME NEW pc \in Nat \ {0}, pc <= Len(Plan), job' = Stepped(job, pc)
      PROVE  Onward
  BY <1>2, SteppedIs DEF Onward, Working, TypeOK, SameOutcome, SameRun
<1> QED
  BY <1>1, <1>2, GoingIs

LEMMA WorkExits ==
  ASSUME Working, NEW exit \in Exits, exit = "cancelled" => ~Unasked,
         job' = [Going(0) EXCEPT !.exit = exit]
  PROVE  Onward \/ Ending("exited")
<1>1. job' = Exited(Going(0), exit)
  BY DEF Exited
<1>2. CASE Going(0) = Ends("exited")
  BY <1>1, <1>2, EndsIs, ExitedIs DEF Ending, Results, SameOutcome, SameRun
<1>3. ASSUME NEW pc \in Nat \ {0}, pc <= Len(Plan), Going(0) = Stepped(job, pc)
      PROVE  Onward
  <2>1. job \in JobStates
    BY DEF Working, TypeOK
  <2>2. LET k == Going(0)
        IN  k \in JobStates /\ SameOutcome(k, job) /\ k.pc = pc
    BY <1>3, <2>1, SteppedIs
  <2>3. job' \in JobStates /\ SameOutcome(job', job) /\ job'.pc = pc /\ job'.exit = exit
    BY <1>1, <2>2, ExitedIs DEF SameOutcome, SameRun
  <2> QED
    BY <1>3, <2>3 DEF Onward, Working, SameOutcome, SameRun
<1> QED
  BY <1>2, <1>3, GoingIs
-----------------------------------------------------------------------------
(* What any call of the work may do: to the job, to the gateway, and to    *)
(* the daemon.                                                             *)
Moved ==
  \/ Onward
  \/ \E result \in Results : Ending(result) /\ (result = "cancelled" => ~Unasked)

Effects ==
  /\ Moved
  /\ \/ UNCHANGED session
     \/ Quarantine /\ Ending("uncertain")
  /\ objects' \subseteq objects \cup {Mine(This.on)}
  /\ live' \subseteq live \cup {Mine(This.on)}
  /\ pending' \subseteq pending \cup {Mine(This.on)}
  /\ This.call # "make" => objects' \subseteq objects /\ pending' \subseteq pending
  /\ \/ pending' \subseteq pending
     \/ Ending("error") /\ ~This.hard
     \/ Ending("uncertain") /\ (This.hard => Quarantine)
  /\ UNCHANGED <<signals, runs, crashes, tardy>>

(* The three ways a call of the work ends.                                 *)
LEMMA GoMoves == Working /\ Go => Moved
<1>1. Working /\ Go => Onward \/ Ending("exited")
  BY WorkGoes DEF Go
<1> QED
  BY <1>1 DEF Moved, Results

LEMMA EndMoves ==
  ASSUME Working, NEW result \in Results, result = "cancelled" => ~Unasked, End(result)
  PROVE  Moved /\ Ending(result)
BY WorkEnds DEF End, Moved

LEMMA FailMoves == Working /\ Fail => Moved
<1> SUFFICES ASSUME Working, NEW result \in Failures, End(result)  PROVE Moved
  BY DEF Fail
<1>1. result \in Results /\ (result = "cancelled" => ~Unasked)
  BY DEF Failures, Results, Unasked
<1> QED
  BY <1>1, EndMoves

(* A creation whose reply was lost touches its own object only.            *)
LEMMA LostIs ==
  ASSUME NEW o, Lost(o)
  PROVE  /\ objects' \subseteq objects \cup {o} /\ pending' \subseteq pending \cup {o}
         /\ live' = live /\ tardy' = tardy
BY DEF Lost, daemon

(* What any one call of the work does to the run and to the daemon.        *)
LEMMA WorkEffects ==
  ASSUME Working,
         CheckStop \/ Ask \/ Make \/ Launch \/ Attach \/ Detach \/ Judge \/ Rm \/ Listed
  PROVE  Effects
<1> USE GoMoves, FailMoves
<1>1. {"error", "uncertain", "exited", "limit", "late", "cancelled"} \subseteq Results
  BY DEF Results
<1>2. CASE CheckStop
  <2>1. Signal # "none" => Signal \in Results /\ (Signal = "cancelled" => ~Unasked)
    BY <1>1, SignalIs DEF Working, Unasked
  <2>2. Moved
    BY <1>1, <1>2, <2>1, EndMoves DEF CheckStop
  <2> QED
    BY <1>2, <2>2 DEF CheckStop, Effects, Quiet, daemon, signals
<1>3. CASE Ask
  <2>1. Moved
    BY <1>1, <1>3, EndMoves DEF Ask
  <2> QED
    BY <1>3, <2>1 DEF Ask, Effects, Quiet, daemon, signals
<1>4. CASE Make
  <2>1. This.call = "make" /\ UNCHANGED <<signals, runs, crashes>>
    BY <1>4 DEF Make, At
  <2>2. CASE /\ objects' = objects \cup {Mine(This.on)} /\ Go
             /\ UNCHANGED <<session, live, pending, tardy>>
    BY <2>1, <2>2 DEF Effects
  <2>3. CASE Fail /\ UNCHANGED <<session, daemon>>
    BY <2>1, <2>3 DEF Effects, daemon
  <2>4. CASE ~This.hard /\ Lost(Mine(This.on)) /\ End("error") /\ UNCHANGED session
    <3>1. Moved /\ Ending("error")
      BY <1>1, <2>4, EndMoves
    <3> QED
      BY <2>1, <2>4, <3>1, LostIs DEF Effects
  <2>5. CASE This.hard /\ Lost(Mine(This.on)) /\ End("uncertain") /\ Quarantine
    <3>1. Moved /\ Ending("uncertain")
      BY <1>1, <2>5, EndMoves
    <3> QED
      BY <2>1, <2>5, <3>1, LostIs DEF Effects
  <2> QED
    BY <1>4, <2>2, <2>3, <2>4, <2>5 DEF Make
<1>5. CASE Launch
  <2>1. /\ Moved
        /\ UNCHANGED session \/ (Quarantine /\ Ending("uncertain"))
    BY <1>1, <1>5, EndMoves DEF Launch
  <2> QED
    BY <1>5, <2>1 DEF Launch, Effects, signals
<1>6. CASE Attach
  <2>1. ASSUME job' = [job EXCEPT !.sub = "running"]  PROVE Moved
    <3>1. job \in JobStates /\ job.pc <= Len(Plan)
      BY DEF Working, TypeOK, WorkIsAdmitted
    <3>2. /\ job' \in JobStates /\ SameOutcome(job', job)
          /\ job'.pc = job.pc /\ job'.exit = job.exit
      BY <2>1, <3>1 DEF JobStates, SameOutcome, SameRun
    <3>3. Onward
      BY <3>1, <3>2 DEF Onward, Working, SameOutcome, SameRun
    <3> QED
      BY <3>3 DEF Moved
  <2>2. Moved
    BY <1>6, <2>1 DEF Attach
  <2>3. /\ live' \subseteq live \cup {Mine(This.on)}
        /\ UNCHANGED <<session, signals, runs, crashes, objects, pending, tardy>>
    BY <1>6 DEF Attach
  <2> QED
    BY <2>2, <2>3 DEF Effects
<1>7. CASE Detach
  <2>1. This.call = "attach" /\ (This.hard \/ Overriding)
    BY <1>7, CallOfPlan DEF Detach, At
  <2>2. ASSUME NEW exit \in Exits, exit \in {"zero", "nonzero"} \cup Stops,
               job' = [Going(0) EXCEPT !.exit = exit]
        PROVE  Moved
    <3>1. exit = "cancelled" => ~Unasked
      BY <2>1, <2>2 DEF Stops, Unasked
    <3>2. Onward \/ Ending("exited")
      BY <2>2, <3>1, WorkExits
    <3> QED
      BY <1>1, <3>2 DEF Moved
  <2>3. {"zero", "nonzero"} \cup Stops \subseteq Exits
    BY DEF Stops, Exits
  <2>4. CASE \E exit \in {"zero", "nonzero"} \cup Stops :
               job' = [Going(0) EXCEPT !.exit = exit] /\ UNCHANGED session
    <3>1. Moved
      BY <2>2, <2>3, <2>4
    <3> QED
      BY <1>7, <2>4, <3>1 DEF Detach, Effects, signals
  <2>5. CASE End("error") /\ UNCHANGED session
    <3>1. Moved
      BY <1>1, <2>5, EndMoves
    <3> QED
      BY <1>7, <2>5, <3>1 DEF Detach, Effects, signals
  <2>6. CASE End("uncertain") /\ Quarantine
    <3>1. Moved /\ Ending("uncertain")
      BY <1>1, <2>6, EndMoves
    <3> QED
      BY <1>7, <2>6, <3>1 DEF Detach, Effects, signals
  <2> QED
    BY <1>7, <2>4, <2>5, <2>6 DEF Detach
<1>8. CASE Judge
  <2>1. This.skip \in Nat /\ 0 \in Nat
    BY CallOfPlan DEF Calls
  <2>2. ASSUME NEW skip \in Nat, job' = Going(skip)  PROVE Moved
    BY <1>1, <2>2, WorkGoes DEF Moved
  <2>3. job.stage = "work" /\ job.exit \in Exits
    BY DEF Working, TypeOK, JobStates
  <2>4. job.exit = "cancelled" => ~Unasked
    BY <2>3 DEF Working, CancelIsAsked, Unasked
  <2>5. ASSUME NEW policy, NEW outcome \in Results, outcome = "cancelled" => ~Unasked,
               Follow(policy, outcome)
        PROVE  Moved
    <3>1. Go \/ End("exited") \/ End(outcome) \/ End("error")
      BY <2>5 DEF Follow
    <3> QED
      BY <1>1, <2>5, <3>1, EndMoves
  <2>6. ASSUME At("verdict")  PROVE Moved
    <3>1. \/ Go
          \/ Follow(This.nonzero, "exited")
          \/ job.exit \notin {"zero", "nonzero"} /\ Follow(This.stopped, job.exit)
      BY <1>8, <2>6 DEF Judge, At
    <3>2. job.exit \notin {"zero", "nonzero"} => job.exit \in Results
      BY <2>3 DEF Exits, Results
    <3> QED
      BY <1>1, <2>4, <2>5, <3>1, <3>2
  <2>7. ASSUME ~At("verdict")  PROVE Moved
    <3>1. (\E skip \in Nat : job' = Going(skip)) \/ Go \/ End("exited")
      BY <1>8, <2>1, <2>7 DEF Judge
    <3> QED
      BY <1>1, <2>2, <3>1, EndMoves
  <2>8. Moved
    BY <2>6, <2>7
  <2> QED
    BY <1>8, <2>8 DEF Judge, Effects, Quiet, daemon, signals
<1>9. CASE Rm
  <2>1. /\ objects' \subseteq objects /\ live' \subseteq live /\ UNCHANGED <<pending, tardy>>
    BY <1>9 DEF Rm, Gone, daemon
  <2>2. /\ Moved
        /\ UNCHANGED session \/ (Quarantine /\ Ending("uncertain"))
    BY <1>1, <1>9, EndMoves DEF Rm
  <2> QED
    BY <1>9, <2>1, <2>2 DEF Rm, Effects, signals
<1>10. CASE Listed
  <2>1. /\ Moved
        /\ UNCHANGED session \/ (Quarantine /\ Ending("uncertain"))
    BY <1>1, <1>10, EndMoves DEF Listed
  <2> QED
    BY <1>10, <2>1 DEF Listed, Effects, daemon, signals
<1> QED
  BY <1>2, <1>3, <1>4, <1>5, <1>6, <1>7, <1>8, <1>9, <1>10

-----------------------------------------------------------------------------
(* One step of the cleanup: it moves on past what is gone, or is dirty.    *)
Sweeping ==
  /\ job' \in JobStates /\ job'.stage = "cleanup" /\ job'.vertical = job.vertical
  /\ job'.work = job.work /\ job'.terminal = job.terminal
  /\ job.dirt \subseteq job'.dirt
  /\ \/ job'.pc = job.pc
     \/ job'.pc = job.pc + 1 /\ (job'.dirt # {} \/ Mine(Swept.on) \notin objects')
  /\ objects' \subseteq objects /\ live' \subseteq live
  /\ UNCHANGED <<session, signals, runs, crashes, pending, tardy>>

(* One step of the cleanup goes on, or on with dirt.                       *)
LEMMA SweepMoves ==
  ASSUME TypeOK, NEW sub, Cleaning(sub)
  PROVE  /\ NextSweep => /\ job' \in JobStates /\ SameOutcome(job', job)
                         /\ job'.pc = job.pc + 1
         /\ Soil => /\ job' \in JobStates /\ job'.pc = job.pc + 1 /\ job'.dirt # {}
                    /\ job.dirt \subseteq job'.dirt /\ job'.vertical = job.vertical
                    /\ job'.stage = job.stage /\ job'.work = job.work
                    /\ job'.terminal = job.terminal
<1>1. job \in JobStates /\ job.pc + 1 \in Nat \ {0}
  BY DEF TypeOK, JobStates
<1>2. ASSUME NextSweep
      PROVE  job' \in JobStates /\ SameOutcome(job', job) /\ job'.pc = job.pc + 1
  BY <1>1, <1>2 DEF NextSweep, JobStates, SameOutcome, SameRun
<1>3. ASSUME Soil
      PROVE  /\ job' \in JobStates /\ job'.pc = job.pc + 1 /\ job'.dirt # {}
             /\ job.dirt \subseteq job'.dirt /\ job'.vertical = job.vertical
             /\ job'.stage = job.stage /\ job'.work = job.work
             /\ job'.terminal = job.terminal
  <2>1. PICK kind \in {"volumes", "containers"} : kind = Kind
    BY DEF Kind
  <2>2. job.dirt \cup {kind} \in SUBSET {"containers", "volumes"}
    BY <1>1, <2>1 DEF JobStates
  <2>3. job' = [job EXCEPT !.pc = job.pc + 1, !.sub = "look", !.dirt = job.dirt \cup {kind}]
    BY <1>3, <2>1 DEF Soil
  <2> QED
    BY <1>1, <2>2, <2>3 DEF JobStates
<1> QED
  BY <1>2, <1>3

(* It passes an object only if it is gone, or says it is not.              *)
LEMMA SweepEffects ==
  ASSUME TypeOK, Look \/ Take \/ Check
  PROVE  Sweeping /\ job.stage = "cleanup" /\ job.pc <= Len(Sweeps)
<1>1. job \in JobStates /\ {"take", "check"} \subseteq {"look", "running", "take", "check"}
  BY DEF TypeOK
<1>2. PICK sub : Cleaning(sub)
  BY DEF Look, Take, Check
<1>3. job.stage = "cleanup" /\ job.pc <= Len(Sweeps)
  BY <1>2 DEF Cleaning
<1>4. ASSUME NEW next \in {"take", "check"}, job' = [job EXCEPT !.sub = next]
      PROVE  job' \in JobStates /\ SameOutcome(job', job) /\ job'.pc = job.pc
  BY <1>1, <1>4 DEF JobStates, SameOutcome, SameRun
<1>5. CASE Look
  <2>1. UNCHANGED <<session, signals, runs, crashes, objects, live, pending, tardy>>
    BY <1>5 DEF Look, Quiet, daemon
  <2>2. \/ NextSweep /\ job.dirt # {}
        \/ Soil
        \/ NextSweep /\ Mine(Swept.on) \notin objects
        \/ job' = [job EXCEPT !.sub = "take"]
    BY <1>5 DEF Look, Skipped
  <2> QED
    BY <1>2, <1>3, <1>4, <2>1, <2>2, SweepMoves DEF Sweeping, SameOutcome, SameRun
<1>6. CASE Take
  <2>1. /\ objects' \subseteq objects /\ live' \subseteq live
        /\ UNCHANGED <<session, signals, runs, crashes, pending, tardy>>
    BY <1>6 DEF Take, Gone, Quiet, daemon
  <2>2. job' = [job EXCEPT !.sub = "check"] \/ Soil
    BY <1>6 DEF Take
  <2> QED
    BY <1>2, <1>3, <1>4, <2>1, <2>2, SweepMoves DEF Sweeping, SameOutcome, SameRun
<1>7. CASE Check
  <2>1. UNCHANGED <<session, signals, runs, crashes, objects, live, pending, tardy>>
    BY <1>7 DEF Check, Quiet, daemon
  <2>2. Soil \/ (NextSweep /\ Mine(Swept.on) \notin objects)
    BY <1>7 DEF Check
  <2> QED
    BY <1>2, <1>3, <2>1, <2>2, SweepMoves DEF Sweeping, SameOutcome, SameRun
<1> QED
  BY <1>5, <1>6, <1>7

(* What the run answers once its cleanup is over.                          *)
LEMMA OutcomeIs ==
  ASSUME TypeOK, CancelIsAsked, job.stage = "cleanup"
  PROVE  /\ Outcome \in Results
         /\ job.dirt # {} \/ job.work = "uncertain" => Outcome = "uncertain"
         /\ job.work = "error" => Outcome \in {"error", "uncertain"}
         /\ Outcome = "cancelled" => cancelled
         /\ Outcome = "exited" /\ Closing[job.vertical] = "override" =>
              job.terminal = "none"
<1>1. /\ job.work \in Results /\ job.terminal \in {"none", "cancelled", "late"}
      /\ Signal \in {"none", "cancelled", "late"} /\ (Signal = "cancelled" => cancelled)
  BY SignalIs DEF TypeOK, JobStates
<1>2. /\ job.terminal = "cancelled" => cancelled
      /\ job.work = "cancelled" => cancelled \/ (Overriding /\ job.terminal # "none")
  BY DEF CancelIsAsked
<1>3. CASE job.dirt # {}
  BY <1>3 DEF Outcome, Results
<1>4. CASE job.dirt = {} /\ Closing[job.vertical] = "override"
  BY <1>1, <1>2, <1>4 DEF Outcome, Results
<1>5. CASE job.dirt = {} /\ Closing[job.vertical] = "cancelled again"
  BY <1>1, <1>2, <1>5 DEF Outcome, Results, Overriding
<1>6. CASE job.dirt = {} /\ Closing[job.vertical] = "stopped again"
  BY <1>1, <1>2, <1>6 DEF Outcome, Results, Overriding
<1>7. CASE /\ job.dirt = {}
           /\ Closing[job.vertical] \notin {"override", "cancelled again", "stopped again"}
  BY <1>1, <1>2, <1>7 DEF Outcome, Results
<1> QED
  BY <1>3, <1>4, <1>5, <1>6, <1>7

-----------------------------------------------------------------------------
(* The invariant, one group of actions after the other.                    *)

LEMMA GatewayInit == Init => GatewayInvariant
<1> SUFFICES ASSUME Init PROVE GatewayInvariant
  OBVIOUS
<1>1. NoJob \in JobStates /\ Closed \in SessionStates
  <2>1. "cargo" \in AllVerticals /\ {} \in SUBSET {"containers", "volumes"}
    BY DEF AllVerticals
  <2>2. "zero" \in Exits /\ "open" \in Results /\ 1 \in Nat \ {0}
    BY DEF Exits, Results
  <2> QED
    BY <2>1, <2>2 DEF NoJob, JobStates, Closed, SessionStates
<1>2. TypeOK
  <2>1. session \in SessionStates /\ job \in JobStates
    BY <1>1, Zenon DEF Init
  <2>2. runs \in 0..MaxRuns /\ crashes \in 0..MaxCrashes
    BY BoundsAssumption DEF Init
  <2> QED
    BY <2>1, <2>2 DEF Init, TypeOK
<1>3. job.stage = "idle" /\ ~session.open /\ job.terminal = "none"
  BY DEF Init, NoJob, Closed
<1>4. ~session.sealed /\ ~session.quarantined /\ session.since = 0
  BY DEF Init, Closed
<1>5. RunsInOrder /\ WorkIsAdmitted /\ CancelIsAsked
  BY <1>3, <1>4 DEF Init, RunsInOrder, WorkIsAdmitted, CancelIsAsked
<1>6. CleanupCovers /\ LateIsPaidFor /\ CleanSlate /\ AnswerIsEarned
  BY <1>3 DEF Init, CleanupCovers, LateIsPaidFor, CleanSlate, AnswerIsEarned, Busy, Left
<1> QED
  BY <1>2, <1>5, <1>6 DEF GatewayInvariant

(* An object of the run in progress is one of the model's objects.         *)
LEMMA MineIs ==
  ASSUME TypeOK, RunsInOrder, WorkIsAdmitted, CancelIsAsked, job.stage = "work"
  PROVE  /\ Mine(This.on) \in Objects /\ Mine(This.on)[1] = runs
         /\ Mine(This.on)[2] = job.vertical /\ Mine(This.on)[3] = This.on
<1>1. job.vertical \in AllVerticals /\ job.pc \in DOMAIN Plan
  BY CallOfPlan DEF Working
<1>2. This.on \in Roles
  BY <1>1 DEF Roles, This, Plan
<1>3. runs \in 1..MaxRuns
  BY BoundsAssumption DEF TypeOK, RunsInOrder
<1> QED
  BY <1>1, <1>2, <1>3 DEF Mine, Objects

(* The calls of the work keep the invariant.                               *)
LEMMA WorkStep ==
  ASSUME GatewayInvariant,
         CheckStop \/ Ask \/ Make \/ Launch \/ Attach \/ Detach \/ Judge \/ Rm \/ Listed
  PROVE  GatewayInvariant'
<1>1. job.stage = "work"
  BY DEF CheckStop, Ask, Make, Launch, Attach, Detach, Judge, Rm, Listed, At
<1>2. Working
  BY <1>1 DEF Working, GatewayInvariant
<1>3. Effects
  BY <1>2, WorkEffects
<1>4. /\ Mine(This.on) \in Objects /\ Mine(This.on)[1] = runs
      /\ Mine(This.on)[2] = job.vertical /\ Mine(This.on)[3] = This.on
  BY <1>1, MineIs DEF GatewayInvariant
<1>5. /\ job' \in JobStates /\ job'.stage \in {"work", "cleanup"}
      /\ job'.vertical = job.vertical /\ job'.dirt = job.dirt
  BY <1>3 DEF Effects, Moved, Onward, Ending
<1>6. /\ session' \in SessionStates /\ session'.since = session.since
      /\ session'.open = session.open /\ session'.sealed = session.sealed
      /\ session'.poisoned = session.poisoned
      /\ session.quarantined => session'.quarantined
      /\ session'.quarantined => session.quarantined \/ Ending("uncertain")
  BY <1>2, <1>3 DEF Effects, Quarantine, Working, TypeOK, SessionStates
<1>7. UNCHANGED <<runs, crashes, cancelled, expired, tardy>>
  BY <1>3 DEF Effects, signals
<1>8. /\ Usable /\ session.open /\ ~session.poisoned /\ ~session.sealed
      /\ ~session.quarantined /\ job.pc <= Len(Plan)
  BY <1>1, <1>2 DEF Working, WorkIsAdmitted, Usable
<1>9. TypeOK'
  BY <1>2, <1>3, <1>4, <1>5, <1>6, <1>7 DEF Working, TypeOK, Effects
<1>10. RunsInOrder'
  <2>1. runs \in Nat /\ runs >= 1 /\ session.since <= runs
    BY <1>1, <1>2, BoundsAssumption DEF Working, TypeOK, GatewayInvariant, RunsInOrder
  <2>2. \A o \in objects \cup pending \cup tardy \cup {Mine(This.on)} : o[1] <= runs
    BY <1>4, <2>1 DEF GatewayInvariant, RunsInOrder
  <2> QED
    BY <1>3, <1>6, <1>7, <2>1, <2>2 DEF RunsInOrder, Effects
<1>11. WorkIsAdmitted'
  <2>1. job'.stage = "work" => Usable' /\ job'.pc <= Len(Plan)'
    BY <1>3, <1>5, <1>6, <1>8 DEF Effects, Moved, Onward, Ending, Usable, Plan
  <2>2. session'.quarantined => job'.work = "uncertain"
    BY <1>6, <1>8 DEF Ending
  <2> QED
    BY <1>6, <1>8, <2>1, <2>2 DEF WorkIsAdmitted
<1>12. CleanupCovers'
  <2>1. Sweeps' = Sweeps
    BY <1>5 DEF Sweeps
  <2>2. \A role : (\E k \in DOMAIN Sweeps : Sweeps[k].on = role) => Ahead(role)'
    <3> SUFFICES ASSUME NEW role, NEW k \in DOMAIN Sweeps, Sweeps[k].on = role
                 PROVE  Ahead(role)'
      OBVIOUS
    <3>1. Sweeps \in Seq([on : STRING, volume : BOOLEAN, gated : BOOLEAN])
      BY <1>2, CallOfPlan, PlansAssumption DEF Sweeps
    <3>2. k >= 1
      BY <3>1
    <3>3. job'.stage = "work" \/ job'.pc <= k
      BY <1>3, <3>1, <3>2 DEF Effects, Moved, Onward, Ending
    <3> QED
      BY <2>1, <3>3 DEF Ahead
  <2>3. ASSUME NEW o \in objects', o[1] = runs', o \notin tardy'
        PROVE  o[2] = job'.vertical /\ (Ahead(o[3])' \/ job'.dirt # {})
    <3>1. CASE o \in objects
      <4>1. o[2] = job.vertical /\ (Ahead(o[3]) \/ job.dirt # {})
        BY <1>1, <1>7, <2>3, <3>1 DEF GatewayInvariant, CleanupCovers, Busy
      <4> QED
        BY <1>5, <2>2, <4>1 DEF Ahead
    <3>2. CASE o \notin objects
      <4>1. o = Mine(This.on) /\ This.call = "make"
        BY <1>3, <3>2 DEF Effects
      <4> QED
        BY <1>2, <1>4, <1>5, <2>2, <4>1, CallOfPlan
    <3> QED
      BY <3>1, <3>2
  <2> QED
    BY <1>5, <2>3 DEF CleanupCovers
<1>13. LateIsPaidFor'
  <2>1. ASSUME NEW o \in pending', o \notin pending
        PROVE  /\ o = Mine(This.on) /\ This.call = "make"
               /\ \/ Ending("error") /\ ~This.hard
                  \/ Ending("uncertain") /\ (This.hard => Quarantine)
    BY <1>3, <2>1 DEF Effects
  <2>2. ASSUME NEW o \in pending' \cup tardy', o[2] \in FailsClosed
        PROVE  ~Usable' \/ o[1] <= session'.since
    <3>1. CASE o \in pending \cup tardy
      BY <1>6, <1>8, <2>2, <3>1 DEF GatewayInvariant, LateIsPaidFor
    <3>2. CASE o \notin pending \cup tardy
      <4>1. o[2] = job.vertical /\ This.call = "make"
        BY <1>4, <1>7, <2>1, <2>2, <3>2
      <4>2. ~This.hard => job.vertical \notin FailsClosed
        BY <1>2, <4>1, CallOfPlan DEF Overriding, FailsClosed
      <4>3. Quarantine
        BY <1>7, <2>1, <2>2, <3>2, <4>1, <4>2
      <4> QED
        BY <1>2, <4>3 DEF Quarantine, Usable, Working, TypeOK, SessionStates
    <3> QED
      BY <3>1, <3>2
  <2>3. ASSUME NEW o \in pending', o[1] = runs', o \notin tardy'
        PROVE  job'.work \in {"error", "uncertain"}
    <3>1. o \notin pending
      BY <1>1, <1>2, <1>7, <2>3
         DEF GatewayInvariant, LateIsPaidFor, Working, CancelIsAsked
    <3> QED
      BY <2>1, <2>3, <3>1 DEF Ending
  <2> QED
    BY <2>2, <2>3 DEF LateIsPaidFor
<1>14. CancelIsAsked'
  <2>1. Overriding' = Overriding
    BY <1>5 DEF Overriding
  <2>2. Signal' = Signal
    BY <1>7 DEF Signal
  <2>3. CASE Onward
    BY <1>1, <1>2, <1>7, <2>1, <2>3 DEF Onward, Working, CancelIsAsked, Unasked
  <2>4. ASSUME NEW result \in Results, Ending(result), result = "cancelled" => ~Unasked
        PROVE  CancelIsAsked'
    <3>1. Signal = "none" <=> ~cancelled /\ ~expired
      BY <1>2, SignalIs DEF Working
    <3>2. Signal = "cancelled" <=> cancelled
      BY <1>2, SignalIs DEF Working
    <3> QED
      BY <1>7, <2>1, <2>4, <3>1, <3>2 DEF Ending, CancelIsAsked, Unasked
  <2> QED
    BY <1>3, <2>3, <2>4 DEF Effects, Moved
<1>15. CleanSlate'
  <2> SUFFICES ASSUME Usable', NEW o \in Left'  PROVE Busy' /\ o[1] = runs'
    BY DEF CleanSlate
  <2>1. CASE o \in objects
    BY <1>1, <1>5, <1>6, <1>7, <1>8, <2>1
       DEF GatewayInvariant, CleanSlate, Left, Excused, Busy
  <2>2. CASE o \notin objects
    BY <1>3, <1>4, <1>5, <1>7, <2>2 DEF Effects, Left, Busy
  <2> QED
    BY <2>1, <2>2
<1>16. AnswerIsEarned'
  BY <1>5 DEF AnswerIsEarned
<1> QED
  BY <1>9, <1>10, <1>11, <1>12, <1>13, <1>14, <1>15, <1>16 DEF GatewayInvariant

(* The cleanup keeps it.                                                   *)
LEMMA SweepStep ==
  ASSUME GatewayInvariant, Look \/ Take \/ Check
  PROVE  GatewayInvariant'
<1>1. TypeOK /\ Sweeping /\ job.stage = "cleanup" /\ job.pc <= Len(Sweeps)
  BY SweepEffects DEF GatewayInvariant
<1>2. /\ job' \in JobStates /\ job'.stage = "cleanup" /\ job'.vertical = job.vertical
      /\ job'.work = job.work /\ job'.terminal = job.terminal
      /\ objects' \subseteq objects /\ live' \subseteq live
      /\ UNCHANGED <<session, cancelled, expired, runs, crashes, pending, tardy>>
  BY <1>1 DEF Sweeping, signals
<1>3. TypeOK'
  BY <1>1, <1>2 DEF TypeOK
<1>4. RunsInOrder' /\ WorkIsAdmitted'
  BY <1>1, <1>2 DEF GatewayInvariant, RunsInOrder, WorkIsAdmitted
<1>5. CleanupCovers'
  <2>1. Sweeps' = Sweeps /\ Sweeps \in Seq([on : STRING, volume : BOOLEAN, gated : BOOLEAN])
    BY <1>1, <1>2, PlansAssumption DEF Sweeps, TypeOK, JobStates
  <2>2. ASSUME NEW o \in objects', o[1] = runs', o \notin tardy'
        PROVE  o[2] = job'.vertical /\ (Ahead(o[3])' \/ job'.dirt # {})
    <3>1. o \in objects /\ o[2] = job.vertical /\ (Ahead(o[3]) \/ job.dirt # {})
      BY <1>1, <1>2, <2>2 DEF GatewayInvariant, CleanupCovers, Busy
    <3>2. CASE job'.dirt # {} \/ job'.pc = job.pc
      BY <1>1, <1>2, <2>1, <3>1, <3>2 DEF Ahead, Sweeping
    <3>3. CASE job'.dirt = {} /\ job'.pc = job.pc + 1
      <4>1. Mine(Swept.on) \notin objects' /\ job.dirt = {}
        BY <1>1, <3>3 DEF Sweeping, TypeOK, JobStates
      <4>2. PICK k \in DOMAIN Sweeps : job.pc <= k /\ Sweeps[k].on = o[3]
        BY <1>1, <3>1, <4>1 DEF Ahead
      <4>3. o = <<o[1], o[2], o[3]>>
        BY <1>1, <3>1 DEF TypeOK, Objects
      <4>4. k # job.pc
        BY <1>2, <2>2, <3>1, <4>1, <4>2, <4>3 DEF Mine, Swept
      <4>5. job.pc + 1 <= k
        BY <1>1, <2>1, <4>2, <4>4 DEF TypeOK, JobStates
      <4> QED
        BY <1>2, <2>1, <3>1, <3>3, <4>2, <4>5 DEF Ahead
    <3> QED
      BY <1>1, <3>2, <3>3 DEF Sweeping
  <2> QED
    BY <1>2, <2>2 DEF CleanupCovers
<1>6. LateIsPaidFor'
  BY <1>1, <1>2 DEF GatewayInvariant, LateIsPaidFor, Usable
<1>7. CancelIsAsked'
  BY <1>1, <1>2 DEF GatewayInvariant, CancelIsAsked, Overriding
<1>8. CleanSlate'
  BY <1>1, <1>2 DEF GatewayInvariant, CleanSlate, Left, Excused, Usable, Busy
<1>9. AnswerIsEarned'
  BY <1>2 DEF AnswerIsEarned
<1> QED
  BY <1>3, <1>4, <1>5, <1>6, <1>7, <1>8, <1>9 DEF GatewayInvariant

(* The end of the cleanup: everything is gone, or the gateway quarantined. *)
LEMMA FinishStep ==
  ASSUME GatewayInvariant, Finish
  PROVE  GatewayInvariant'
<1>1. /\ TypeOK /\ job.stage = "cleanup" /\ job.pc > Len(Sweeps)
      /\ UNCHANGED <<cancelled, expired, runs, crashes, objects, live, pending, tardy>>
  BY DEF GatewayInvariant, Finish, signals, daemon
<1>2. /\ Outcome \in Results
      /\ job.dirt # {} \/ job.work = "uncertain" => Outcome = "uncertain"
      /\ job.work = "error" => Outcome \in {"error", "uncertain"}
      /\ Outcome = "cancelled" => cancelled
      /\ Outcome = "exited" /\ Closing[job.vertical] = "override" => job.terminal = "none"
  BY <1>1, OutcomeIs DEF GatewayInvariant
<1>3. /\ job' \in JobStates /\ job'.stage = "answered" /\ job'.work = Outcome
      /\ job'.vertical = job.vertical /\ job'.terminal = job.terminal
  <2>1. PICK result \in Results : result = Outcome
    BY <1>2
  <2>2. job' = [job EXCEPT !.stage = "answered", !.work = result]
    BY <2>1 DEF Finish
  <2> QED
    BY <1>1, <2>1, <2>2 DEF TypeOK, JobStates
<1>4. /\ session' \in SessionStates /\ session'.since = session.since
      /\ session'.open = session.open /\ session'.sealed = session.sealed
      /\ session'.poisoned = session.poisoned
      /\ session'.quarantined = (session.quarantined \/ job.dirt # {})
  <2>1. session \in SessionStates /\ (session.quarantined \/ job.dirt # {}) \in BOOLEAN
    BY <1>1 DEF TypeOK, SessionStates
  <2>2. session' = [session EXCEPT !.quarantined = (session.quarantined \/ job.dirt # {})]
    BY DEF Finish
  <2> QED
    BY <2>1, <2>2 DEF SessionStates
<1>5. TypeOK'
  BY <1>1, <1>3, <1>4 DEF TypeOK
<1>6. RunsInOrder'
  BY <1>1, <1>3, <1>4 DEF GatewayInvariant, RunsInOrder
<1>7. WorkIsAdmitted'
  BY <1>1, <1>2, <1>3, <1>4 DEF GatewayInvariant, WorkIsAdmitted
<1>8. \A o \in objects : o[1] = runs /\ o \notin tardy => job.dirt # {}
  <2> SUFFICES ASSUME NEW o \in objects, o[1] = runs, o \notin tardy, Ahead(o[3])
               PROVE  FALSE
    BY <1>1 DEF GatewayInvariant, CleanupCovers, Busy
  <2>1. Sweeps \in Seq([on : STRING, volume : BOOLEAN, gated : BOOLEAN])
    BY <1>1, PlansAssumption DEF Sweeps, TypeOK, JobStates
  <2> QED
    BY <1>1, <2>1 DEF Ahead, TypeOK, JobStates
<1>9. CleanupCovers'
  BY <1>1, <1>3, <1>4, <1>8 DEF CleanupCovers, Busy
<1>10. LateIsPaidFor'
  BY <1>1, <1>2, <1>3, <1>4 DEF GatewayInvariant, LateIsPaidFor, Usable
<1>11. CancelIsAsked'
  BY <1>1, <1>3 DEF GatewayInvariant, CancelIsAsked
<1>12. CleanSlate'
  <2> SUFFICES ASSUME Usable', NEW o \in Left'  PROVE FALSE
    BY DEF CleanSlate
  <2>1. Usable /\ job.dirt = {} /\ o \in Left
    BY <1>1, <1>4 DEF Usable, Left, Excused
  <2>2. o[1] = runs /\ o \in tardy
    BY <1>8, <2>1 DEF GatewayInvariant, CleanSlate, Left
  <2> QED
    BY <1>1, <2>1, <2>2
       DEF GatewayInvariant, LateIsPaidFor, Left, Excused, TypeOK, SessionStates, RunsInOrder
<1>13. AnswerIsEarned'
  <2>1. ASSUME Outcome \notin {"error", "uncertain"}, NEW o \in objects \cup pending,
               o[1] = runs
        PROVE  o \in tardy
    BY <1>1, <1>2, <1>8, <2>1 DEF GatewayInvariant, LateIsPaidFor
  <2>2. Outcome = "exited" => ~session'.quarantined
    BY <1>1, <1>2, <1>4 DEF GatewayInvariant, WorkIsAdmitted
  <2> QED
    BY <1>1, <1>2, <1>3, <2>1, <2>2 DEF AnswerIsEarned
<1> QED
  BY <1>5, <1>6, <1>7, <1>9, <1>10, <1>11, <1>12, <1>13 DEF GatewayInvariant

(* The inspector between two runs.                                         *)
LEMMA NoJobIs ==
  /\ NoJob \in JobStates /\ NoJob.stage = "idle" /\ NoJob.terminal = "none"
<1>1. "cargo" \in AllVerticals /\ {} \in SUBSET {"containers", "volumes"}
  BY DEF AllVerticals
<1>2. "zero" \in Exits /\ "open" \in Results /\ 1 \in Nat \ {0}
  BY DEF Exits, Results
<1> QED
  BY <1>1, <1>2 DEF NoJob, JobStates

(* The inspector's own steps: the answer, the opening, the refusal and the *)
(* admission.                                                              *)
LEMMA AnswerStep ==
  ASSUME GatewayInvariant, Answer
  PROVE  GatewayInvariant'
<1>1. /\ TypeOK /\ job.stage = "answered" /\ job' = NoJob
      /\ cancelled' = FALSE /\ expired' = FALSE
      /\ UNCHANGED <<runs, crashes, objects, live, pending, tardy>>
  BY DEF GatewayInvariant, Answer, daemon
<1>2. /\ session' \in SessionStates /\ session'.since = session.since
      /\ session'.open = session.open /\ session'.poisoned = session.poisoned
      /\ session'.quarantined = session.quarantined
      /\ session'.sealed = (session.sealed \/ job.work = "uncertain")
  <2>1. PICK sealed \in BOOLEAN, calibrated \in {"no", "yes", "failed"} :
          /\ sealed = (session.sealed \/ job.work = "uncertain")
          /\ session' = [session EXCEPT !.sealed = sealed, !.calibrated = calibrated]
    <3>1. session.calibrated \in {"no", "yes", "failed"} /\ session.sealed \in BOOLEAN
      BY <1>1 DEF TypeOK, SessionStates
    <3> QED
      BY <3>1 DEF Answer
  <2>2. session \in SessionStates
    BY <1>1 DEF TypeOK
  <2> QED
    BY <2>1, <2>2 DEF SessionStates
<1>3. job'.stage = "idle" /\ job'.terminal = "none" /\ job' \in JobStates
  BY <1>1, NoJobIs
<1>4. TypeOK'
  BY <1>1, <1>2, <1>3 DEF TypeOK
<1>5. RunsInOrder' /\ WorkIsAdmitted' /\ CancelIsAsked'
  BY <1>1, <1>2, <1>3 DEF GatewayInvariant, RunsInOrder, WorkIsAdmitted, CancelIsAsked
<1>6. CleanupCovers' /\ AnswerIsEarned'
  BY <1>3 DEF CleanupCovers, AnswerIsEarned, Busy
<1>7. LateIsPaidFor' /\ CleanSlate'
  BY <1>1, <1>2, <1>3
     DEF GatewayInvariant, LateIsPaidFor, CleanSlate, Left, Excused, Usable, Busy
<1> QED
  BY <1>4, <1>5, <1>6, <1>7 DEF GatewayInvariant

LEMMA OpenStep ==
  ASSUME GatewayInvariant, Open
  PROVE  GatewayInvariant'
<1>1. /\ TypeOK /\ job.stage = "idle" /\ ~session.open
      /\ UNCHANGED <<job, cancelled, expired, runs, crashes, objects, live, pending, tardy>>
  BY DEF GatewayInvariant, Open, signals, daemon
<1>2. session \in SessionStates /\ runs \in Nat
  BY <1>1, BoundsAssumption DEF TypeOK
<1>3. /\ session' \in SessionStates
      /\ session'.since <= runs
      /\ ~session'.open \/ session'.since = runs
  <2>1. ASSUME session' = [session EXCEPT !.sealed = TRUE]
        PROVE  /\ session' \in SessionStates /\ ~session'.open
               /\ session'.since = session.since
    BY <1>1, <1>2, <2>1 DEF SessionStates
  <2>2. ASSUME session' = [session EXCEPT !.open = TRUE, !.since = runs]
        PROVE  session' \in SessionStates /\ session'.since = runs
    BY <1>2, <2>2 DEF SessionStates
  <2>3. session.since <= runs
    BY DEF GatewayInvariant, RunsInOrder
  <2> QED
    BY <1>2, <2>1, <2>2, <2>3 DEF Open
<1>4. TypeOK' /\ RunsInOrder' /\ WorkIsAdmitted' /\ CancelIsAsked'
  BY <1>1, <1>3
     DEF GatewayInvariant, TypeOK, RunsInOrder, WorkIsAdmitted, CancelIsAsked
<1>5. CleanupCovers' /\ AnswerIsEarned'
  BY <1>1 DEF CleanupCovers, AnswerIsEarned, Busy
<1>6. \A o \in objects \cup pending \cup tardy : o[1] <= runs /\ o[1] \in Nat
  BY <1>1 DEF GatewayInvariant, RunsInOrder, TypeOK, Objects
<1>7. LateIsPaidFor' /\ CleanSlate'
  BY <1>1, <1>2, <1>3, <1>6 DEF LateIsPaidFor, CleanSlate, Left, Usable
<1> QED
  BY <1>4, <1>5, <1>7 DEF GatewayInvariant

LEMMA RefuseStep ==
  ASSUME GatewayInvariant, Refuse
  PROVE  GatewayInvariant'
<1>1. /\ TypeOK /\ job.stage = "idle"
      /\ UNCHANGED <<job, cancelled, expired, runs, crashes, objects, live, pending, tardy>>
  BY DEF GatewayInvariant, Refuse, signals, daemon
<1>2. session' \in SessionStates /\ session'.since = session.since /\ session'.sealed
  BY <1>1 DEF Refuse, TypeOK, SessionStates
<1>3. TypeOK' /\ RunsInOrder' /\ WorkIsAdmitted' /\ CancelIsAsked'
  BY <1>1, <1>2
     DEF GatewayInvariant, TypeOK, RunsInOrder, WorkIsAdmitted, CancelIsAsked
<1>4. CleanupCovers' /\ AnswerIsEarned' /\ CleanSlate'
  BY <1>1, <1>2 DEF CleanupCovers, AnswerIsEarned, CleanSlate, Busy, Usable
<1>5. LateIsPaidFor'
  BY <1>1, <1>2 DEF LateIsPaidFor, Usable
<1> QED
  BY <1>3, <1>4, <1>5 DEF GatewayInvariant

LEMMA AdmitStep ==
  ASSUME GatewayInvariant, NEW v \in Verticals, Admit(v)
  PROVE  GatewayInvariant'
<1>1. TypeOK /\ job.stage = "idle" /\ Usable
  BY DEF GatewayInvariant, Admit
<1>2. PICK w \in AllVerticals, probing \in BOOLEAN : Start(w, probing)
  <2>1. v \in AllVerticals /\ "cargo" \in AllVerticals
    BY VerticalsAssumption DEF AllVerticals
  <2> QED
    BY <2>1 DEF Admit
<1>3. /\ runs < MaxRuns /\ runs' = runs + 1 /\ cancelled' = FALSE /\ expired' = FALSE
      /\ UNCHANGED <<session, crashes, objects, live, pending, tardy>>
  BY <1>2 DEF Start, daemon
<1>4. /\ job' \in JobStates /\ job'.stage = "work" /\ job'.vertical = w /\ job'.pc = 1
      /\ job'.work = "open" /\ job'.exit = "zero" /\ job'.terminal = "none"
  BY <1>2, NoJobIs DEF Start, NoJob, JobStates
<1>5. runs \in Nat /\ runs' \in 0..MaxRuns
  BY <1>1, <1>3, BoundsAssumption DEF TypeOK
<1>6. \A o \in objects \cup pending \cup tardy : o[1] < runs'
  BY <1>1, <1>3, <1>5 DEF GatewayInvariant, RunsInOrder, TypeOK, Objects
<1>7. TypeOK'
  BY <1>1, <1>3, <1>4, <1>5 DEF TypeOK
<1>8. RunsInOrder'
  BY <1>1, <1>3, <1>5, <1>6
     DEF GatewayInvariant, RunsInOrder, TypeOK, SessionStates, Objects
<1>9. WorkIsAdmitted'
  <2>1. Len(Work[w]) >= 1
    BY PlansAssumption
  <2>2. Len(Plan') >= 1
    BY <1>4, <2>1 DEF Plan
  <2> QED
    BY <1>1, <1>3, <1>4, <2>2 DEF WorkIsAdmitted, Usable
<1>10. CleanupCovers' /\ AnswerIsEarned' /\ CancelIsAsked'
  BY <1>3, <1>4, <1>5, <1>6, <1>8
     DEF CleanupCovers, AnswerIsEarned, CancelIsAsked, Busy, RunsInOrder
<1>11. LateIsPaidFor' /\ CleanSlate'
  <2>1. Usable' = Usable
    BY <1>3 DEF Usable
  <2>2. \A o \in objects : o \notin Left
    BY <1>1 DEF GatewayInvariant, CleanSlate, Busy, Left
  <2>3. Left' = Left
    BY <1>3 DEF Left, Excused
  <2>4. \A o \in pending : o[1] # runs'
    BY <1>5, <1>6, <1>7 DEF TypeOK, Objects
  <2> QED
    BY <1>3, <2>1, <2>2, <2>3, <2>4 DEF GatewayInvariant, LateIsPaidFor, CleanSlate, Left
<1> QED
  BY <1>7, <1>8, <1>9, <1>10, <1>11 DEF GatewayInvariant

(* The environment: signals, late creations, panics, kills.                *)
LEMMA SignalStep ==
  ASSUME GatewayInvariant, Cancel \/ Expire
  PROVE  GatewayInvariant'
<1>1. /\ cancelled' \in BOOLEAN /\ expired' \in BOOLEAN
      /\ cancelled => cancelled'
      /\ expired => expired'
      /\ UNCHANGED <<session, job, runs, crashes, objects, live, pending, tardy>>
  BY DEF Cancel, Expire, daemon, GatewayInvariant, TypeOK
<1>2. TypeOK' /\ RunsInOrder' /\ WorkIsAdmitted'
  BY <1>1 DEF GatewayInvariant, TypeOK, RunsInOrder, WorkIsAdmitted, Usable, Plan
<1>3. CleanupCovers' /\ LateIsPaidFor' /\ CleanSlate'
  BY <1>1 DEF GatewayInvariant, CleanupCovers, LateIsPaidFor, CleanSlate, Left, Excused,
              Usable, Busy, Ahead, Sweeps
<1>4. CancelIsAsked' /\ AnswerIsEarned'
  BY <1>1 DEF GatewayInvariant, CancelIsAsked, AnswerIsEarned, Overriding
<1> QED
  BY <1>2, <1>3, <1>4 DEF GatewayInvariant

LEMMA LateStep ==
  ASSUME GatewayInvariant, LateCommit
  PROVE  GatewayInvariant'
<1>1. PICK o \in pending : /\ pending' = pending \ {o}
                           /\ objects' = objects \cup {o} /\ tardy' = tardy \cup {o}
  BY DEF LateCommit
<1>2. UNCHANGED <<session, job, cancelled, expired, runs, crashes, live>>
  BY DEF LateCommit, signals
<1>3. TypeOK' /\ RunsInOrder' /\ WorkIsAdmitted' /\ CancelIsAsked'
  BY <1>1, <1>2 DEF GatewayInvariant, TypeOK, RunsInOrder, WorkIsAdmitted, Usable, Plan,
                    CancelIsAsked, Overriding
<1>4. CleanupCovers'
  BY <1>1, <1>2 DEF GatewayInvariant, CleanupCovers, Busy, Ahead, Sweeps
<1>5. LateIsPaidFor'
  BY <1>1, <1>2 DEF GatewayInvariant, LateIsPaidFor, Usable
<1>6. CleanSlate'
  <2> SUFFICES ASSUME Usable, NEW p \in Left'  PROVE Busy /\ p[1] = runs
    BY <1>2 DEF CleanSlate, Usable, Busy
  <2>1. CASE p \in Left
    BY <2>1 DEF GatewayInvariant, CleanSlate
  <2>2. CASE p \notin Left
    <3>1. p = o /\ p[2] \in FailsClosed /\ p[1] > session.since
      BY <1>1, <1>2, <2>2 DEF Left, Excused
    <3> QED
      BY <3>1 DEF GatewayInvariant, LateIsPaidFor, TypeOK, Objects, SessionStates
  <2> QED
    BY <2>1, <2>2
<1>7. AnswerIsEarned'
  BY <1>1, <1>2 DEF GatewayInvariant, AnswerIsEarned
<1> QED
  BY <1>3, <1>4, <1>5, <1>6, <1>7 DEF GatewayInvariant

(* A panic or a kill leaves no usable gateway behind.                      *)
LEMMA AbandonStep ==
  ASSUME GatewayInvariant, job' = NoJob, session' \in SessionStates, ~Usable',
         session'.since <= runs, session'.sealed => session.sealed,
         cancelled' \in BOOLEAN, expired' \in BOOLEAN, crashes' \in 0..MaxCrashes,
         runs' = runs, live' = live, tardy' = tardy,
         NEW made \in SUBSET Objects, \A o \in made : o[1] <= runs,
         objects' \subseteq objects \cup made, pending' \subseteq pending \cup made
  PROVE  GatewayInvariant'
<1>1. job' \in JobStates /\ job'.stage = "idle" /\ job'.terminal = "none"
  BY NoJobIs
<1>2. TypeOK'
  BY <1>1 DEF GatewayInvariant, TypeOK
<1>3. RunsInOrder' /\ WorkIsAdmitted' /\ CancelIsAsked'
  BY <1>1 DEF GatewayInvariant, RunsInOrder, WorkIsAdmitted, CancelIsAsked
<1>4. CleanupCovers' /\ LateIsPaidFor' /\ CleanSlate' /\ AnswerIsEarned'
  BY <1>1 DEF CleanupCovers, LateIsPaidFor, CleanSlate, AnswerIsEarned, Busy
<1> QED
  BY <1>2, <1>3, <1>4 DEF GatewayInvariant

LEMMA PanicStep ==
  ASSUME GatewayInvariant, Panic
  PROVE  GatewayInvariant'
<1>1. /\ job' = NoJob /\ session' = [session EXCEPT !.poisoned = TRUE]
      /\ UNCHANGED <<cancelled, expired, runs, crashes, objects, live, pending, tardy>>
  BY DEF Panic, signals, daemon
<1>2. /\ session' \in SessionStates /\ ~Usable' /\ session'.since = session.since
      /\ session'.sealed = session.sealed
  BY <1>1 DEF GatewayInvariant, TypeOK, SessionStates, Usable
<1>3. /\ session'.since <= runs /\ cancelled' \in BOOLEAN /\ expired' \in BOOLEAN
      /\ crashes' \in 0..MaxCrashes
  BY <1>1, <1>2 DEF GatewayInvariant, TypeOK, RunsInOrder
<1>4. /\ objects' \subseteq objects \cup {} /\ pending' \subseteq pending \cup {}
      /\ {} \in SUBSET Objects
  BY <1>1
<1> QED
  BY <1>1, <1>2, <1>3, <1>4, AbandonStep

LEMMA CrashStep ==
  ASSUME GatewayInvariant, Crash
  PROVE  GatewayInvariant'
<1>1. /\ job' = NoJob /\ session' = Closed /\ cancelled' = FALSE /\ expired' = FALSE
      /\ crashes' \in 0..MaxCrashes /\ runs' = runs
  BY BoundsAssumption DEF Crash, GatewayInvariant, TypeOK
<1>2. session' \in SessionStates /\ ~Usable' /\ session'.since = 0 /\ ~session'.sealed
  BY <1>1 DEF Closed, SessionStates, Usable
<1>3. runs \in Nat /\ TypeOK /\ RunsInOrder
  BY BoundsAssumption DEF GatewayInvariant, TypeOK
<1>4. \E made \in SUBSET Objects :
        /\ \A o \in made : o[1] <= runs
        /\ objects' \subseteq objects \cup made /\ pending' \subseteq pending \cup made
  <2>1. CASE At("make")
    <3>1. Lost(Mine(This.on)) /\ job.stage = "work"
      BY <2>1 DEF Crash, At
    <3>2. Mine(This.on) \in Objects /\ Mine(This.on)[1] = runs
      BY <3>1, MineIs DEF GatewayInvariant
    <3>3. {Mine(This.on)} \in SUBSET Objects /\ \A o \in {Mine(This.on)} : o[1] <= runs
      BY <1>3, <3>2
    <3>4. /\ objects' \subseteq objects \cup {Mine(This.on)}
          /\ pending' \subseteq pending \cup {Mine(This.on)}
      BY <3>1, LostIs
    <3> QED
      BY <3>3, <3>4
  <2>2. CASE ~At("make")
    <3>1. WITNESS {} \in SUBSET Objects
    <3> QED
      BY <2>2 DEF Crash, daemon
  <2> QED
    BY <2>1, <2>2
<1>5. live' = live /\ tardy' = tardy
  BY DEF Crash, Lost, daemon
<1>6. session'.since <= runs /\ cancelled' \in BOOLEAN /\ expired' \in BOOLEAN
  <2>1. 0 <= runs
    BY <1>3
  <2> QED
    BY <1>1, <1>2, <2>1
<1> QED
  BY <1>1, <1>2, <1>4, <1>5, <1>6, AbandonStep

LEMMA GatewayInductive == GatewayInvariant /\ [Next]_vars => GatewayInvariant'
<1> SUFFICES ASSUME GatewayInvariant, [Next]_vars  PROVE GatewayInvariant'
  OBVIOUS
<1>1. CASE Step
  BY <1>1, WorkStep, SweepStep, FinishStep, AnswerStep DEF Step
<1>2. CASE Open \/ Refuse \/ (\E v \in Verticals : Admit(v))
  BY <1>2, OpenStep, RefuseStep, AdmitStep
<1>3. CASE Cancel \/ Expire \/ LateCommit \/ Panic \/ Crash
  BY <1>3, SignalStep, LateStep, PanicStep, CrashStep
<1>4. CASE UNCHANGED vars
  BY <1>4 DEF vars, signals, daemon, GatewayInvariant, TypeOK, RunsInOrder, WorkIsAdmitted,
     CleanupCovers, LateIsPaidFor, CancelIsAsked, CleanSlate, AnswerIsEarned, Usable, Left,
     Excused, Busy, Ahead, Sweeps, Overriding, Plan
<1> QED
  BY <1>1, <1>2, <1>3, <1>4 DEF Next

(* Whatever the daemon answers and however often the server is killed, no  *)
(* run starts over what an earlier run of the session left.                *)
THEOREM CleanStart == Spec => []CleanSlate
<1>1. GatewayInvariant => CleanSlate
  BY DEF GatewayInvariant
<1> QED
  BY <1>1, GatewayInit, GatewayInductive, PTL DEF Spec

(* Session, run, signals and the daemon's objects keep their types: no     *)
(* reply, kill or panic brings the gateway into a state it does not know.  *)
THEOREM GatewayTypes == Spec => []TypeOK
<1>1. GatewayInvariant => TypeOK
  BY DEF GatewayInvariant
<1> QED
  BY <1>1, GatewayInit, GatewayInductive, PTL DEF Spec

(* An ordinary answer means that nothing of the run is left or will be,    *)
(* and a cancellation is the caller's.                                     *)
THEOREM HonestAnswers == Spec => []AnswerIsEarned
<1>1. GatewayInvariant => AnswerIsEarned
  BY DEF GatewayInvariant
<1> QED
  BY <1>1, GatewayInit, GatewayInductive, PTL DEF Spec

(* A quarantined or sealed gateway creates and starts nothing.             *)
LEMMA QuarantineIsKept ==
  ASSUME GatewayInvariant, [Next]_vars, session.quarantined \/ session.sealed
  PROVE  /\ objects' \subseteq objects \cup pending /\ live' \subseteq live
         /\ session'.quarantined \/ session'.sealed \/ crashes' > crashes
<1>1. /\ job.stage # "work" /\ ~Usable /\ session \in SessionStates
      /\ crashes \in Nat
  BY BoundsAssumption DEF GatewayInvariant, WorkIsAdmitted, Usable, TypeOK
<1>2. CASE Step
  <2>1. CASE Look \/ Take \/ Check
    BY <1>1, <2>1, SweepEffects DEF Sweeping, GatewayInvariant
  <2>2. CASE Finish \/ Answer
    <3>1. UNCHANGED <<objects, live>>
      BY <2>2 DEF Finish, Answer, daemon
    <3>2. session'.quarantined \/ session'.sealed
      BY <1>1, <2>2 DEF Finish, Answer, SessionStates
    <3> QED
      BY <3>1, <3>2
  <2> QED
    BY <1>1, <1>2, <2>1, <2>2
       DEF Step, CheckStop, Ask, Make, Launch, Attach, Detach, Judge, Rm, Listed, At
<1>3. CASE Open \/ Refuse
  <2>1. UNCHANGED <<objects, live>>
    BY <1>3 DEF Open, Refuse, daemon
  <2>2. session'.quarantined \/ session'.sealed
    BY <1>1, <1>3 DEF Open, Refuse, SessionStates
  <2> QED
    BY <2>1, <2>2
<1>4. CASE Cancel \/ Expire \/ LateCommit
  BY <1>4 DEF Cancel, Expire, LateCommit, daemon
<1>5. CASE Panic
  BY <1>1, <1>5 DEF Panic, daemon, SessionStates
<1>6. CASE Crash
  BY <1>1, <1>6 DEF Crash, At, daemon
<1>7. CASE UNCHANGED vars
  BY <1>7 DEF vars, daemon
<1> QED
  BY <1>1, <1>2, <1>3, <1>4, <1>5, <1>6, <1>7 DEF Next, Admit

(* A process works over nothing that an earlier one left: it opened over   *)
(* an empty daemon, and every run since has a later number.                *)
Replaced ==
  /\ Inherited = {}
  /\ job.stage # "idle" => session.since < runs

LEMMA ReplacedStep ==
  ASSUME GatewayInvariant, Replaced, [Next]_vars
  PROVE  Replaced'
<1>1. /\ session \in SessionStates /\ runs \in Nat /\ session.since \in Nat
      /\ session.since <= runs
  BY BoundsAssumption DEF GatewayInvariant, RunsInOrder, TypeOK, SessionStates
<1>2. CASE job.stage = "work" /\ (CheckStop \/ Ask \/ Make \/ Launch \/ Attach \/ Detach
             \/ Judge \/ Rm \/ Listed)
  <2>1. Effects
    BY <1>2, WorkEffects DEF Working, GatewayInvariant
  <2>2. session'.since = session.since
    BY <1>1, <2>1 DEF Effects, Quarantine, SessionStates
  <2>3. Mine(This.on)[1] = runs
    BY <1>2, MineIs DEF GatewayInvariant
  <2>4. QED
    BY <1>1, <1>2, <2>1, <2>2, <2>3 DEF Replaced, Inherited, Effects
<1>3. CASE Look \/ Take \/ Check
  BY <1>3, SweepEffects DEF Replaced, Inherited, Sweeping, GatewayInvariant
<1>4. CASE Finish \/ Answer \/ Refuse \/ Panic
  <2>1. session'.since = session.since /\ UNCHANGED <<runs, objects, tardy>>
    BY <1>1, <1>4 DEF Finish, Answer, Refuse, Panic, daemon, SessionStates
  <2>2. job'.stage # "idle" => job.stage # "idle"
    BY <1>4 DEF Finish, Answer, Refuse, Panic, NoJob
  <2>3. QED
    BY <2>1, <2>2 DEF Replaced, Inherited
<1>5. CASE Open
  <2>1. /\ objects = {} \/ session'.since = session.since
        /\ job.stage = "idle" /\ UNCHANGED <<job, objects, tardy>>
    BY <1>1, <1>5 DEF Open, daemon, SessionStates
  <2>2. QED
    BY <2>1 DEF Replaced, Inherited
<1>6. CASE \E v \in Verticals : Admit(v)
  <2>1. runs' = runs + 1 /\ UNCHANGED <<session, objects, tardy>>
    BY <1>6 DEF Admit, Start, daemon
  <2>2. QED
    BY <1>1, <2>1 DEF Replaced, Inherited
<1>7. CASE Cancel \/ Expire \/ LateCommit
  <2>1. /\ UNCHANGED <<session, job, runs>> /\ tardy \subseteq tardy'
        /\ objects' \subseteq objects \cup tardy'
    BY <1>7 DEF Cancel, Expire, LateCommit, daemon
  <2>2. QED
    BY <2>1 DEF Replaced, Inherited
<1>8. CASE Crash
  <2>1. GatewayInvariant'
    BY <1>8, CrashStep
  <2>2. session'.since = 0 /\ job'.stage = "idle"
    BY <1>8 DEF Crash, Closed, NoJob
  <2>3. \A o \in objects' : o[1] \in Nat \ {0}
    BY <2>1 DEF GatewayInvariant, TypeOK, Objects
  <2>4. QED
    BY <2>2, <2>3 DEF Replaced, Inherited
<1>9. CASE UNCHANGED vars
  BY <1>9 DEF vars, daemon, Replaced, Inherited
<1> QED
  BY <1>2, <1>3, <1>4, <1>5, <1>6, <1>7, <1>8, <1>9
     DEF Next, Step, CheckStop, Ask, Make, Launch, Attach, Detach, Judge, Rm, Listed, At

(* Once quarantined or sealed, a session creates and starts                *)
(* nothing more at the daemon until the process is replaced: every step    *)
(* that does is a step of an admitted run, and a gateway that works is not *)
(* quarantined.  The process that replaces it inherits nothing.            *)
THEOREM QuarantineHolds == Spec => QuarantineStopsWork
<1> DEFINE kept ==
      /\ session.quarantined \/ session.sealed =>
           /\ objects' \subseteq objects \cup pending /\ live' \subseteq live
           /\ session'.quarantined \/ session'.sealed \/ crashes' > crashes
      /\ Inherited # {} => objects' \subseteq objects \cup pending /\ live' \subseteq live
<1>1. GatewayInvariant /\ Replaced /\ [Next]_vars => [kept]_vars
  BY QuarantineIsKept DEF Replaced
<1>2. QuarantineStopsWork <=> [][kept]_vars
  BY DEF QuarantineStopsWork
<1>3. Init => Replaced
  BY DEF Init, Replaced, Inherited, NoJob
<1> HIDE DEF kept
<1> QED
  BY <1>1, <1>2, <1>3, GatewayInit, GatewayInductive, ReplacedStep, PTL DEF Spec

-----------------------------------------------------------------------------
(* No writer is left beside the project's code: every container that is    *)
(* there was made by a call the plan has not undone.                       *)
Standing ==
  /\ \A o \in live : o[1] <= runs
  /\ job.stage = "work" =>
       /\ \A o \in objects \cup live :
            o[1] = runs => o[2] = job.vertical /\ Stands(Plan, o[3], job.pc)
       /\ \A o \in pending : o[1] # runs

(* Also of what may still appear.                                          *)
KeptApart ==
  \A o \in live, p \in objects \cup pending : p[1] = o[1] => Apart(o[3], p[3])

WriterInvariant == GatewayInvariant /\ Standing /\ KeptApart

(* The three parts of an object's name.                                    *)
LEMMA ObjectIs ==
  /\ \A o \in Objects : o = <<o[1], o[2], o[3]>> /\ o[1] \in Nat /\ o[3] \in Roles
  /\ \A role : LET o == Mine(role)
               IN  o[1] = runs /\ o[2] = job.vertical /\ o[3] = role
<1>1. MaxRuns \in Nat
  BY BoundsAssumption
<1>2. QED
  BY <1>1 DEF Objects, Mine

(* What stands before a call that does not remove it stands after it,      *)
(* also when the call jumps.                                               *)
LEMMA StandsOn ==
  ASSUME NEW plan, NEW role, NEW k \in Nat \ {0}, NEW skip \in Nat,
         skip = 0 \/ skip = plan[k].skip,
         Stands(plan, role, k),
         plan[k].call # "rm" \/ plan[k].on # role
  PROVE  Stands(plan, role, k + skip + 1)
<1>1. PICK j \in 1..k - 1 :
        /\ plan[j].call = "make" /\ plan[j].on = role
        /\ \A m \in j + 1..k - 1 :
             plan[m].call = "rm" /\ plan[m].on = role =>
               \E b \in j + 1..m - 1 : b + plan[b].skip >= m
  BY DEF Stands
<1>2. j \in 1..(k + skip + 1) - 1
  OBVIOUS
<1>3. ASSUME NEW m \in j + 1..(k + skip + 1) - 1, plan[m].call = "rm", plan[m].on = role
      PROVE  \E b \in j + 1..m - 1 : b + plan[b].skip >= m
  <2>1. CASE m < k
    BY <1>1, <1>3, <2>1
  <2>2. CASE m > k
    <3>1. k \in j + 1..m - 1 /\ skip = plan[k].skip /\ k + skip >= m
      BY <1>3, <2>2
    <3>2. QED
      BY <3>1
  <2>3. QED
    BY <1>3, <2>1, <2>2
<1>4. QED
  BY <1>1, <1>2, <1>3 DEF Stands

(* What a call makes stands after it.                                      *)
LEMMA MadeStands ==
  ASSUME NEW plan, NEW k \in Nat \ {0}, plan[k].call = "make"
  PROVE  Stands(plan, plan[k].on, k + 1)
<1>1. k \in 1..(k + 1) - 1 /\ k + 1..(k + 1) - 1 = {}
  OBVIOUS
<1>2. QED
  BY <1>1 DEF Stands

(* A call of the work leads to the next, or past a block, or stays.        *)
Leads(skips) ==
  \/ job'.stage # "work"
  \/ /\ job'.stage = "work" /\ job'.vertical = job.vertical
     /\ \E skip \in skips : job'.pc = job.pc + skip + 1

LEMMA GoingLeads ==
  ASSUME Working, NEW skip \in Nat, NEW exit \in Exits,
         job' = Going(skip) \/ job' = [Going(skip) EXCEPT !.exit = exit]
  PROVE  Leads({skip})
<1>1. CASE Going(skip) = Ends("exited")
  <2>1. Going(skip) \in JobStates /\ Going(skip).stage = "cleanup"
    BY <1>1, EndsIs DEF Results
  <2>2. job'.stage = "cleanup"
    <3>1. CASE job' = Going(skip)
      BY <2>1, <3>1
    <3>2. CASE job' = [Going(skip) EXCEPT !.exit = exit]
      BY <2>1, <3>2, ExitedIs DEF Exited, SameOutcome
    <3>3. QED
      BY <3>1, <3>2
  <2>3. QED
    BY <2>2 DEF Leads
<1>2. CASE Going(skip) = [job EXCEPT !.pc = @ + skip + 1, !.sub = "look"]
  <2>1. job \in JobStates
    BY DEF Working, TypeOK
  <2>2. PICK pc \in Nat \ {0} : pc = job.pc + skip + 1
    BY <2>1 DEF JobStates
  <2>3. Going(skip) = Stepped(job, pc)
    BY <1>2, <2>2 DEF Stepped
  <2>4. LET k == Going(skip)
        IN  k \in JobStates /\ SameOutcome(k, job) /\ k.pc = pc
    BY <2>1, <2>3, SteppedIs
  <2>5. SameOutcome(job', job) /\ job'.pc = pc
    <3>1. CASE job' = Going(skip)
      BY <2>4, <3>1
    <3>2. CASE job' = [Going(skip) EXCEPT !.exit = exit]
      BY <2>4, <3>2, ExitedIs DEF Exited, SameOutcome, SameRun
    <3>3. QED
      BY <3>1, <3>2
  <2>6. QED
    BY <2>2, <2>5 DEF Leads, Working, SameOutcome, SameRun
<1>3. QED
  BY <1>1, <1>2 DEF Going

LEMMA EndLeads ==
  ASSUME Working, NEW result \in Results, End(result)
  PROVE  job'.stage = "cleanup"
BY WorkEnds DEF End, Ending

LEMMA FailLeads == Working /\ Fail => job'.stage = "cleanup"
<1>1. Failures \subseteq Results
  BY DEF Failures, Results
<1>2. QED
  BY <1>1, EndLeads DEF Fail

(* The places a call is followed by, whether it is answered or not; the    *)
(* start of a phase stays where it is.                                     *)
LEMMA WorkLeads ==
  ASSUME Working, [Next]_vars,
         CheckStop \/ Ask \/ Make \/ Launch \/ Detach \/ Judge \/ Rm \/ Listed
  PROVE  /\ Leads({0, This.skip})
         /\ ~Judge => Leads({0})
<1>1. 0 \in Nat /\ This.skip \in Nat /\ {"error", "uncertain", "exited"} \subseteq Results
  BY CallOfPlan DEF Calls, Results
<1>2. ASSUME job'.stage = "cleanup"  PROVE Leads({0})
  BY <1>2 DEF Leads
<1>3. ASSUME Go  PROVE Leads({0})
  BY <1>1, <1>3, GoingLeads DEF Go, Exits
<1>4. Leads({0}) => Leads({0, This.skip})
  BY DEF Leads
<1>5. ASSUME ~Judge  PROVE Leads({0})
  <2>1. CASE CheckStop
    <3>1. Signal # "none" => Signal \in Results
      BY SignalIs DEF Working, Results
    <3>2. QED
      BY <1>1, <1>2, <1>3, <2>1, <3>1, EndLeads DEF CheckStop
  <2>2. CASE Ask \/ Make \/ Launch \/ Rm \/ Listed
    BY <1>1, <1>2, <1>3, <2>2, EndLeads, FailLeads DEF Ask, Make, Launch, Rm, Listed
  <2>3. CASE Detach
    <3>1. Stops \cup {"zero", "nonzero"} \subseteq Exits
      BY DEF Stops, Exits
    <3>2. CASE \E exit \in Exits : job' = [Going(0) EXCEPT !.exit = exit]
      BY <1>1, <3>2, GoingLeads
    <3>3. CASE End("error") \/ End("uncertain")
      BY <1>1, <1>2, <3>3, EndLeads
    <3>4. QED
      BY <2>3, <3>1, <3>2, <3>3 DEF Detach
  <2>4. QED
    BY <1>5, <2>1, <2>2, <2>3
<1>6. ASSUME Judge  PROVE Leads({0, This.skip})
  <2>1. \/ Go \/ End("exited") \/ End("error")
        \/ \E result \in Results : End(result)
        \/ \E skip \in {0, This.skip} : job' = Going(skip)
    <3>1. job.exit \in Exits
      BY DEF Working, TypeOK, JobStates
    <3>2. job.exit \notin {"zero", "nonzero"} => job.exit \in Results
      BY <3>1 DEF Exits, Results
    <3>3. CASE At("verdict")
      BY <1>1, <1>6, <3>2, <3>3 DEF Judge, Follow, At
    <3>4. CASE ~At("verdict")
      BY <1>6, <3>4 DEF Judge
    <3>5. QED
      BY <3>3, <3>4
  <2>2. ASSUME NEW skip \in {0, This.skip}, job' = Going(skip)
        PROVE  Leads({0, This.skip})
    <3>1. Leads({skip})
      BY <1>1, <2>2, GoingLeads DEF Exits
    <3>2. QED
      BY <3>1 DEF Leads
  <2>3. QED
    BY <1>1, <1>2, <1>3, <1>4, <1>6, <2>1, <2>2, EndLeads
<1>7. QED
  BY <1>4, <1>5, <1>6

(* What stands at a call stands where the call leads, unless the call      *)
(* removes it.                                                             *)
LEMMA LeadsOn ==
  ASSUME Working, Leads({0}) \/ Leads({0, This.skip}), job'.stage = "work", NEW role, Stands(Plan, role, job.pc),
         This.call # "rm" \/ This.on # role
  PROVE  job'.vertical = job.vertical /\ Stands(Plan', role, job'.pc)
<1>1. PICK skip \in {0, This.skip} : job'.pc = job.pc + skip + 1
  BY DEF Leads
<1>2. Plan' = Plan /\ job.pc \in Nat \ {0} /\ This = Plan[job.pc]
  BY DEF Leads, Plan, Working, TypeOK, JobStates, This
<1>3. Stands(Plan, role, job.pc + skip + 1)
  BY <1>1, <1>2, CallOfPlan, StandsOn DEF Calls
<1>4. QED
  BY <1>1, <1>2, <1>3 DEF Leads

(* The calls of the work.                                                  *)
LEMMA WriterWork ==
  ASSUME WriterInvariant, Next, job.stage = "work",
         CheckStop \/ Ask \/ Make \/ Launch \/ Attach \/ Detach \/ Judge \/ Rm \/ Listed
  PROVE  Standing' /\ KeptApart'
<1>1. Working /\ RunsInOrder /\ TypeOK
  BY DEF WriterInvariant, GatewayInvariant, Working
<1>2. Ordered(Plan) /\ job.pc \in DOMAIN Plan /\ This = Plan[job.pc]
  BY <1>1, CallOfPlan, OrderAssumption DEF Plan, This, Working, TypeOK, JobStates
<1>3. /\ Mine(This.on) \in Objects /\ Mine(This.on)[1] = runs
      /\ Mine(This.on)[2] = job.vertical /\ Mine(This.on)[3] = This.on
  BY <1>1, MineIs DEF Working
<1>4. /\ \A o \in live : o[1] <= runs
      /\ \A o \in objects \cup live :
           o[1] = runs => o[2] = job.vertical /\ Stands(Plan, o[3], job.pc)
      /\ \A o \in pending : o[1] # runs
  BY DEF WriterInvariant, Standing
<1>5. \A o \in objects \cup live \cup pending : o \in Objects
  BY <1>1 DEF TypeOK
<1>6. \A o \in objects \cup live : o[1] = runs => o[3] \in Roles
  BY <1>5, ObjectIs
<1>7. [Next]_vars /\ UNCHANGED runs
  BY <1>1, WorkEffects DEF Effects
<1>8. KeptApart
  BY DEF WriterInvariant
<1>9. ASSUME UNCHANGED live \/ live' \subseteq live, UNCHANGED pending \/ pending' \subseteq pending,
             objects' \subseteq objects, Leads({0, This.skip}), This.call # "rm"
      PROVE  Standing' /\ KeptApart'
  <2>1. Standing'
    BY <1>1, <1>4, <1>7, <1>9, LeadsOn, CallOfPlan DEF Standing, Leads, Calls
  <2>2. KeptApart'
    BY <1>8, <1>9 DEF KeptApart
  <2>3. QED
    BY <2>1, <2>2
<1>10. CASE CheckStop \/ Ask \/ Judge \/ Listed
  <2>1. UNCHANGED <<live, pending, objects>> /\ This.call # "rm"
    BY <1>10 DEF CheckStop, Ask, Judge, Listed, daemon, At
  <2>2. QED
    BY <1>1, <1>7, <1>9, <1>10, <2>1, WorkLeads
<1>11. CASE Detach
  <2>1. UNCHANGED <<pending, objects>> /\ live' \subseteq live /\ This.call # "rm"
    BY <1>11 DEF Detach, At
  <2>2. QED
    BY <1>1, <1>7, <1>9, <1>11, <2>1, WorkLeads
<1>12. CASE Rm
  <2>1. /\ UNCHANGED pending /\ objects' \subseteq objects /\ live' \subseteq live
        /\ This.call = "rm"
    BY <1>12 DEF Rm, Gone, daemon, At
  <2>2. job'.stage = "work" => Mine(This.on) \notin objects' \cup live'
    BY <1>1, <1>12, EndLeads, FailLeads DEF Rm, Gone, Results
  <2>3. ASSUME NEW o \in objects' \cup live', o[1] = runs, job'.stage = "work"
        PROVE  o[2] = job'.vertical /\ Stands(Plan', o[3], job'.pc)
    <3>1. o[2] = job.vertical /\ Stands(Plan, o[3], job.pc) /\ o = <<o[1], o[2], o[3]>>
      BY <1>4, <1>5, <2>1, <2>3, ObjectIs
    <3>2. This.on # o[3]
      BY <2>2, <2>3, <3>1 DEF Mine
    <3>3. Leads({0})
      BY <1>1, <1>7, <1>12, <2>1, WorkLeads DEF Judge, At
    <3>4. QED
      BY <1>1, <2>3, <3>1, <3>2, <3>3, LeadsOn DEF Leads
  <2>4. QED
    BY <1>4, <1>7, <1>8, <2>1, <2>3 DEF Standing, KeptApart
<1>13. CASE Make
  <2>1. UNCHANGED live /\ This.call = "make"
    BY <1>13, LostIs DEF Make, At, daemon
  <2>2. /\ objects' \subseteq objects \cup {Mine(This.on)}
        /\ pending' \subseteq pending \cup {Mine(This.on)}
        /\ job'.stage = "work" => UNCHANGED pending
    BY <1>1, <1>13, LostIs, EndLeads, FailLeads DEF Make, daemon, Results
  <2>3. KeptApart'
    <3>1. ASSUME NEW o \in live, o[1] = runs  PROVE Apart(o[3], This.on)
      BY <1>2, <1>4, <1>6, <2>1, <3>1 DEF Ordered
    <3>2. QED
      BY <1>3, <1>8, <2>1, <2>2, <3>1 DEF KeptApart
  <2>4. Leads({0})
    BY <1>1, <1>7, <1>13, <2>1, WorkLeads DEF Judge, At
  <2>5. ASSUME job'.stage = "work"  PROVE Stands(Plan', This.on, job'.pc)
    <3>1. Stands(Plan, This.on, job.pc + 1)
      BY <1>1, <1>2, <2>1, MadeStands DEF Working, TypeOK, JobStates
    <3>2. job'.pc = job.pc + 1 /\ Plan' = Plan
      BY <1>1, <2>4, <2>5 DEF Leads, Plan, Working, TypeOK, JobStates
    <3>3. QED
      BY <3>1, <3>2
  <2>6. Standing'
    <3>1. ASSUME NEW o \in objects' \cup live', o[1] = runs, job'.stage = "work"
          PROVE  o[2] = job'.vertical /\ Stands(Plan', o[3], job'.pc)
      <4>1. CASE o = Mine(This.on)
        BY <1>3, <2>4, <2>5, <3>1, <4>1 DEF Leads
      <4>2. CASE o # Mine(This.on)
        BY <1>1, <1>4, <2>1, <2>2, <2>4, <3>1, <4>2, LeadsOn DEF Leads
      <4>3. QED
        BY <4>1, <4>2
    <3>2. QED
      BY <1>4, <1>7, <2>1, <2>2, <3>1 DEF Standing
  <2>7. QED
    BY <2>3, <2>6
<1>14. CASE Launch \/ Attach
  <2>1. /\ UNCHANGED <<objects, pending>> /\ This.call \in {"launch", "attach"}
        /\ live' \subseteq live \cup {Mine(This.on)}
    BY <1>14 DEF Launch, Attach, At
  <2>2. /\ Stands(Plan, This.on, job.pc)
        /\ \A role \in Roles : Stands(Plan, role, job.pc) => Apart(This.on, role)
    BY <1>2, <2>1 DEF Ordered
  <2>3. KeptApart'
    BY <1>3, <1>4, <1>6, <1>8, <2>1, <2>2 DEF KeptApart
  <2>4. ASSUME NEW o \in objects' \cup live', o[1] = runs
        PROVE  o[2] = job.vertical /\ Stands(Plan, o[3], job.pc)
    BY <1>3, <1>4, <2>1, <2>2, <2>4
  <2>5. \A o \in live' : o[1] <= runs
    BY <1>1, <1>3, <1>4, <2>1, BoundsAssumption DEF TypeOK
  <2>6. CASE Launch \/ job'.stage # "work"
    <3>1. Leads({0})
      BY <1>1, <1>7, <2>1, <2>6, WorkLeads DEF Judge, At, Leads
    <3>2. Standing'
      BY <1>1, <1>4, <1>7, <2>1, <2>4, <2>5, <3>1, LeadsOn DEF Standing, Leads
    <3>3. QED
      BY <2>3, <3>2
  <2>7. CASE Attach /\ job'.stage = "work"
    <3>1. job' = [job EXCEPT !.sub = "running"]
      BY <1>1, <2>7, FailLeads DEF Attach
    <3>2. job'.pc = job.pc /\ job'.vertical = job.vertical
      BY <1>1, <3>1 DEF Working, TypeOK, JobStates
    <3>3. Plan' = Plan
      BY <3>2 DEF Plan
    <3>4. Standing'
      BY <1>4, <1>7, <2>1, <2>4, <2>5, <3>2, <3>3 DEF Standing
    <3>5. QED
      BY <2>3, <3>4
  <2>8. QED
    BY <1>14, <2>6, <2>7
<1>15. QED
  BY <1>10, <1>11, <1>12, <1>13, <1>14

(* Every other step only takes away, lets a creation that was given up     *)
(* happen, or begins a run that has made nothing.                          *)
LEMMA WriterElse ==
  ASSUME WriterInvariant, [Next]_vars,
         ~(job.stage = "work" /\ (CheckStop \/ Ask \/ Make \/ Launch \/ Attach \/ Detach
                                    \/ Judge \/ Rm \/ Listed))
  PROVE  Standing' /\ KeptApart'
<1>1. TypeOK /\ RunsInOrder /\ Standing /\ KeptApart
  BY DEF WriterInvariant, GatewayInvariant
<1>2. ASSUME UNCHANGED runs, live' \subseteq live,
             objects' \cup pending' \subseteq objects \cup pending, job'.stage # "work"
      PROVE  Standing' /\ KeptApart'
  BY <1>1, <1>2 DEF Standing, KeptApart
<1>3. CASE Look \/ Take \/ Check
  <2>1. Sweeping
    BY <1>1, <1>3, SweepEffects
  <2>2. QED
    BY <1>2, <2>1 DEF Sweeping
<1>4. CASE Finish \/ Answer
  <2>1. job'.stage # "work"
    BY <1>1, <1>4, NoJobIs DEF Finish, Answer, TypeOK, JobStates
  <2>2. UNCHANGED <<runs, live, objects, pending>>
    BY <1>4 DEF Finish, Answer, daemon
  <2>3. QED
    BY <1>2, <2>1, <2>2
<1>5. CASE Open \/ Refuse
  BY <1>1, <1>5 DEF Open, Refuse, daemon, Standing, KeptApart
<1>6. CASE \E v \in Verticals : Admit(v)
  <2>1. runs' = runs + 1 /\ UNCHANGED <<live, objects, pending>>
    BY <1>6 DEF Admit, Start, daemon
  <2>2. runs \in Nat
    BY <1>1, BoundsAssumption DEF TypeOK
  <2>3. \A o \in objects \cup live \cup pending : o[1] \in Nat /\ o[1] <= runs
    BY <1>1, ObjectIs DEF TypeOK, RunsInOrder, Standing
  <2>4. \A o \in objects \cup live \cup pending : o[1] # runs'
    BY <2>1, <2>2, <2>3
  <2>5. \A o \in live : o[1] <= runs'
    BY <2>1, <2>2, <2>3
  <2>6. QED
    BY <1>1, <2>1, <2>4, <2>5 DEF Standing, KeptApart
<1>7. CASE Cancel \/ Expire \/ UNCHANGED vars
  BY <1>1, <1>7 DEF Cancel, Expire, vars, daemon, Standing, KeptApart, Plan
<1>8. CASE LateCommit
  <2>1. PICK o \in pending : pending' = pending \ {o} /\ objects' = objects \cup {o}
    BY <1>8 DEF LateCommit
  <2>2. UNCHANGED <<job, runs, live>>
    BY <1>8 DEF LateCommit
  <2>3. QED
    BY <1>1, <2>1, <2>2 DEF Standing, KeptApart, Plan
<1>9. CASE Panic
  BY <1>2, <1>9, NoJobIs DEF Panic, daemon
<1>10. CASE Crash /\ ~At("make")
  BY <1>2, <1>10, NoJobIs DEF Crash, daemon
<1>11. CASE Crash /\ At("make")
  <2>1. /\ job'.stage # "work" /\ UNCHANGED runs /\ Lost(Mine(This.on))
        /\ job.stage = "work" /\ This.call = "make"
    BY <1>11, NoJobIs DEF Crash, At
  <2>2. /\ objects' \cup pending' \subseteq objects \cup pending \cup {Mine(This.on)}
        /\ live' = live
    BY <2>1, LostIs
  <2>3. Working
    BY <2>1 DEF WriterInvariant, GatewayInvariant, Working
  <2>4. Ordered(Plan) /\ job.pc \in DOMAIN Plan /\ This = Plan[job.pc]
    BY <2>3, CallOfPlan, OrderAssumption DEF Plan, This
  <2>5. ASSUME NEW o \in live, o[1] = runs  PROVE Apart(o[3], This.on)
    <3>1. Stands(Plan, o[3], job.pc) /\ o[3] \in Roles
      BY <1>1, <2>1, <2>5, ObjectIs DEF Standing, TypeOK
    <3>2. QED
      BY <2>1, <2>4, <3>1 DEF Ordered
  <2>6. KeptApart'
    BY <1>1, <2>2, <2>5, ObjectIs DEF KeptApart
  <2>7. QED
    BY <1>1, <2>1, <2>2, <2>6 DEF Standing
<1>12. QED
  BY <1>3, <1>4, <1>5, <1>6, <1>7, <1>8, <1>9, <1>10, <1>11
     DEF Next, Step, CheckStop, Ask, Make, Launch, Attach, Detach, Judge, Rm, Listed, At

LEMMA WriterInductive == WriterInvariant /\ [Next]_vars => WriterInvariant'
<1> SUFFICES ASSUME WriterInvariant, [Next]_vars  PROVE WriterInvariant'
  OBVIOUS
<1>1. GatewayInvariant'
  BY GatewayInductive DEF WriterInvariant
<1>2. CASE job.stage = "work" /\ (CheckStop \/ Ask \/ Make \/ Launch \/ Attach \/ Detach
                                    \/ Judge \/ Rm \/ Listed)
  <2>1. Next
    BY <1>2 DEF Next, Step
  <2>2. QED
    BY <1>1, <1>2, <2>1, WriterWork DEF WriterInvariant
<1>3. QED
  BY <1>1, <1>2, WriterElse DEF WriterInvariant

(* Nothing that writes a volume is beside the project's code, and nothing  *)
(* of the project's beside an exporter, in any run of a kind whose plan is *)
(* ordered, whatever the daemon loses, delays or refuses.                  *)
THEOREM WritersAreAlone == Spec => []SoleWriter
<1>1. Init => WriterInvariant
  BY GatewayInit DEF WriterInvariant, Init, Standing, KeptApart, NoJob
<1>2. WriterInvariant => SoleWriter
  BY DEF WriterInvariant, KeptApart, SoleWriter
<1>3. QED
  BY <1>1, <1>2, WriterInductive, PTL DEF Spec
=============================================================================
