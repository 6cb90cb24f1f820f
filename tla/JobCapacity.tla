----------------------------- MODULE JobCapacity -----------------------------
(***************************************************************************)
(* What the background jobs promise, without saying how: one slot of       *)
(* execution capacity, tasks that settle once, and a slot that is given    *)
(* back only when nothing its holder started still runs.                   *)
(***************************************************************************)
CONSTANT Jobs

VARIABLES
  task,      (* what a client can learn about each task                    *)
  holder,    (* the jobs that hold the slot                                *)
  running    (* the jobs whose processes exist                             *)

absVars == <<task, holder, running>>

Outcomes == {"completed", "failed", "cancelled"}

AbsTypeOK ==
  /\ task \in [Jobs -> {"none", "working", "gone"} \cup Outcomes]
  /\ holder \in SUBSET Jobs
  /\ running \in SUBSET Jobs

AbsInit ==
  /\ task = [j \in Jobs |-> "none"]
  /\ holder = {}
  /\ running = {}

(* One job at a time, without a queue.                                     *)
Accept(j) ==
  /\ task[j] = "none"
  /\ holder = {}
  /\ \A k \in Jobs : task[k] # "working"
  /\ task' = [task EXCEPT ![j] = "working"]
  /\ holder' = {j}
  /\ UNCHANGED running

Run(j) ==
  /\ j \in holder
  /\ running = {}
  /\ running' = {j}
  /\ UNCHANGED <<task, holder>>

Stop(j) ==
  /\ running' = running \ {j}
  /\ UNCHANGED <<task, holder>>

(* A task settles as completed or cancelled only when its processes are    *)
(* gone; a failure may be declared over processes nobody could remove.     *)
Settle(j, outcome) ==
  /\ task[j] = "working"
  /\ outcome = "failed" \/ j \notin running
  /\ task' = [task EXCEPT ![j] = outcome]
  /\ UNCHANGED <<holder, running>>

GiveBack(j) ==
  /\ j \in holder
  /\ j \notin running
  /\ task[j] # "working"
  /\ holder' = holder \ {j}
  /\ UNCHANGED <<task, running>>

Expire(j) ==
  /\ task[j] \in Outcomes
  /\ task' = [task EXCEPT ![j] = "gone"]
  /\ UNCHANGED <<holder, running>>

AbsNext ==
  \E j \in Jobs :
    \/ Accept(j)
    \/ Run(j)
    \/ Stop(j)
    \/ \E outcome \in Outcomes : Settle(j, outcome)
    \/ GiveBack(j)
    \/ Expire(j)

AbsSpec == AbsInit /\ [][AbsNext]_absVars

(* Capacity is never given to two jobs, and what runs always holds it.     *)
AbsSafe ==
  /\ \A a, b \in holder : a = b
  /\ running \subseteq holder
=============================================================================
