--------------------------- MODULE AtomicWorkspace ---------------------------
(***************************************************************************)
(* What the mutation journal promises: a reviewed mutation applies to all  *)
(* its files in one step or to none, one mutation at a time, and only to   *)
(* the workspace it was reviewed against.                                  *)
(***************************************************************************)
EXTENDS Naturals

CONSTANTS Mutations, FileCount, Touches

VARIABLES
  world,       (* the bytes of every file                                  *)
  plan,        (* the bytes a mutation was reviewed against                *)
  outcome      (* where a mutation stands                                  *)

Bytes == Mutations \cup {"base"}
NoPlan == [f \in 1 .. FileCount |-> "none"]
Result(m) == [f \in 1 .. FileCount |-> IF f \in Touches[m] THEN m ELSE plan[m][f]]

Init ==
  /\ world = [f \in 1 .. FileCount |-> "base"]
  /\ plan = [m \in Mutations |-> NoPlan]
  /\ outcome = [m \in Mutations |-> "none"]

(* Readers are not isolated: a preview may see a half-applied mutation. It *)
(* is worth something only if the whole workspace still equals it later.   *)
Review(m) ==
  /\ plan[m] = NoPlan
  /\ \E seen \in [1 .. FileCount -> Bytes] : plan' = [plan EXCEPT ![m] = seen]
  /\ UNCHANGED <<world, outcome>>

Begin(m) ==
  /\ plan[m] # NoPlan
  /\ outcome[m] = "none"
  /\ \A n \in Mutations : outcome[n] \notin {"pending", "applied"}
  /\ outcome' = [outcome EXCEPT ![m] = "pending"]
  /\ UNCHANGED <<world, plan>>

Apply(m) ==
  /\ outcome[m] = "pending"
  /\ world = plan[m]
  /\ world' = Result(m)
  /\ outcome' = [outcome EXCEPT ![m] = "applied"]
  /\ UNCHANGED plan

(* An applied mutation can only be finished, a pending one only undone.    *)
Settle(m) ==
  /\ \/ outcome[m] = "applied" /\ outcome' = [outcome EXCEPT ![m] = "committed"]
     \/ /\ outcome[m] = "pending"
        /\ outcome' = [outcome EXCEPT ![m] = IF Touches[m] = {} THEN "no_change"
                                             ELSE "aborted"]
  /\ UNCHANGED <<world, plan>>

Forget(m) ==
  /\ outcome[m] \in {"committed", "aborted", "no_change"}
  /\ outcome' = [outcome EXCEPT ![m] = "none"]
  /\ UNCHANGED <<world, plan>>

Next == \E m \in Mutations : Review(m) \/ Begin(m) \/ Apply(m) \/ Settle(m) \/ Forget(m)
Spec == Init /\ [][Next]_<<world, plan, outcome>>

=============================================================================
