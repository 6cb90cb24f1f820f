-------------------------- MODULE GatewayProperties --------------------------
(***************************************************************************)
(* What the sandbox gateway promises, whatever the daemon answers.         *)
(***************************************************************************)
EXTENDS ExecutionGateway

Excused == {o \in tardy : o[2] \notin FailsClosed}
Left == {o \in objects : o[1] > session.since /\ o \notin Excused}

(* No run begins, and none can, over what an earlier run of the session    *)
(* left behind: as long as the gateway is neither quarantined nor poisoned *)
(* every object that is there was made by the run in progress, or, by a    *)
(* run that does not fail closed, after the gateway had stopped waiting    *)
(* for it (rust_gateway.rs:1901, mutation_gateway.rs:106).                 *)
CleanSlate ==
  Usable => \A o \in Left : Busy /\ o[1] = runs

(* Nothing that writes a volume is left beside the project's code, and     *)
(* nothing of the project's is left beside an exporter ("No source writer  *)
(* remains while untrusted code executes", rust_gateway.rs:2552,           *)
(* nextest_gateway.rs:285).                                                *)
Untrusted == {"run", "mutator", "resolve", "frozen", "build", "list", "analyzer"}
Inputs == {"ingest", "ingest baseline", "vendor ingest", "policy ingest",
           "config ingest", "metadata ingest"}
Exporters == {"export", "export outcomes", "export lock", "export bundle",
              "json export", "lcov export", "html export"}
Apart(role, beside) ==
  /\ role \in Untrusted => beside \notin Inputs
  /\ role \in Exporters => beside \notin Untrusted
SoleWriter ==
  \A o \in live, p \in objects : p[1] = o[1] => Apart(o[3], p[3])

(* What the theorem about it needs of the plans: a container that is       *)
(* started was made and not removed since, and is apart from whatever      *)
(* stands beside it then, or when another is made.  A removal does not     *)
(* count when a jump may have passed it.                                   *)
Stands(plan, role, k) ==
  \E j \in 1..k - 1 :
    /\ plan[j].call = "make" /\ plan[j].on = role
    /\ \A m \in j + 1..k - 1 :
         plan[m].call = "rm" /\ plan[m].on = role =>
           \E b \in j + 1..m - 1 : b + plan[b].skip >= m

Ordered(plan) ==
  \A k \in DOMAIN plan :
    /\ plan[k].call \in {"attach", "launch"} =>
         /\ Stands(plan, plan[k].on, k)
         /\ \A role \in Roles : Stands(plan, role, k) => Apart(plan[k].on, role)
    /\ plan[k].call = "make" =>
         \A role \in Roles : Stands(plan, role, k) => Apart(role, plan[k].on)

ASSUME OrderAssumption == \A v \in AllVerticals : Ordered(Work[v])

(* An answer is earned: an ordinary exit means that every phase before it  *)
(* was seen to end, that nothing of the run is left now or later, and that *)
(* nobody had stopped the run; a cancellation is the caller's; and a       *)
(* failure is never reported as an interruption (finish_work,              *)
(* rust_gateway.rs:838).                                                   *)
AnswerIsEarned ==
  job.stage = "answered" =>
    /\ job.work \notin {"error", "uncertain"} =>
         \A o \in objects \cup pending : o[1] = runs => o \in tardy
    /\ job.work = "exited" => ~session.quarantined
    /\ job.work = "exited" /\ Closing[job.vertical] = "override" => job.terminal = "none"
    /\ job.work = "cancelled" => cancelled

(* Once quarantined, the gateway asks the daemon for nothing new: no       *)
(* container is created or started until the process is replaced           *)
(* (mutation_gateway.rs:106).  And the process that replaces it works over *)
(* nothing an earlier one left, containers and volumes alike: no object is *)
(* made and no container started beside one of an earlier process, except  *)
(* what the daemon makes after everybody stopped waiting for it            *)
(* (rust_gateway.rs:1497, lib.rs:322).                                     *)
Inherited == {o \in objects : o[1] <= session.since /\ o \notin tardy}

QuarantineStopsWork ==
  [][/\ session.quarantined \/ session.sealed =>
          /\ objects' \subseteq objects \cup pending /\ live' \subseteq live
          /\ session'.quarantined \/ session'.sealed \/ crashes' > crashes
     /\ Inherited # {} => objects' \subseteq objects \cup pending /\ live' \subseteq live]_vars
===============================================================================
