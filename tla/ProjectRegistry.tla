---------------------------- MODULE ProjectRegistry ----------------------------
(***************************************************************************)
(* Project capabilities and the logs kept for them in memory.              *)
(*                                                                         *)
(* A tool holds the mutexes of the registry and of the log store from its  *)
(* first step to its answer, so operations follow one another; meanwhile   *)
(* time passes, the project's directory is replaced and the client         *)
(* cancels.  An operation follows a plan, a list of instructions each with *)
(* what is done when it fails.  A capability ends TTL after its last       *)
(* renewal, or when a revalidation finds another identity than the one it  *)
(* was opened with; its logs end with it or after a time of their own.     *)
(*                                                                         *)
(* Both clocks count from an Instant and never run backwards.  A log is    *)
(* one unit of every quota.                                                *)
(***************************************************************************)
EXTENDS Naturals, FiniteSets, Sequences, SequencesExt, Functions

CONSTANTS
  Refs,            (* project_ref values; random in the code, drawn once   *)
  Ids,             (* artifact ids; random in the code, drawn once         *)
  Identities,      (* what a revalidation can find at the project's root   *)
  Unknown,         (* a model value: a reference not yet opened            *)
  Capacity, TTL,   (* ProjectRegistry.capacity, ttl_seconds                *)
  MaxLogs, OwnerLogs, LogTTL,   (* ArtifactLimits                          *)
  MaxClock,        (* bound: seconds                                       *)
  MaxChanges,      (* bound: times the project's root is replaced          *)
  MaxFaults        (* bound: captures that find no entropy                 *)

ASSUME RegistryAssumption ==
  /\ Unknown \notin Identities /\ 0 \notin Ids
  /\ Capacity \in Nat \ {0} /\ TTL \in Nat \ {0}
  /\ MaxLogs \in Nat \ {0} /\ OwnerLogs \in Nat \ {0} /\ LogTTL \in Nat \ {0}
  /\ MaxClock \in Nat /\ MaxChanges \in Nat /\ MaxFaults \in Nat

VARIABLES
  clock,
  root,            (* the identity of the directory now                    *)
  entries,         (* ProjectRegistry.entries: last_used of each reference *)
  opened,          (* the identity each reference was opened with          *)
  logs,            (* MemoryArtifactStore.entries                          *)
  drawn,           (* ids that have been used                              *)
  announced,       (* ids some caller was given                            *)
  op,              (* the operation that holds the mutexes                 *)
  changes, faults

vars == <<clock, root, entries, opened, logs, drawn, announced, op, changes, faults>>

-----------------------------------------------------------------------------
(* Operations as lists of instructions: what is done, for which log of the *)
(* operation if any, and what follows a failure.                           *)
Step(do, row, recovery) == [do |-> do, row |-> row, recovery |-> recovery]
Steps(names, row, recovery) ==
  [i \in 1..Len(names) |-> Step(names[i], row, recovery)]

Resolve == <<"lookup", "observe">>
ResolveTouch == <<"lookup", "renew">>
(* source_inner revalidates before the capture and after it.               *)
Source == Resolve \o <<"source">> \o Resolve
Capture ==
  Steps(<<"reap">>, 0, <<>>) \o Steps(Resolve \o Source, 0, <<"reap">>)

(* read_artifact_inner: the copy is compared with the store once the root  *)
(* has been seen again.                                                    *)
Reading == Resolve \o <<"copy">> \o Resolve \o <<"confirm">>
Reads(touch) ==
  Steps(<<"reap">>, 1, <<>>)
    \o Steps(IF touch THEN Append(Reading, "touch") ELSE Reading, 1, <<"reap">>)

(* publish_validation: one log, or none when its quota is full.            *)
CheckWork ==
  Capture \o Steps(<<"run", "check", "reap", "log">>, 1, <<>>)
    \o Steps(<<"reap">> \o Append(Reading, "touch"), 1, <<"reap", "undo">>)
CheckUnlogged ==
  Steps(Resolve, 0, <<"reap">>) \o Steps(<<"check", "reap">>, 0, <<>>)
    \o Steps(<<"touch">>, 0, <<"reap">>)

(* quality and publish_quality: every stage is run, every log staged and   *)
(* read, every log read again, and then the lease renewed.                 *)
Stage(row) == Steps(Resolve \o <<"run", "check">>, row, <<>>)
Staged(row) ==
  Steps(<<"check", "log", "reap">> \o Reading, row, <<"undo", "reap">>)
Recheck(row) == Steps(<<"reap">> \o Reading, row, <<"undo", "reap">>)
GateWork ==
  Capture \o Stage(1) \o Stage(2) \o Staged(1) \o Staged(2) \o Recheck(1) \o Recheck(2)
    \o Steps(Resolve \o <<"check", "retain", "check", "touch">>, 0, <<"undo", "reap">>)

(* The streams of nextest and mutation testing, and those of coverage,     *)
(* which a failed authorization leaves in the store.                       *)
Streams(recovery) ==
  Capture \o Steps(<<"run", "reap", "log">>, 1, <<>>)
    \o Steps(<<"log">>, 2, <<>>) \o Steps(ResolveTouch, 0, recovery)

(* Durable publication asks for the owner's facts when it begins and again *)
(* before each member, here one; the publisher may refuse after each.      *)
Published == Resolve \o <<"facts", "consult">> \o Resolve \o <<"facts", "consult">>
DurableWork ==
  Capture \o Steps(<<"run">> \o Published \o ResolveTouch, 0, <<>>)

(* The second gate judges its policy after it has renewed the lease.       *)
GateV2Work ==
  Steps(Source \o <<"check", "run", "check">> \o Published \o <<"check">>
          \o ResolveTouch \o <<"consult">>, 0, <<>>)

(* A mutation is prepared and previewed in two turns at the registry; the  *)
(* sources of the second, read with a renewal, are compared with those of  *)
(* the candidate.  A receipt is looked up after the lease was renewed.     *)
PrepareWork == Steps(Resolve \o <<"consult">> \o Source, 0, <<>>)
PreviewWork == Steps(Resolve \o <<"source">> \o ResolveTouch \o <<"consult">>, 0, <<>>)
ReceiptWork == Steps(ResolveTouch \o <<"consult">>, 0, <<>>)

InspectWork ==
  Steps(Resolve \o Source \o <<"run", "check">> \o ResolveTouch, 0, <<>>)

Program ==
  [open |-> Steps(<<"admit", "insert">>, 0, <<>>),
   inspect |-> InspectWork,
   check |-> CheckWork,
   gate |-> GateWork,
   tests |-> Streams(<<"undo">>),
   coverage |-> Streams(<<>>),
   durable |-> DurableWork,
   gate_v2 |-> GateV2Work,
   prepare |-> PrepareWork,
   preview |-> PreviewWork,
   receipt |-> ReceiptWork,
   commit |-> Steps(Resolve \o <<"publish">>, 0, <<>>),
   read |-> Reads(TRUE),
   poll |-> Reads(FALSE)]
Kinds == DOMAIN Program
Readers == {"read", "poll"}

(* What follows a failure cannot fail itself.                              *)
Remedies == {"undo", "reap"}
Recovery(names) == Steps(names, 0, <<>>)
(* Nor can a capture that failed be saved: the root is looked at for the   *)
(* error's sake.                                                           *)
Rejection(recovery) == Steps(Append(Resolve, "reject"), 0, recovery)

-----------------------------------------------------------------------------
Idle == [kind |-> "none"]
Begin(kind, ref, items) ==
  op' = [kind |-> kind, ref |-> ref, way |-> "work", recovery |-> <<>>,
         pc |-> 1, given |-> {}, items |-> items, until |-> <<0, 0>>,
         cancel |-> FALSE, seen |-> FALSE]

Operations ==
  [kind : Kinds, ref : Refs, way : {"work", "unlogged", "rejection", "recovery"},
   recovery : Seq(Remedies), pc : Nat \ {0}, given : SUBSET (0..2),
   items : [1..2 -> Ids \cup {0}], until : [1..2 -> Nat],
   cancel : BOOLEAN, seen : BOOLEAN]

TypeOK ==
  /\ clock \in 0..MaxClock /\ root \in Identities
  /\ DOMAIN entries \subseteq Refs /\ \A r \in DOMAIN entries : entries[r] \in 0..MaxClock
  /\ opened \in [Refs -> Identities \cup {Unknown}]
  /\ DOMAIN logs \subseteq drawn /\ drawn \subseteq Ids /\ announced \subseteq drawn
  /\ \A i \in DOMAIN logs : logs[i].owner \in Refs /\ logs[i].expires \in Nat
  /\ op = Idle \/ op \in Operations
  /\ changes \in 0..MaxChanges /\ faults \in 0..MaxFaults

Init ==
  /\ clock = 0 /\ root \in Identities /\ entries = <<>>
  /\ opened = [r \in Refs |-> Unknown] /\ logs = <<>>
  /\ drawn = {} /\ announced = {} /\ op = Idle
  /\ changes = 0 /\ faults = 0

-----------------------------------------------------------------------------
(* The environment.                                                        *)
Tick ==
  /\ clock < MaxClock /\ clock' = clock + 1
  /\ UNCHANGED <<root, entries, opened, logs, drawn, announced, op, changes, faults>>

(* Observed for the properties: the root has been, since the operation     *)
(* copied something of it, the one its reference was opened with.          *)
ReplaceRoot ==
  /\ changes < MaxChanges /\ changes' = changes + 1
  /\ root' \in Identities \ {root}
  /\ op' = IF op = Idle THEN op ELSE [op EXCEPT !.seen = @ \/ root' = opened[op.ref]]
  /\ UNCHANGED <<clock, entries, opened, logs, drawn, announced, faults>>

(* A cancellation or the deadline of the call.                             *)
Cancel ==
  /\ op # Idle /\ ~op.cancel /\ op' = [op EXCEPT !.cancel = TRUE]
  /\ UNCHANGED <<clock, root, entries, opened, logs, drawn, announced, changes, faults>>

world == <<clock, root, changes>>

-----------------------------------------------------------------------------
(* Pieces of the instructions.                                             *)
PlanOf(o) ==
  CASE o.way = "work" -> Program[o.kind]
    [] o.way = "unlogged" -> CheckUnlogged
    [] o.way = "rejection" -> Rejection(o.recovery)
    [] o.way = "recovery" -> Recovery(o.recovery)
Plan == PlanOf(op)
This == Plan[op.pc]
Going == op # Idle /\ op.pc <= Len(Plan)
Doing(name) == This.do = name

(* Nothing more is done for a log that was given up.                       *)
Passed(o, k) == Plan[k].row \in o.given /\ Plan[k].recovery # <<>>
GoOn(o) ==
  \E k \in o.pc + 1..Len(Plan) + 1 :
    /\ \A m \in o.pc + 1..k - 1 : Passed(o, m)
    /\ k <= Len(Plan) => ~Passed(o, k)
    /\ op' = [o EXCEPT !.pc = k]
Proceed == GoOn(op)
SkipRow == GoOn([op EXCEPT !.given = @ \cup {This.row}])

Turn(way) == op' = [op EXCEPT !.way = way, !.recovery = This.recovery, !.pc = 1]
Fail == Turn("recovery")

Within(r) == clock - entries[r] < TTL
Live == {r \in DOMAIN entries : Within(r)}
Prune == entries' = Restrict(entries, Live)
Renewed == [entries EXCEPT ![op.ref] = clock]
Without(r) == Restrict(entries, DOMAIN entries \ {r})

Unexpired == {i \in DOMAIN logs : logs[i].expires > clock}
Keep(ids) == logs' = Restrict(logs, ids)

(* ArtifactLimits, after the expired logs have gone.                       *)
Admits ==
  /\ Cardinality(Unexpired) < MaxLogs
  /\ Cardinality({i \in Unexpired : logs[i].owner = op.ref}) < OwnerLogs

store == <<logs, drawn, announced>>

-----------------------------------------------------------------------------
(* Calls.                                                                  *)
Open(r) ==
  /\ opened[r] = Unknown /\ Begin("open", r, <<0, 0>>)
  /\ UNCHANGED <<world, entries, opened, store, faults>>

Use(kind, r) ==
  /\ opened[r] # Unknown /\ kind \in Kinds \ (Readers \cup {"open"})
  /\ Begin(kind, r, <<0, 0>>)
  /\ UNCHANGED <<world, entries, opened, store, faults>>

(* A log is asked for by an id that was announced, of any project.         *)
Read(kind, r, i) ==
  /\ opened[r] # Unknown /\ kind \in Readers /\ i \in announced
  /\ Begin(kind, r, <<i, 0>>)
  /\ UNCHANGED <<world, entries, opened, store, faults>>

-----------------------------------------------------------------------------
(* The registry.                                                           *)

(* ProjectRegistry::open, up to the answer of the backend.                 *)
Admit ==
  /\ Doing("admit")
  /\ IF op.cancel
     THEN Fail /\ UNCHANGED <<entries, opened>>
     ELSE /\ Prune
          /\ IF Cardinality(DOMAIN entries') >= Capacity
             THEN Fail /\ UNCHANGED opened
             ELSE Proceed /\ opened' = [opened EXCEPT ![op.ref] = root]
  /\ UNCHANGED <<world, store, faults>>

Insert ==
  /\ Doing("insert") /\ op.ref \notin DOMAIN entries
  /\ IF op.cancel
     THEN Fail /\ opened' = [opened EXCEPT ![op.ref] = Unknown] /\ UNCHANGED entries
     ELSE /\ Proceed /\ UNCHANGED opened
          /\ entries' = [r \in DOMAIN entries \cup {op.ref} |->
                           IF r = op.ref THEN clock ELSE entries[r]]
  /\ UNCHANGED <<world, store, faults>>

(* resolve_inner, up to the revalidation of the lease.                     *)
Lookup ==
  /\ Doing("lookup")
  /\ IF op.cancel
     THEN Fail /\ UNCHANGED entries
     ELSE Prune /\ IF op.ref \in DOMAIN entries' THEN Proceed ELSE Fail
  /\ UNCHANGED <<world, opened, store, faults>>

(* Fault: the identity that is found is not compared.                      *)
SameUnseen == ~op.cancel

(* ... and from what it found.                                             *)
Same == root = opened[op.ref] /\ ~op.cancel

Observe ==
  /\ Doing("observe") /\ Same /\ Proceed
  /\ UNCHANGED <<world, entries, opened, store, faults>>

(* The lease is renewed although it may have run out meanwhile.            *)
ObserveTouch ==
  /\ Doing("renew") /\ Same /\ Proceed /\ entries' = Renewed
  /\ UNCHANGED <<world, opened, store, faults>>

Retire == entries' = Without(op.ref)

ObserveChanged ==
  /\ Doing("observe") \/ Doing("renew")
  /\ root # opened[op.ref] /\ Fail /\ Retire
  /\ UNCHANGED <<world, opened, store, faults>>

ObserveCancelled ==
  /\ Doing("observe") \/ Doing("renew")
  /\ op.cancel /\ Fail
  /\ UNCHANGED <<world, entries, opened, store, faults>>

(* quality_owner_facts: a refusal of its own keeps the capability.         *)
Facts ==
  /\ Doing("facts")
  /\ IF Same THEN Proceed ELSE Fail
  /\ UNCHANGED <<world, entries, opened, store, faults>>

(* What somebody else answers: the journal about a receipt, a publisher    *)
(* about what it is given, a comparison of sources, a policy.              *)
Consult ==
  /\ Doing("consult") /\ (Proceed \/ Fail)
  /\ UNCHANGED <<world, entries, opened, store, faults>>

(* The end of a durable publication in the workspace: a receipt, or a      *)
(* publication that needs recovery, retires the capability; the journal    *)
(* decides which, and whether the root changes.                            *)
Publish ==
  /\ Doing("publish")
  /\ \/ Proceed /\ Retire
     \/ Fail /\ Retire
     \/ Fail /\ UNCHANGED entries
  /\ UNCHANGED <<world, opened, store, faults>>

(* Fault: a lease that has run out is renewed by the touch that refuses it. *)
TouchFirst ==
  /\ Doing("touch")
  /\ IF op.ref \in Live
     THEN Proceed /\ entries' = Restrict(Renewed, Live)
     ELSE Fail /\ entries' = Renewed
  /\ UNCHANGED <<world, opened, store, faults>>

(* touch_authorized_reference.                                             *)
Touch ==
  /\ Doing("touch")
  /\ IF op.ref \in Live
     THEN Proceed /\ entries' = Restrict(Renewed, Live)
     ELSE Fail /\ Prune
  /\ UNCHANGED <<world, opened, store, faults>>

-----------------------------------------------------------------------------
(* Work on the project.                                                    *)
CaptureSource ==
  /\ Doing("source")
  /\ IF op.cancel THEN Fail
     ELSE \/ GoOn([op EXCEPT !.seen = root = opened[op.ref]])
          \/ Turn("rejection")
  /\ UNCHANGED <<world, entries, opened, store, faults>>

Reject ==
  /\ Doing("reject") /\ Fail
  /\ UNCHANGED <<world, entries, opened, store, faults>>

(* The run itself; a stage of the gate may fail and have no log, or be at  *)
(* odds with the stages before it, which ends the gate.                    *)
Run ==
  /\ Doing("run")
  /\ Proceed \/ Fail \/ (op.kind = "gate" /\ SkipRow)
  /\ UNCHANGED <<world, entries, opened, store, faults>>

CheckControl ==
  /\ Doing("check") /\ IF op.cancel THEN Fail ELSE Proceed
  /\ UNCHANGED <<world, entries, opened, store, faults>>

-----------------------------------------------------------------------------
(* The log store.                                                          *)

(* Fault: the logs of the capabilities that have ended are kept.           *)
ReapOwnersKept == Prune /\ Keep(Unexpired) /\ Proceed

(* reap_artifacts: logs of no live capability go.                          *)
ReapOwners ==
  /\ Prune
  /\ Keep({i \in Unexpired : logs[i].owner \in DOMAIN entries'})
  /\ Proceed

Reap ==
  /\ Doing("reap") /\ ReapOwners
  /\ UNCHANGED <<world, opened, drawn, announced, faults>>

Log ==
  /\ Doing("log") /\ Admits
  /\ \E i \in Ids \ drawn :
       /\ drawn' = drawn \cup {i}
       /\ logs' = [j \in Unexpired \cup {i} |->
                     IF j = i THEN [owner |-> op.ref, expires |-> clock + LogTTL]
                     ELSE logs[j]]
       /\ GoOn([op EXCEPT !.items[This.row] = i, !.until[This.row] = clock + LogTTL])
  /\ UNCHANGED <<world, entries, opened, announced, faults>>

(* A full quota costs the log, not the answer.                             *)
LogOmitted ==
  /\ Doing("log") /\ ~Admits /\ Keep(Unexpired)
  /\ IF op.kind = "check" THEN Turn("unlogged") ELSE SkipRow
  /\ UNCHANGED <<world, entries, opened, drawn, announced, faults>>

LogFails ==
  /\ Doing("log") /\ Admits /\ Keep(Unexpired)
  /\ faults < MaxFaults /\ faults' = faults + 1 /\ Fail
  /\ UNCHANGED <<world, entries, opened, drawn, announced>>

Owned(i) == i \in Unexpired /\ logs[i].owner = op.ref

Copy ==
  /\ Doing("copy") /\ Keep(Unexpired)
  /\ IF Owned(op.items[This.row])
     THEN GoOn([op EXCEPT !.seen = root = opened[op.ref]])
     ELSE Fail
  /\ UNCHANGED <<world, entries, opened, drawn, announced, faults>>

Confirm ==
  /\ Doing("confirm") /\ Keep(Unexpired)
  /\ IF Owned(op.items[This.row]) /\ ~op.cancel THEN Proceed ELSE Fail
  /\ UNCHANGED <<world, entries, opened, drawn, announced, faults>>

(* What the gate knows of each log's end is compared with the clock.       *)
Retain ==
  /\ Doing("retain")
  /\ IF \A row \in 1..2 : op.items[row] # 0 => op.until[row] > clock THEN Proceed ELSE Fail
  /\ UNCHANGED <<world, entries, opened, store, faults>>

Undo ==
  /\ Doing("undo") /\ Proceed /\ Keep(Unexpired \ Range(op.items))
  /\ UNCHANGED <<world, entries, opened, drawn, announced, faults>>

-----------------------------------------------------------------------------
(* The mutexes are given back with the answer.                             *)
Ended == op # Idle /\ op.pc > Len(Plan)
Answered == Ended /\ op.way # "recovery"
Refused == Ended /\ op.way = "recovery"

Return ==
  /\ Ended /\ op' = Idle
  /\ announced' = IF Refused THEN announced
                  ELSE announced \cup (Range(op.items) \ {0})
  /\ UNCHANGED <<world, entries, opened, logs, drawn, faults>>

Call ==
  /\ op = Idle
  /\ \/ \E r \in Refs : Open(r)
     \/ \E r \in Refs, kind \in Kinds : Use(kind, r)
     \/ \E r \in Refs, kind \in Readers, i \in Ids : Read(kind, r, i)

Work ==
  /\ Going
  /\ \/ Admit \/ Insert \/ Lookup
     \/ Observe \/ ObserveTouch \/ ObserveChanged \/ ObserveCancelled
     \/ Facts \/ Consult \/ Publish \/ Touch
     \/ CaptureSource \/ Reject \/ Run \/ CheckControl
     \/ Reap \/ Log \/ LogOmitted \/ LogFails \/ Copy \/ Confirm \/ Retain \/ Undo

Next == Tick \/ ReplaceRoot \/ Cancel \/ Call \/ Work \/ Return

Spec == Init /\ [][Next]_vars
===============================================================================
