-------------------------- MODULE RegistryProperties --------------------------
(***************************************************************************)
(* What a capability entitles its holder to, and what is left when one     *)
(* ends.                                                                   *)
(***************************************************************************)
EXTENDS ProjectRegistry

(* An answer is about the project that was opened: after the sources were  *)
(* captured, or the log copied, the root was at some moment the one its    *)
(* reference was opened with, and the capability still stands              *)
(* (resolve_inner, lib.rs:162, called again after every copy); the logs of *)
(* an answer are in the store (publish_quality, validation.rs:507).        *)
Works(kind) == kind \notin {"open", "commit"}
Copies(kind) == Works(kind) /\ kind # "receipt"
One == Readers \cup {"check"}
Logged == One \cup {"gate"}
AnswersAreCurrent ==
  Answered /\ Works(op.kind) =>
    /\ Copies(op.kind) => op.seen
    /\ op.ref \in DOMAIN entries
    /\ op.kind \in Logged =>
         \A i \in Range(op.items) \ {0} : i \in DOMAIN logs /\ logs[i].owner = op.ref

(* Nobody's lease but the operation's own is renewed, and by no poll; it   *)
(* is renewed by the last step of an operation that answers ("failed touch *)
(* never renews a lease", artifact_access.rs:137), except by those that    *)
(* renew it on a look at the root and may be refused afterwards: a receipt *)
(* (mutation.rs:214), a preview (mutation.rs:155), the second gate         *)
(* (application/src/quality_v2.rs:527).  One that has run out comes back   *)
(* only where the root was just found to be the one that was opened.       *)
Early == {"receipt", "preview", "gate_v2"}
Returned == op'.pc > Len(Plan') /\ op'.way # "recovery"
LeaseFollowsAnswer ==
  [][\A r \in DOMAIN entries \cap DOMAIN entries' :
       entries'[r] # entries[r] =>
         /\ r = op.ref /\ op.kind # "poll"
         /\ op.kind \in Early \/ Returned
         /\ r \notin Live => root = opened[r]]_vars

(* A refused operation leaves no log that nobody was told of, except those *)
(* of coverage, which are never taken back, and those of a publication     *)
(* whose next stream found no entropy; a refused read leaves no log of a   *)
(* capability that has ended (read_artifact_with_touch,                    *)
(* artifact_access.rs:90; publish_quality, validation.rs:552).             *)
FailureLeavesNothing ==
  Refused =>
    /\ (op.kind \in {"check", "gate"} \/ (op.kind = "tests" /\ faults = 0)) =>
         \A i \in Range(op.items) : i \notin DOMAIN logs
    /\ op.kind \in Readers =>
         \A i \in DOMAIN logs : logs[i].owner \in DOMAIN entries

-----------------------------------------------------------------------------
(* The order that the plans keep.  An instruction is firm when no row that *)
(* is given up passes it; only the gate gives up rows that have more to do. *)
Firm(kind, s) == kind # "gate" \/ s.row = 0
Later(kind, plan, k, names) ==
  \E j \in 1..Len(plan) : j > k /\ plan[j].do \in names /\ Firm(kind, plan[j])

Looks == {"observe", "renew"}
Holds == {"lookup", "touch"}
Undoes(kind) == kind \in {"check", "gate", "tests"}

Instructions ==
  [do : {"admit", "insert", "lookup", "observe", "renew", "facts", "consult",
         "publish", "touch", "source", "run", "check", "reap", "log", "copy",
         "confirm", "retain"},
   row : 0..2, recovery : Seq(Remedies)]

(* What an instruction relies on among those after it.                     *)
Followed(kind, plan, k) ==
  LET do == plan[k].do IN
  /\ do = "admit" => kind = "open"
  /\ do = "insert" => kind = "open" /\ k = Len(plan)
  /\ do = "publish" => kind = "commit"
  /\ do \in {"touch", "renew"} => kind # "poll"
  /\ do = "touch" => k = Len(plan)
  /\ do = "renew" => kind \notin Logged /\ (k = Len(plan) \/ kind \in Early)
  /\ do \in {"source", "copy"} => Later(kind, plan, k, Looks)
  /\ do = "source" => kind \notin Readers
  /\ do = "reap" /\ Works(kind) => Later(kind, plan, k, Holds)
  /\ do \in {"reap", "log", "copy", "confirm"} /\ kind = "gate" =>
       Later(kind, plan, k, Holds) /\ Later(kind, plan, k, {"retain"})
  /\ do = "confirm" /\ kind \in One => plan[k].row = 1
  /\ do \in {"reap", "copy"} /\ kind \in Readers =>
       Later(kind, plan, k, {"confirm"})
  /\ kind \in Readers =>
       plan[k].row = 1 /\ do # "log" /\ (do = "reap" \/ "reap" \in Range(plan[k].recovery))

(* A log has a row, follows the sources, and from then on a failure takes  *)
(* it back.                                                                *)
Staging(kind, plan, k) ==
  LET logged == \E m \in 1..Len(plan) : m < k /\ plan[m].do = "log"
      do == plan[k].do
  IN
  /\ do = "log" => plan[k].row # 0 /\ kind \in {"check", "gate", "tests", "coverage"}
  /\ do = "log" /\ kind = "check" => ~logged /\ plan[k].row = 1
  /\ do = "source" => ~logged
  /\ do = "run" /\ kind = "gate" => plan[k].row # 0
  /\ kind \in {"tests", "coverage"} => plan[k].row = 0 \/ plan[k].recovery = <<>>
  /\ logged /\ Undoes(kind) =>
       \/ "undo" \in Range(plan[k].recovery) \/ do = "reap"
       \/ do = "log" /\ kind = "tests"

Shaped(kind, plan) ==
  /\ plan \in Seq(Instructions)
  /\ \A k \in 1..Len(plan) : Followed(kind, plan, k) /\ Staging(kind, plan, k)
  /\ Copies(kind) => Later(kind, plan, 0, Looks)
  /\ Works(kind) => Later(kind, plan, 0, Holds)
  /\ kind \in Readers =>
       Later(kind, plan, 0, {"copy"}) /\ Later(kind, plan, 0, {"confirm"})

ASSUME PlansAssumption ==
  /\ {"open"} \cup Readers \subseteq Kinds
  /\ \A kind \in Kinds :
       /\ Shaped(kind, Program[kind])
       /\ Copies(kind) /\ kind \notin Readers => Later(kind, Program[kind], 0, {"source"})
  /\ \A k \in 1..Len(Program["check"]) :
       Program["check"][k].do \in {"reap", "log", "copy"} =>
         Later("check", Program["check"], k, {"confirm"})
  /\ Shaped("check", CheckUnlogged)
  /\ \A k \in 1..Len(CheckUnlogged) : CheckUnlogged[k].do \notin {"source", "log"}

-----------------------------------------------------------------------------
(* What an operation that is under way owes to the rest of its plan.       *)
Ahead(names) == Later(op.kind, Plan, op.pc - 1, names)

Current == op.seen \/ root # opened[op.ref]
Fresh == IF op.kind \in Readers THEN Current \/ Ahead({"copy"})
         ELSE Current \/ Ahead({"source"})
Seen == op.seen \/ Ahead(Looks)
Held == op.ref \in DOMAIN entries \/ Ahead(Holds)

(* A log of the gate is where the gate left it, or the lease or the log    *)
(* will be found ended; the log of the others is looked at once more.      *)
Its(r) == op.items[r] \in DOMAIN logs /\ logs[op.items[r]].owner = op.ref
Kept(r) == Its(r) /\ logs[op.items[r]].expires = op.until[r]
Late(r) == Ahead({"retain"}) /\ op.until[r] <= clock
Lost == Ahead(Holds) /\ op.ref \notin Live
Items ==
  /\ op.kind = "gate" =>
       \A r \in 1..2 : op.items[r] # 0 => Kept(r) \/ Late(r) \/ Lost
  /\ op.kind \in One => op.items[1] = 0 \/ Ahead({"confirm"}) \/ Its(1)

Logs == \A r \in 1..2 : op.items[r] # 0 =>
          \E k \in 1..Len(Plan) : k < op.pc /\ Plan[k].do = "log"
NoItems == \A r \in 1..2 : op.items[r] = 0

Working ==
  /\ Copies(op.kind) => Fresh /\ Seen
  /\ Works(op.kind) => Held /\ Items

(* ... and to its remedies.                                                *)
Gone == \A r \in 1..2 : op.items[r] \notin DOMAIN logs
Clean == \A i \in DOMAIN logs : logs[i].owner \in DOMAIN entries
Remedied ==
  /\ Undoes(op.kind) /\ (op.kind = "tests" => faults = 0) => Gone \/ Ahead({"undo"})
  /\ op.kind \in Readers => Clean \/ Ahead({"reap"})

Rows ==
  /\ 0 \notin op.given
  /\ op.given # {} => op.kind \in {"gate", "tests", "coverage"}
  /\ op.kind \in One => op.items[2] = 0
  /\ \A r \in 1..2 : op.items[r] \in drawn \cup {0}

Owes ==
  op # Idle =>
    /\ Rows
    /\ op.way = "work" => Working /\ (op.kind \in Readers \/ Logs)
    /\ op.way = "unlogged" => op.kind = "check" /\ Working /\ NoItems
    /\ op.way = "rejection" => op.kind \notin Readers /\ NoItems /\ op.pc <= 3
    /\ op.way = "recovery" => Remedied

Obligations == TypeOK /\ Owes
=============================================================================
