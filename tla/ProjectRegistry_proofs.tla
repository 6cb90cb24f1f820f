------------------------- MODULE ProjectRegistry_proofs -------------------------
(***************************************************************************)
(* What holds of the registry and its logs for any number of references,   *)
(* logs and identities, any limits, and any number of replacements.        *)
(***************************************************************************)
EXTENDS RegistryProperties, SequenceTheorems, TLAPS

-----------------------------------------------------------------------------
(* Plans.                                                                  *)

(* The instructions that are left, and the ones that are passed.           *)
Jumps == op'.pc \in Nat /\ op'.pc > op.pc /\ op'.pc <= Len(Plan) + 1
Spares == \A j \in 1..Len(Plan) :
            j > op.pc /\ Firm(op.kind, Plan[j]) => j >= op'.pc
SamePlan == /\ op'.kind = op.kind /\ op'.ref = op.ref
         /\ op'.way = op.way /\ op'.recovery = op.recovery
Moves == op' \in Operations /\ SamePlan /\ Plan' = Plan /\ Jumps /\ Spares

(* A list of names becomes a list of instructions.                         *)
LEMMA StepsAre ==
  ASSUME NEW names, Len(names) \in Nat, NEW row, NEW recovery
  PROVE  /\ Len(Steps(names, row, recovery)) = Len(names)
         /\ \A i \in 1..Len(names) :
              Steps(names, row, recovery)[i] = Step(names[i], row, recovery)
<1> DEFINE n == Len(names)
           f == [i \in 1..n |-> Step(names[i], row, recovery)]
<1>1. f \in Seq({Step(names[i], row, recovery) : i \in 1..n})
  BY IsASeq
<1>2. DOMAIN f = 1..n
  OBVIOUS
<1>3. Len(f) = n
  BY <1>1, <1>2, LenProperties
<1>4. QED BY <1>3 DEF Steps

LEMMA OpTyped ==
  ASSUME TypeOK, op # Idle
  PROVE  /\ op \in Operations /\ op.kind \in Kinds /\ op.ref \in Refs
         /\ op.way \in {"work", "unlogged", "rejection", "recovery"}
         /\ op.recovery \in Seq(Remedies) /\ op.pc \in Nat \ {0}
         /\ op.given \subseteq 0..2 /\ op.items \in [1..2 -> Ids \cup {0}]
         /\ op.until \in [1..2 -> Nat]
         /\ op.cancel \in BOOLEAN /\ op.seen \in BOOLEAN
  BY DEF TypeOK, Operations

(* A plan in force has the shape it should have, or comes after a failure. *)
LEMMA WorkShape ==
  ASSUME TypeOK, Owes, op # Idle, op.way \in {"work", "unlogged"}
  PROVE  Shaped(op.kind, Plan)
<1>1. CASE op.way = "work"
  BY <1>1, PlansAssumption, OpTyped DEF Plan, PlanOf
<1>2. CASE op.way = "unlogged"
  <2>1. op.kind = "check" /\ Plan = CheckUnlogged
    BY <1>2 DEF Plan, PlanOf, Owes
  <2>2. QED BY <2>1, PlansAssumption
<1>3. QED BY <1>1, <1>2

LEMMA RecoveryShape ==
  ASSUME TypeOK, op # Idle, op.way = "recovery"
  PROVE  /\ Len(Plan) = Len(op.recovery) /\ Len(Plan) \in Nat
         /\ \A i \in 1..Len(Plan) : Plan[i] = Step(op.recovery[i], 0, <<>>)
         /\ \A i \in 1..Len(Plan) : op.recovery[i] \in Remedies
<1>1. Plan = Steps(op.recovery, 0, <<>>)
  BY DEF Plan, PlanOf, Recovery
<1>2. op.recovery \in Seq(Remedies)
  BY OpTyped
<1>3. Len(op.recovery) \in Nat /\ \A i \in 1..Len(op.recovery) : op.recovery[i] \in Remedies
  BY <1>2
<1>4. QED BY <1>1, <1>3, StepsAre

LEMMA RejectionShape ==
  ASSUME TypeOK, op # Idle, op.way = "rejection"
  PROVE  /\ Len(Plan) = 3
         /\ Plan[1] = Step("lookup", 0, op.recovery)
         /\ Plan[2] = Step("observe", 0, op.recovery)
         /\ Plan[3] = Step("reject", 0, op.recovery)
<1> DEFINE names == Append(Resolve, "reject")
<1>1. Len(names) = 3 /\ names[1] = "lookup" /\ names[2] = "observe" /\ names[3] = "reject"
  BY DEF Resolve
<1>2. Plan = Steps(names, 0, op.recovery)
  BY DEF Plan, PlanOf, Rejection
<1> HIDE DEF names
<1>3. QED BY <1>1, <1>2, StepsAre

(* Whatever the plan, an instruction of it is one the model knows.         *)
LEMMA PlanLen ==
  ASSUME TypeOK, Owes, op # Idle
  PROVE  Len(Plan) \in Nat
<1>1. CASE op.way \in {"work", "unlogged"}
  BY <1>1, WorkShape DEF Shaped
<1>2. QED BY <1>1, RecoveryShape, RejectionShape, OpTyped

-----------------------------------------------------------------------------
(* Going on.                                                               *)

(* Nothing firm is ever passed.                                            *)
LEMMA FirmStays ==
  ASSUME TypeOK, Owes, op # Idle, NEW given, 0 \notin given,
         given # {} => op.kind \in {"gate", "tests", "coverage"},
         NEW j \in 1..Len(Plan), Firm(op.kind, Plan[j])
  PROVE  ~(Plan[j].row \in given /\ Plan[j].recovery # <<>>)
<1>1. SUFFICES ASSUME Plan[j].row \in given, Plan[j].recovery # <<>> PROVE FALSE
  OBVIOUS
<1>2. op.kind \in {"tests", "coverage"} /\ Plan[j].row # 0
  BY <1>1 DEF Firm
<1>3. op.way # "recovery"
  <2>1. SUFFICES ASSUME op.way = "recovery" PROVE FALSE
    OBVIOUS
  <2>2. Plan[j] = Step(op.recovery[j], 0, <<>>)
    BY <2>1, RecoveryShape
  <2>3. QED BY <2>2, <1>1 DEF Step
<1>4. op.way # "rejection"
  <2>1. SUFFICES ASSUME op.way = "rejection" PROVE FALSE
    OBVIOUS
  <2> Len(Plan) = 3
    BY <2>1, RejectionShape
  <2>2. j = 1 \/ j = 2 \/ j = 3
    OBVIOUS
  <2>3. Plan[j].row = 0
    BY <2>1, <2>2, RejectionShape DEF Step
  <2>4. QED BY <2>3, <1>2
<1>5. Shaped(op.kind, Plan)
  BY <1>3, <1>4, OpTyped, WorkShape
<1>6. Staging(op.kind, Plan, j)
  BY <1>5 DEF Shaped
<1>7. Plan[j].row = 0 \/ Plan[j].recovery = <<>>
  BY <1>2, <1>6 DEF Staging
<1>8. QED BY <1>1, <1>2, <1>7

LEMMA GoesOn ==
  ASSUME TypeOK, Owes, Going, NEW o \in Operations, GoOn(o),
         o.kind = op.kind, o.ref = op.ref, o.way = op.way,
         o.recovery = op.recovery, o.pc = op.pc, 0 \notin o.given,
         o.given # {} => op.kind \in {"gate", "tests", "coverage"}
  PROVE  /\ Moves /\ op' # Idle /\ op'.given = o.given /\ op'.items = o.items
         /\ op'.until = o.until /\ op'.cancel = o.cancel /\ op'.seen = o.seen
<1>1. op # Idle /\ op.pc \in Nat \ {0} /\ op.pc <= Len(Plan) /\ Len(Plan) \in Nat
  BY OpTyped, PlanLen DEF Going
<1>2. PICK k \in o.pc + 1..Len(Plan) + 1 :
        /\ \A m \in o.pc + 1..k - 1 : Passed(o, m)
        /\ op' = [o EXCEPT !.pc = k]
  BY DEF GoOn
<1>3. k \in Nat \ {0} /\ k > op.pc /\ k <= Len(Plan) + 1
  BY <1>1, <1>2
<1>4. /\ op' \in Operations /\ op'.pc = k /\ op'.kind = o.kind /\ op'.ref = o.ref
      /\ op'.way = o.way /\ op'.recovery = o.recovery /\ op'.given = o.given
      /\ op'.items = o.items /\ op'.until = o.until
      /\ op'.cancel = o.cancel /\ op'.seen = o.seen
  BY <1>2, <1>3 DEF Operations
<1>5. Plan' = Plan
  BY <1>4 DEF Plan, PlanOf
<1>6. Jumps
  BY <1>1, <1>3, <1>4 DEF Jumps
<1>7. Spares
  <2>1. SUFFICES ASSUME NEW j \in 1..Len(Plan), j > op.pc, Firm(op.kind, Plan[j]), j < k
                 PROVE  FALSE
    BY <1>1, <1>3, <1>4 DEF Spares
  <2>2. Passed(o, j)
    BY <2>1, <1>1, <1>2, <1>3
  <2>3. QED BY <2>1, <2>2, <1>1, FirmStays DEF Passed
<1>8. op' # Idle
  BY <1>4, <1>1, <1>2 DEF Idle, Operations
<1>9. QED BY <1>4, <1>5, <1>6, <1>7, <1>8 DEF Moves, SamePlan

LEMMA Proceeds ==
  ASSUME TypeOK, Owes, Going, Proceed
  PROVE  /\ Moves /\ op' # Idle /\ op'.given = op.given /\ op'.items = op.items
         /\ op'.until = op.until /\ op'.cancel = op.cancel /\ op'.seen = op.seen
<1>1. op # Idle /\ op \in Operations
  BY OpTyped DEF Going
<1>2. 0 \notin op.given /\ (op.given # {} => op.kind \in {"gate", "tests", "coverage"})
  BY <1>1 DEF Owes, Rows
<1>3. GoOn(op)
  BY DEF Proceed
<1>4. QED BY <1>1, <1>2, <1>3, GoesOn

(* What is ahead stays ahead, and what follows an instruction comes ahead. *)
LEMMA StaysAhead ==
  ASSUME Going, Moves, TypeOK, Owes, NEW names, Later(op.kind, Plan, op.pc, names)
  PROVE  Ahead(names)'
<1>1. op.pc \in Nat \ {0} /\ Len(Plan) \in Nat
  BY OpTyped, PlanLen DEF Going
<1>2. PICK j \in 1..Len(Plan) :
        j > op.pc /\ Plan[j].do \in names /\ Firm(op.kind, Plan[j])
  BY DEF Later
<1>3. j >= op'.pc /\ op'.pc \in Nat
  BY <1>2 DEF Moves, Spares, Jumps
<1>4. j > op'.pc - 1
  BY <1>1, <1>3
<1>5. op'.kind = op.kind /\ Plan' = Plan
  BY DEF Moves, SamePlan
<1>6. QED BY <1>2, <1>4, <1>5 DEF Ahead, Later

LEMMA AheadBut ==
  ASSUME Going, TypeOK, Owes, NEW names, Ahead(names), This.do \notin names
  PROVE  Later(op.kind, Plan, op.pc, names)
<1>1. op.pc \in Nat \ {0} /\ Len(Plan) \in Nat
  BY OpTyped, PlanLen DEF Going
<1>2. PICK j \in 1..Len(Plan) :
        j > op.pc - 1 /\ Plan[j].do \in names /\ Firm(op.kind, Plan[j])
  BY DEF Ahead, Later
<1>3. j # op.pc
  BY <1>2 DEF This
<1>4. j > op.pc
  BY <1>1, <1>2, <1>3
<1>5. QED BY <1>2, <1>4 DEF Later

LEMMA AheadMoves ==
  ASSUME Going, Moves, TypeOK, Owes, NEW names, Ahead(names), This.do \notin names
  PROVE  Ahead(names)'
  BY AheadBut, StaysAhead

-----------------------------------------------------------------------------
(* An operation at work: each debt is kept, or paid by the instruction.    *)

AtWork == op.way \in {"work", "unlogged"}

LEMMA Follows ==
  ASSUME TypeOK, Owes, Going, AtWork
  PROVE  /\ Followed(op.kind, Plan, op.pc) /\ Staging(op.kind, Plan, op.pc)
         /\ This \in Instructions
<1>1. op # Idle /\ op.pc \in Nat \ {0} /\ op.pc <= Len(Plan) /\ Len(Plan) \in Nat
  BY OpTyped, PlanLen DEF Going
<1>2. Shaped(op.kind, Plan)
  BY <1>1, WorkShape DEF AtWork
<1>3. op.pc \in 1..Len(Plan)
  BY <1>1
<1>4. Plan \in Seq(Instructions)
  BY <1>2 DEF Shaped
<1>5. This \in Instructions
  BY <1>3, <1>4 DEF This
<1>6. QED BY <1>2, <1>3, <1>5 DEF Shaped

LEMMA AtWorkWorking ==
  ASSUME TypeOK, Owes, Going, AtWork, Works(op.kind)
  PROVE  Held /\ Items /\ (Copies(op.kind) => Fresh /\ Seen)
  BY DEF Owes, Working, AtWork, Going

LEMMA FreshMoves ==
  ASSUME TypeOK, Owes, Going, AtWork, Copies(op.kind), Moves, UNCHANGED <<root, opened>>,
         op'.seen = op.seen \/ op'.seen = (root = opened[op.ref]),
         This.do \in {"source", "copy"} => op'.seen = (root = opened[op.ref])
  PROVE  Fresh'
<1>1. Fresh
  BY AtWorkWorking DEF Copies
<1>2. op'.kind = op.kind /\ op'.ref = op.ref
  BY DEF Moves, SamePlan
<1>3. CASE op'.seen = (root = opened[op.ref])
  <2>1. Current'
    BY <1>2, <1>3 DEF Current
  <2>2. QED BY <2>1 DEF Fresh
<1>4. CASE op'.seen # (root = opened[op.ref]) /\ Current
  <2>1. op'.seen = op.seen
    BY <1>4
  <2>2. Current'
    BY <1>2, <1>4, <2>1 DEF Current
  <2>3. QED BY <2>2 DEF Fresh
<1>5. CASE op'.seen # (root = opened[op.ref]) /\ ~Current
  <2>1. This.do # "source" /\ This.do # "copy"
    BY <1>5
  <2>2. CASE op.kind \in Readers
    <3>1. Ahead({"copy"})
      BY <1>1, <1>5, <2>2 DEF Fresh
    <3>2. Ahead({"copy"})'
      BY <2>1, <3>1, AheadMoves
    <3>3. QED BY <1>2, <2>2, <3>2 DEF Fresh
  <2>3. CASE op.kind \notin Readers
    <3>1. Ahead({"source"})
      BY <1>1, <1>5, <2>3 DEF Fresh
    <3>2. Ahead({"source"})'
      BY <2>1, <3>1, AheadMoves
    <3>3. QED BY <1>2, <2>3, <3>2 DEF Fresh
  <2>4. QED BY <2>2, <2>3
<1>6. QED BY <1>3, <1>4, <1>5

(* After what is copied comes a look.                                      *)
LEMMA LooksFollow ==
  ASSUME TypeOK, Owes, Going, AtWork, NEW name \in {"source", "copy"},
         Later(op.kind, Plan, op.pc, {name})
  PROVE  Later(op.kind, Plan, op.pc, Looks)
<1>1. op # Idle /\ op.pc \in Nat \ {0} /\ Len(Plan) \in Nat
  BY OpTyped, PlanLen DEF Going
<1>2. PICK j \in 1..Len(Plan) : j > op.pc /\ Plan[j].do = name
  BY DEF Later
<1>3. Shaped(op.kind, Plan)
  BY <1>1, WorkShape DEF AtWork
<1>4. Followed(op.kind, Plan, j)
  BY <1>3 DEF Shaped
<1>5. Later(op.kind, Plan, j, Looks)
  BY <1>2, <1>4 DEF Followed
<1>6. PICK i \in 1..Len(Plan) : i > j /\ Plan[i].do \in Looks /\ Firm(op.kind, Plan[i])
  BY <1>5 DEF Later
<1>7. i > op.pc
  BY <1>1, <1>2, <1>6
<1>8. QED BY <1>6, <1>7 DEF Later

LEMMA SeenMoves ==
  ASSUME TypeOK, Owes, Going, AtWork, Copies(op.kind), Moves,
         This.do \in Looks => root = opened[op.ref],
         op'.seen = op.seen \/ This.do \in {"source", "copy"}
  PROVE  Seen'
<1>1. Fresh /\ Seen
  BY AtWorkWorking DEF Copies
<1>2. CASE This.do \in {"source", "copy"}
  <2>1. Later(op.kind, Plan, op.pc, Looks)
    BY <1>2, Follows DEF Followed, This
  <2>2. QED BY <2>1, StaysAhead DEF Seen
<1>3. CASE This.do \notin {"source", "copy"} /\ op.seen
  <2>1. op'.seen
    BY <1>3
  <2>2. QED BY <2>1 DEF Seen
<1>4. CASE This.do \notin {"source", "copy"} /\ ~op.seen /\ This.do \in Looks
  <2>1. ~Current
    BY <1>4 DEF Current
  <2>2. PICK name \in {"source", "copy"} : Ahead({name})
    BY <1>1, <2>1 DEF Fresh
  <2>3. This.do \notin {name}
    BY <1>4
  <2>4. Later(op.kind, Plan, op.pc, {name})
    BY <2>2, <2>3, AheadBut
  <2>5. Later(op.kind, Plan, op.pc, Looks)
    BY <2>4, LooksFollow
  <2>6. QED BY <2>5, StaysAhead DEF Seen
<1>5. CASE This.do \notin {"source", "copy"} /\ ~op.seen /\ This.do \notin Looks
  <2>1. Ahead(Looks)
    BY <1>1, <1>5 DEF Seen
  <2>2. QED BY <2>1, <1>5, AheadMoves DEF Seen
<1>6. QED BY <1>2, <1>3, <1>4, <1>5

LEMMA HeldMoves ==
  ASSUME TypeOK, Owes, Going, AtWork, Works(op.kind), Moves,
         op.ref \in DOMAIN entries => op.ref \in DOMAIN entries' \/ This.do = "reap",
         This.do \in Holds => op.ref \in DOMAIN entries'
  PROVE  Held'
<1>1. Held
  BY AtWorkWorking
<1>2. op'.ref = op.ref
  BY DEF Moves, SamePlan
<1>3. CASE op.ref \in DOMAIN entries'
  BY <1>2, <1>3 DEF Held
<1>4. CASE op.ref \notin DOMAIN entries' /\ This.do = "reap"
  <2>1. Later(op.kind, Plan, op.pc, Holds)
    BY <1>4, Follows DEF Followed, This
  <2>2. QED BY <2>1, StaysAhead DEF Held
<1>5. CASE op.ref \notin DOMAIN entries' /\ This.do # "reap"
  <2>1. Ahead(Holds) /\ This.do \notin Holds
    BY <1>1, <1>5 DEF Held
  <2>2. QED BY <2>1, AheadMoves DEF Held
<1>6. QED BY <1>3, <1>4, <1>5

-----------------------------------------------------------------------------
(* The logs of an operation.                                               *)

Drops ==
  \A i \in DOMAIN logs :
    \/ i \in DOMAIN logs' /\ logs'[i] = logs[i]
    \/ /\ logs[i].expires <= clock \/ logs[i].owner \notin Live
       /\ This.do \in {"reap", "log", "copy", "confirm"}
Leases ==
  /\ op.ref \notin Live => op.ref \notin Live'
  /\ This.do \in Holds => op.ref \in Live
Retained ==
  This.do = "retain" => \A r \in 1..2 : op.items[r] # 0 => op.until[r] > clock
SameItem(r) == op'.items[r] = op.items[r] /\ op'.until[r] = op.until[r]

(* What the gate loses is missed: at the next lookup if its capability     *)
(* ended, at the last comparison with the clock if the log ran out.        *)
LEMMA ItemMoves ==
  ASSUME TypeOK, Owes, Going, AtWork, op.kind = "gate",
         Moves, Drops, Leases, Retained, UNCHANGED clock,
         NEW r \in 1..2, SameItem(r), op.items[r] # 0
  PROVE  (Kept(r) \/ Late(r) \/ Lost)'
<1>1. /\ op'.ref = op.ref /\ op'.kind = op.kind /\ Plan' = Plan
      /\ op'.items[r] = op.items[r] /\ op'.until[r] = op.until[r]
  BY DEF Moves, SamePlan, SameItem
<1>2. Kept(r) \/ Late(r) \/ Lost
  BY AtWorkWorking DEF Items, Works
<1>3. CASE Lost
  <2>1. op.ref \notin Live /\ Ahead(Holds)
    BY <1>3 DEF Lost
  <2>2. This.do \notin Holds /\ op.ref \notin Live'
    BY <2>1 DEF Leases
  <2>3. Ahead(Holds)'
    BY <2>1, <2>2, AheadMoves
  <2>4. QED BY <1>1, <2>2, <2>3 DEF Lost
<1>4. CASE Late(r)
  <2>1. op.until[r] <= clock /\ Ahead({"retain"})
    BY <1>4 DEF Late
  <2>2. op.until[r] \in Nat /\ clock \in Nat
    BY RegistryAssumption, OpTyped DEF TypeOK, Going
  <2>3. This.do # "retain"
    BY <2>1, <2>2 DEF Retained
  <2>4. Ahead({"retain"})'
    BY <2>1, <2>3, AheadMoves
  <2>5. QED BY <1>1, <2>1, <2>4 DEF Late
<1>5. CASE Kept(r) /\ ~(op.items[r] \in DOMAIN logs' /\ logs'[op.items[r]] = logs[op.items[r]])
  <2>1. /\ op.items[r] \in DOMAIN logs /\ logs[op.items[r]].owner = op.ref
        /\ logs[op.items[r]].expires = op.until[r]
    BY <1>5 DEF Kept, Its
  <2>2. /\ op.until[r] <= clock \/ op.ref \notin Live
        /\ This.do \in {"reap", "log", "copy", "confirm"}
    BY <1>5, <2>1 DEF Drops
  <2>3. Later(op.kind, Plan, op.pc, Holds) /\ Later(op.kind, Plan, op.pc, {"retain"})
    BY <2>2, Follows DEF Followed, This
  <2>4. Ahead(Holds)' /\ Ahead({"retain"})'
    BY <2>3, StaysAhead
  <2>5. QED BY <1>1, <2>2, <2>4 DEF Late, Lost, Leases
<1>6. CASE Kept(r) /\ op.items[r] \in DOMAIN logs' /\ logs'[op.items[r]] = logs[op.items[r]]
  BY <1>1, <1>6 DEF Kept, Its
<1>7. QED BY <1>2, <1>3, <1>4, <1>5, <1>6

(* No log is written, and no source captured, once a log was refused.      *)
LEMMA Unlogged ==
  ASSUME TypeOK, Owes, Going, op.way = "unlogged"
  PROVE  op.kind = "check" /\ This.do \notin {"source", "log"} /\ NoItems
<1>1. op # Idle /\ op.pc \in Nat \ {0} /\ op.pc <= Len(Plan) /\ Len(Plan) \in Nat
  BY OpTyped, PlanLen DEF Going
<1>2. op.kind = "check" /\ NoItems
  BY <1>1 DEF Owes
<1>3. Plan = CheckUnlogged
  BY DEF Plan, PlanOf
<1>4. op.pc \in 1..Len(CheckUnlogged)
  BY <1>1, <1>3
<1>5. CheckUnlogged[op.pc].do \notin {"source", "log"}
  BY <1>4, PlansAssumption
<1>6. QED BY <1>2, <1>3, <1>5 DEF This

(* The one log of a check or a reader is still its own when it has been    *)
(* confirmed.                                                              *)
LEMMA OneMoves ==
  ASSUME TypeOK, Owes, Going, AtWork, op.kind \in One, Moves, Drops,
         SameItem(1) \/ This.do = "log",
         This.do = "confirm" => op.items[1] \in DOMAIN logs' /\ logs'[op.items[1]].owner = op.ref
  PROVE  op'.items[1] = 0 \/ Ahead({"confirm"})' \/ Its(1)'
<1>1. op # Idle /\ op'.ref = op.ref
  BY DEF Moves, SamePlan, Going
<1>2. op.items[1] = 0 \/ Ahead({"confirm"}) \/ Its(1)
  BY AtWorkWorking DEF Items, Works, One, Readers
<1>3. CASE op.way = "work" /\ This.do \in {"reap", "log", "copy"}
  <2>1. op.pc \in 1..Len(Plan)
    BY <1>1, OpTyped, PlanLen DEF Going
  <2>2. CASE op.kind \in Readers
    BY <1>3, <2>2, Follows, StaysAhead DEF Followed, This
  <2>3. CASE op.kind = "check"
    <3>1. Plan = Program["check"]
      BY <1>3, <2>3 DEF Plan, PlanOf
    <3>2. Later(op.kind, Plan, op.pc, {"confirm"})
      BY <1>3, <2>1, <2>3, <3>1, PlansAssumption DEF This
    <3>3. QED BY <3>2, StaysAhead
  <2>4. QED BY <2>2, <2>3 DEF One
<1>4. CASE op.way = "unlogged"
  <2>1. This.do # "log" /\ op.items[1] = 0
    BY <1>4, Unlogged DEF NoItems
  <2>2. QED BY <2>1 DEF SameItem
<1>5. CASE op.way = "work" /\ This.do = "confirm"
  BY <1>1, <1>5 DEF Its, SameItem
<1>6. CASE op.way = "work" /\ This.do \notin {"confirm", "reap", "log", "copy"}
  <2>1. op'.items[1] = op.items[1]
    BY <1>6 DEF SameItem
  <2>2. Ahead({"confirm"}) => Ahead({"confirm"})'
    BY <1>6, AheadMoves
  <2>3. Its(1) => Its(1)'
    BY <1>1, <1>6, <2>1 DEF Its, Drops
  <2>4. QED BY <1>2, <2>1, <2>2, <2>3
<1>7. QED BY <1>3, <1>4, <1>5, <1>6 DEF AtWork

-----------------------------------------------------------------------------
(* A step at work that goes on.                                            *)

Looked ==
  /\ This.do \in Looks => root = opened[op.ref]
  /\ IF This.do \in {"source", "copy"} THEN op'.seen = (root = opened[op.ref])
     ELSE op'.seen = op.seen
Holding ==
  /\ op.ref \in DOMAIN entries => op.ref \in DOMAIN entries' \/ This.do = "reap"
  /\ This.do \in Holds => op.ref \in DOMAIN entries'
Recorded ==
  \A r \in 1..2 :
    \/ SameItem(r)
    \/ /\ This.do = "log" /\ op.kind \notin Readers
       /\ op.kind = "gate" => Kept(r)'
Confirmed ==
  This.do = "confirm" /\ op.kind \in One =>
    op.items[1] \in DOMAIN logs' /\ logs'[op.items[1]].owner = op.ref

LEMMA WorkingMoves ==
  ASSUME TypeOK, Owes, Going, AtWork, Works(op.kind), Moves,
         UNCHANGED <<clock, root, opened>>, Looked, Holding, Drops, Recorded, Confirmed,
         Retained, op.kind = "gate" => Leases
  PROVE  Working'
<1>1. op'.kind = op.kind /\ op'.ref = op.ref
  BY DEF Moves, SamePlan
<1>2. Copies(op.kind) => Fresh' /\ Seen'
  BY FreshMoves, SeenMoves DEF Looked
<1>3. Held'
  BY HeldMoves DEF Holding
<1>4. Items'
  <2>1. ASSUME op.kind = "gate", NEW r \in 1..2, op'.items[r] # 0
        PROVE  (Kept(r) \/ Late(r) \/ Lost)'
    <3>1. CASE SameItem(r)
      BY <2>1, <3>1, ItemMoves DEF SameItem
    <3>2. CASE ~SameItem(r)
      BY <2>1, <3>2 DEF Recorded, SameItem
    <3>3. QED BY <3>1, <3>2
  <2>2. ASSUME op.kind \in One
        PROVE  op'.items[1] = 0 \/ Ahead({"confirm"})' \/ Its(1)'
    <3>1. SameItem(1) \/ This.do = "log"
      BY DEF Recorded, SameItem
    <3>2. QED BY <2>2, <3>1, OneMoves DEF Confirmed
  <2>3. QED BY <1>1, <2>1, <2>2 DEF Items
<1>5. QED BY <1>1, <1>2, <1>3, <1>4 DEF Working

LEMMA LogsMove ==
  ASSUME TypeOK, Owes, Going, op.way = "work", op.kind \notin Readers, Moves, Recorded
  PROVE  Logs'
<1>1. op # Idle /\ op.pc \in Nat \ {0} /\ op.pc <= Len(Plan) /\ Len(Plan) \in Nat
  BY OpTyped, PlanLen DEF Going
<1>2. Plan' = Plan /\ op'.pc \in Nat /\ op'.pc > op.pc
  BY DEF Moves, Jumps
<1>3. Logs
  BY <1>1 DEF Owes
<1>4. ASSUME NEW r \in 1..2, op'.items[r] # 0
      PROVE  \E k \in 1..Len(Plan') : k < op'.pc /\ Plan'[k].do = "log"
  <2>1. CASE This.do = "log"
    <3>1. op.pc \in 1..Len(Plan) /\ Plan[op.pc].do = "log"
      BY <1>1, <2>1 DEF This
    <3>2. QED BY <1>2, <3>1
  <2>2. CASE This.do # "log"
    <3>1. op.items[r] # 0
      BY <1>4, <2>2 DEF Recorded, SameItem
    <3>2. PICK k \in 1..Len(Plan) : k < op.pc /\ Plan[k].do = "log"
      BY <1>3, <3>1 DEF Logs
    <3>3. k < op'.pc
      BY <1>1, <1>2, <3>2
    <3>4. QED BY <1>2, <3>2, <3>3
  <2>3. QED BY <2>1, <2>2
<1>5. QED BY <1>4 DEF Logs

LEMMA WorkOwes ==
  ASSUME TypeOK, Owes, Going, AtWork, Moves, op' # Idle, Rows', Recorded,
         Works(op.kind) => /\ UNCHANGED <<clock, root, opened>> /\ Looked /\ Holding /\ Retained
                           /\ Drops /\ Confirmed /\ Retained
                           /\ (op.kind = "gate" => Leases)
  PROVE  Owes'
<1>1. op'.kind = op.kind /\ op'.way = op.way
  BY DEF Moves, SamePlan
<1>2. Working'
  <2>1. CASE Works(op.kind)
    BY <2>1, WorkingMoves
  <2>2. CASE ~Works(op.kind)
    BY <1>1, <2>2 DEF Working, Copies
  <2>3. QED BY <2>1, <2>2
<1>3. CASE op.way = "work"
  <2>1. op.kind \in Readers \/ Logs'
    BY <1>3, LogsMove
  <2>2. QED BY <1>1, <1>2, <1>3, <2>1 DEF Owes
<1>4. CASE op.way = "unlogged"
  <2>1. op.kind = "check" /\ This.do # "log" /\ NoItems
    BY <1>4, Unlogged
  <2>2. NoItems'
    BY <2>1 DEF NoItems, Recorded, SameItem
  <2>3. QED BY <1>1, <1>2, <1>4, <2>1, <2>2 DEF Owes
<1>5. QED BY <1>3, <1>4 DEF AtWork

-----------------------------------------------------------------------------
(* A step that turns to another plan.                                      *)

LEMMA RecoveryIs ==
  ASSUME NEW names \in Seq(Remedies)
  PROVE  /\ Len(Recovery(names)) = Len(names)
         /\ \A i \in 1..Len(names) : Recovery(names)[i] = Step(names[i], 0, <<>>)
<1>1. Len(names) \in Nat
  OBVIOUS
<1>2. QED BY <1>1, StepsAre DEF Recovery

LEMMA TypedRecovery ==
  ASSUME TypeOK, Owes, Going
  PROVE  This.recovery \in Seq(Remedies)
<1>1. op # Idle /\ op.pc \in Nat \ {0} /\ op.pc <= Len(Plan)
  BY OpTyped DEF Going
<1>2. CASE AtWork
  BY <1>2, Follows DEF Instructions
<1>3. CASE op.way = "recovery"
  <2>1. op.pc \in 1..Len(Plan) /\ Len(Plan) \in Nat
    BY <1>1, PlanLen
  <2>2. This = Step(op.recovery[op.pc], 0, <<>>)
    BY <1>1, <1>3, <2>1, RecoveryShape DEF This
  <2>3. This.recovery = <<>>
    BY <2>2 DEF Step
  <2>4. QED BY <2>3
<1>4. CASE op.way = "rejection"
  <2> Len(Plan) = 3
    BY <1>1, <1>4, RejectionShape
  <2>1. op.pc = 1 \/ op.pc = 2 \/ op.pc = 3
    BY <1>1
  <2>2. This.recovery = op.recovery
    BY <1>1, <1>4, <2>1, RejectionShape DEF This, Step
  <2>3. QED BY <1>1, <2>2, OpTyped
<1>5. QED BY <1>1, <1>2, <1>3, <1>4, OpTyped DEF AtWork

Turned(way) ==
  /\ op' \in Operations /\ op' # Idle /\ op'.kind = op.kind /\ op'.ref = op.ref
  /\ op'.way = way /\ op'.recovery = This.recovery /\ op'.pc = 1
  /\ op'.given = op.given /\ op'.items = op.items /\ op'.until = op.until
  /\ op'.cancel = op.cancel /\ op'.seen = op.seen

LEMMA Turns ==
  ASSUME TypeOK, Owes, Going,
         NEW way \in {"work", "unlogged", "rejection", "recovery"}, Turn(way)
  PROVE  Turned(way)
<1>1. op # Idle /\ op \in Operations /\ This.recovery \in Seq(Remedies)
  BY OpTyped, TypedRecovery DEF Going
<1>2. op' = [op EXCEPT !.way = way, !.recovery = This.recovery, !.pc = 1]
  BY DEF Turn
<1>3. /\ op'.kind = op.kind /\ op'.ref = op.ref
      /\ op'.way = way /\ op'.recovery = This.recovery /\ op'.pc = 1
      /\ op'.given = op.given /\ op'.items = op.items /\ op'.until = op.until
      /\ op'.cancel = op.cancel /\ op'.seen = op.seen
  BY <1>1, <1>2 DEF Operations
<1>4. op' \in Operations
  <2>1. PICK names \in Seq(Remedies) : names = This.recovery
    BY <1>1
  <2>2. op' = [op EXCEPT !.way = way, !.recovery = names, !.pc = 1]
    BY <1>2, <2>1
  <2>3. op' = [kind |-> op.kind, ref |-> op.ref, way |-> way, recovery |-> names,
               pc |-> 1, given |-> op.given, items |-> op.items, until |-> op.until,
               cancel |-> op.cancel, seen |-> op.seen]
    BY <1>1, <2>2 DEF Operations
  <2>4. QED BY <1>1, <2>1, <2>3, OpTyped DEF Operations
<1>5. op' # Idle
  BY <1>4, <1>1, <1>2 DEF Operations, Idle
<1>6. QED BY <1>3, <1>4, <1>5 DEF Turned

LEMMA TurnRows ==
  ASSUME Owes, Going, NEW way \in {"unlogged", "rejection", "recovery"}, Turned(way), drawn' = drawn
  PROVE  Rows'
  BY DEF Owes, Going, Rows, Turned

LEMMA RemedyAhead ==
  ASSUME TypeOK, Owes, Going, Turned("recovery"), NEW name \in Range(This.recovery)
  PROVE  Ahead({name})'
<1>1. This.recovery \in Seq(Remedies)
  BY TypedRecovery
<1>2. Plan' = Recovery(This.recovery)
  BY DEF Plan, PlanOf, Turned
<1>3. PICK j \in 1..Len(This.recovery) : This.recovery[j] = name
  BY <1>1 DEF Range
<1>4. Len(Plan') = Len(This.recovery) /\ Plan'[j] = Step(name, 0, <<>>)
  BY <1>1, <1>2, <1>3, RecoveryIs
<1>5. Plan'[j].do = name /\ Plan'[j].row = 0
  BY <1>4 DEF Step
<1>6. j > op'.pc - 1
  BY <1>1, <1>3 DEF Turned
<1>7. QED BY <1>3, <1>4, <1>5, <1>6 DEF Ahead, Later, Firm

(* Before any log is written there is nothing to take back.                *)
LEMMA NothingLogged ==
  ASSUME TypeOK, Owes, Going, AtWork, op.kind \notin Readers, ~NoItems
  PROVE  \E m \in 1..Len(Plan) : m < op.pc /\ Plan[m].do = "log"
<1>1. op # Idle
  BY DEF Going
<1>2. op.way # "unlogged"
  BY <1>1 DEF Owes
<1>3. Logs
  BY <1>1, <1>2 DEF Owes, AtWork
<1>4. QED BY <1>3 DEF Logs, NoItems

LEMMA GoneWithout ==
  ASSUME TypeOK, NoItems, op'.items = op.items, DOMAIN logs' \subseteq DOMAIN logs
  PROVE  Gone'
<1>1. 0 \notin DOMAIN logs
  BY RegistryAssumption DEF TypeOK
<1>2. QED BY <1>1 DEF NoItems, Gone

LEMMA FailOwes ==
  ASSUME TypeOK, Owes, Going, AtWork \/ op.way = "rejection", Turned("recovery"),
         This.do # "reap", DOMAIN logs' \subseteq DOMAIN logs, drawn' = drawn,
         This.do = "log" /\ op.kind = "tests" => faults' # 0
  PROVE  Owes'
<1>1. Rows'
  BY TurnRows
<1>2. op # Idle /\ op'.kind = op.kind /\ op'.items = op.items
  BY DEF Going, Turned
<1>3. ASSUME op.kind \in Readers PROVE Ahead({"reap"})'
  <2>1. AtWork
    BY <1>2, <1>3 DEF Owes
  <2>2. "reap" \in Range(This.recovery)
    BY <1>3, <2>1, Follows DEF Followed, This
  <2>3. QED BY <2>2, RemedyAhead
<1>4. ASSUME Undoes(op.kind), op.kind = "tests" => faults' = 0
      PROVE  Gone' \/ Ahead({"undo"})'
  <2>1. CASE NoItems
    BY <1>2, <2>1, GoneWithout
  <2>2. CASE ~NoItems
    <3>1. AtWork /\ op.kind \notin Readers
      BY <1>2, <1>4, <2>2 DEF Owes, Undoes, Readers
    <3>2. \E m \in 1..Len(Plan) : m < op.pc /\ Plan[m].do = "log"
      BY <2>2, <3>1, NothingLogged
    <3>3. Staging(op.kind, Plan, op.pc)
      BY <3>1, Follows
    <3>4. "undo" \in Range(This.recovery)
      BY <1>4, <3>2, <3>3 DEF Staging, This
    <3>5. QED BY <3>4, RemedyAhead
  <2>3. QED BY <2>1, <2>2
<1>5. Remedied'
  BY <1>2, <1>3, <1>4 DEF Remedied
<1>6. op'.way = "recovery"
  BY DEF Turned
<1>7. QED BY <1>1, <1>5, <1>6 DEF Owes

LEMMA RejectedOwes ==
  ASSUME TypeOK, Owes, Going, AtWork, This.do = "source", Turned("rejection"), drawn' = drawn
  PROVE  Owes'
<1>1. op # Idle /\ op'.way = "rejection" /\ op'.kind = op.kind /\ op'.items = op.items
      /\ op'.pc = 1
  BY DEF Going, Turned
<1>2. Followed(op.kind, Plan, op.pc) /\ Staging(op.kind, Plan, op.pc)
  BY Follows
<1>3. op.kind \notin Readers
  BY <1>2 DEF Followed, This
<1>4. NoItems
  <2>1. ~ \E m \in 1..Len(Plan) : m < op.pc /\ Plan[m].do = "log"
    BY <1>2 DEF Staging, This
  <2>2. QED BY <2>1, <1>3, NothingLogged
<1>5. NoItems'
  BY <1>1, <1>4 DEF NoItems
<1>6. Rows'
  BY TurnRows
<1>7. QED BY <1>1, <1>3, <1>5, <1>6 DEF Owes

LEMMA OmittedOwes ==
  ASSUME TypeOK, Owes, Going, op.kind = "check", op.way = "work", This.do = "log",
         Turned("unlogged"), UNCHANGED <<root, opened, drawn>>
  PROVE  Owes'
<1>1. op # Idle /\ op'.way = "unlogged" /\ op'.kind = "check" /\ op'.items = op.items
      /\ op'.ref = op.ref /\ op'.seen = op.seen /\ op'.pc = 1
  BY DEF Going, Turned
<1>2. Staging(op.kind, Plan, op.pc) /\ AtWork
  BY Follows DEF AtWork
<1>3. NoItems
  <2>1. ~ \E m \in 1..Len(Plan) : m < op.pc /\ Plan[m].do = "log"
    BY <1>2 DEF Staging, This
  <2>2. QED BY <2>1, <1>2, NothingLogged DEF Readers
<1>4. NoItems'
  BY <1>1, <1>3 DEF NoItems
<1>5. Plan' = CheckUnlogged
  BY <1>1 DEF Plan, PlanOf
<1>6. Later("check", CheckUnlogged, 0, Looks) /\ Later("check", CheckUnlogged, 0, Holds)
  BY PlansAssumption DEF Shaped, Works, Copies
<1>7. Seen' /\ Held'
  BY <1>1, <1>5, <1>6 DEF Seen, Held, Ahead
<1>8. Fresh'
  <2>1. ~Ahead({"source"})
    <3>1. SUFFICES ASSUME Ahead({"source"}) PROVE FALSE
      OBVIOUS
    <3>2. Later(op.kind, Plan, op.pc, {"source"})
      BY <3>1, AheadBut
    <3>3. PICK j \in 1..Len(Plan) : j > op.pc /\ Plan[j].do = "source"
      BY <3>2 DEF Later
    <3>4. Staging(op.kind, Plan, j)
      BY <1>1, WorkShape DEF Shaped
    <3>5. op.pc \in 1..Len(Plan) /\ op.pc < j /\ Plan[op.pc].do = "log"
      BY <1>1, <3>3, OpTyped, PlanLen DEF Going, This
    <3>6. QED BY <3>3, <3>4, <3>5 DEF Staging
  <2>2. Current
    BY <1>2, <2>1, AtWorkWorking DEF Fresh, Readers, Works, Copies
  <2>3. Current'
    BY <1>1, <2>2 DEF Current
  <2>4. QED BY <2>3 DEF Fresh
<1>9. Items'
  BY <1>1, <1>4 DEF Items, NoItems
<1>10. Rows'
  BY TurnRows
<1>11. Working'
  BY <1>7, <1>8, <1>9 DEF Working
<1>12. QED BY <1>1, <1>4, <1>10, <1>11 DEF Owes

(* An error is looked into, and a remedy applied.                          *)
LEMMA RejectionOwes ==
  ASSUME TypeOK, Owes, Going, op.way = "rejection", Moves, op' # Idle, Rows',
         op'.items = op.items, This.do # "reject"
  PROVE  Owes'
<1>1. op # Idle /\ op.pc \in Nat \ {0} /\ op.pc <= Len(Plan)
  BY OpTyped DEF Going
<1>2. Len(Plan) = 3 /\ Plan[3].do = "reject" /\ Plan[3].row = 0
  BY <1>1, RejectionShape DEF Step
<1>3. op.pc # 3
  BY <1>2 DEF This
<1>4. op'.pc <= 3
  <2>1. 3 \in 1..Len(Plan) /\ 3 > op.pc
    BY <1>1, <1>2, <1>3
  <2>2. QED BY <1>2, <2>1 DEF Moves, Spares, Firm
<1>5. op'.way = "rejection" /\ op'.kind = op.kind
  BY DEF Moves, SamePlan
<1>6. op.kind \notin Readers /\ NoItems
  BY <1>1 DEF Owes
<1>7. NoItems'
  BY <1>6 DEF NoItems
<1>8. QED BY <1>4, <1>5, <1>6, <1>7 DEF Owes

LEMMA InRecovery ==
  ASSUME TypeOK, Owes, Going, op.way = "recovery"
  PROVE  This.do \in {"undo", "reap"}
<1>1. op # Idle /\ op.pc \in Nat \ {0} /\ op.pc <= Len(Plan)
  BY OpTyped DEF Going
<1>2. op.pc \in 1..Len(Plan) /\ Len(Plan) \in Nat
  BY <1>1, PlanLen
<1>3. This = Step(op.recovery[op.pc], 0, <<>>) /\ op.recovery[op.pc] \in Remedies
  BY <1>1, <1>2, RecoveryShape DEF This
<1>4. QED BY <1>3 DEF Step, Remedies

LEMMA RecoveryOwes ==
  ASSUME TypeOK, Owes, Going, op.way = "recovery", Moves, op' # Idle, Rows',
         op'.items = op.items, faults' = faults,
         DOMAIN logs' \subseteq DOMAIN logs,
         \A i \in DOMAIN logs' : logs'[i] = logs[i],
         This.do = "undo" => entries' = entries /\ Gone',
         This.do = "reap" => Clean'
  PROVE  Owes'
<1>1. op # Idle /\ op'.kind = op.kind /\ op'.way = op.way
  BY DEF Going, Moves, SamePlan
<1>2. This.do \in {"undo", "reap"} /\ Remedied
  BY <1>1, InRecovery DEF Owes
<1>3. ASSUME Gone \/ Ahead({"undo"}) PROVE Gone' \/ Ahead({"undo"})'
  <2>1. CASE This.do = "undo"
    BY <2>1
  <2>2. CASE This.do # "undo" /\ Gone
    BY <2>2 DEF Gone
  <2>3. CASE This.do # "undo" /\ Ahead({"undo"})
    BY <2>3, AheadMoves
  <2>4. QED BY <1>3, <2>1, <2>2, <2>3
<1>4. ASSUME Clean \/ Ahead({"reap"}) PROVE Clean' \/ Ahead({"reap"})'
  <2>1. CASE This.do = "reap"
    BY <2>1
  <2>2. CASE This.do = "undo" /\ Clean
    BY <2>2 DEF Clean
  <2>3. CASE This.do = "undo" /\ Ahead({"reap"})
    BY <2>3, AheadMoves
  <2>4. QED BY <1>2, <1>4, <2>1, <2>2, <2>3
<1>5. Remedied'
  BY <1>1, <1>2, <1>3, <1>4 DEF Remedied
<1>6. QED BY <1>1, <1>5 DEF Owes

-----------------------------------------------------------------------------
(* The actions, and what they leave owed.                                  *)

LEMMA InRejection ==
  ASSUME TypeOK, Going, op.way = "rejection"
  PROVE  This.do \in {"lookup", "observe", "reject"}
<1>1. op # Idle /\ op.pc \in Nat \ {0} /\ op.pc <= Len(Plan)
  BY OpTyped DEF Going
<1> Len(Plan) = 3
  BY <1>1, RejectionShape
<1>2. op.pc = 1 \/ op.pc = 2 \/ op.pc = 3
  BY <1>1
<1>3. QED BY <1>1, <1>2, RejectionShape DEF This, Step

LEMMA MustWork ==
  ASSUME TypeOK, Owes, Going, This.do \notin {"lookup", "observe", "reject", "undo", "reap"}
  PROVE  AtWork
<1>1. op # Idle
  BY DEF Going
<1>2. op.way # "recovery" /\ op.way # "rejection"
  BY InRecovery, InRejection
<1>3. QED BY <1>1, <1>2, OpTyped DEF AtWork

LEMMA RowsMove ==
  ASSUME Owes, Going, Moves, op'.given = op.given, op'.items = op.items,
         drawn \subseteq drawn'
  PROVE  Rows'
  BY DEF Owes, Going, Rows, Moves, SamePlan

LEMMA Lives ==
  ASSUME TypeOK, UNCHANGED clock,
         DOMAIN entries' \subseteq DOMAIN entries,
         \A r \in DOMAIN entries' : entries'[r] = entries[r]
  PROVE  Live' \subseteq Live
  BY DEF Live, Within

LEMMA QuietLogs ==
  ASSUME UNCHANGED logs
  PROVE  Drops
  BY DEF Drops

(* Nothing but the operation itself changes.                               *)
LEMMA QuietOwes ==
  ASSUME TypeOK, Owes, Going, Proceed, AtWork,
         UNCHANGED <<clock, root, entries, opened, logs, drawn>>,
         This.do \notin {"lookup", "touch", "source", "copy", "confirm"},
         This.do \in Looks => root = opened[op.ref], Retained
  PROVE  Owes'
<1>1. /\ Moves /\ op' # Idle /\ op'.given = op.given /\ op'.items = op.items
      /\ op'.until = op.until /\ op'.seen = op.seen
  BY Proceeds
<1>2. Rows'
  BY <1>1, RowsMove
<1>3. Recorded
  BY <1>1 DEF Recorded, SameItem
<1>4. Looked /\ Holding /\ Confirmed /\ Retained
  BY <1>1 DEF Looked, Holding, Retained, Confirmed, Holds
<1>5. Drops
  BY QuietLogs
<1>6. Live' \subseteq Live
  BY Lives
<1>7. Leases
  BY <1>6 DEF Leases, Holds
<1>8. QED BY <1>1, <1>2, <1>3, <1>4, <1>5, <1>7, WorkOwes

(* The operations without a project to answer for.                         *)
LEMMA FreeOwes ==
  ASSUME TypeOK, Owes, Going, Proceed, AtWork, ~Works(op.kind), drawn' = drawn
  PROVE  Owes'
<1>1. /\ Moves /\ op' # Idle /\ op'.given = op.given /\ op'.items = op.items
      /\ op'.until = op.until
  BY Proceeds
<1>2. Rows'
  BY <1>1, RowsMove
<1>3. Recorded
  BY <1>1 DEF Recorded, SameItem
<1>4. QED BY <1>1, <1>2, <1>3, WorkOwes

LEMMA FailingOwes ==
  ASSUME TypeOK, Owes, Going, Fail, This.do \notin {"undo", "reap", "log"},
         logs' = logs, drawn' = drawn
  PROVE  Owes'
<1>1. Turned("recovery")
  BY Turns DEF Fail
<1>2. op.way # "recovery"
  BY InRecovery
<1>3. AtWork \/ op.way = "rejection"
  BY <1>2, OpTyped DEF AtWork, Going
<1>4. QED BY <1>1, <1>3, FailOwes

LEMMA OpenOwes ==
  ASSUME TypeOK, Owes, Going, Admit \/ Insert
  PROVE  Owes'
<1>1. Going /\ This.do \in {"admit", "insert"} /\ UNCHANGED <<logs, drawn>>
  BY DEF Admit, Insert, Doing, store
<1>2. AtWork
  BY <1>1, MustWork
<1>3. ~Works(op.kind)
  BY <1>1, <1>2, Follows DEF Followed, This, Works
<1>4. CASE Proceed
  BY <1>1, <1>2, <1>3, <1>4, FreeOwes
<1>5. CASE Fail
  BY <1>1, <1>5, FailingOwes
<1>6. QED BY <1>4, <1>5 DEF Admit, Insert

LEMMA PublishOwes ==
  ASSUME TypeOK, Owes, Going, Publish
  PROVE  Owes'
<1>1. Going /\ This.do = "publish" /\ UNCHANGED <<logs, drawn>>
  BY DEF Publish, Doing, store
<1>2. AtWork
  BY <1>1, MustWork
<1>3. ~Works(op.kind)
  BY <1>1, <1>2, Follows DEF Followed, This, Works
<1>4. CASE Proceed
  BY <1>1, <1>2, <1>3, <1>4, FreeOwes
<1>5. CASE Fail
  BY <1>1, <1>5, FailingOwes
<1>6. QED BY <1>4, <1>5 DEF Publish

LEMMA LookOwes ==
  ASSUME TypeOK, Owes, Going, Observe \/ ObserveChanged \/ ObserveCancelled \/ Facts
  PROVE  Owes'
<1>1. Going /\ This.do \in {"observe", "renew", "facts"}
      /\ UNCHANGED <<clock, root, opened, logs, drawn>>
  BY DEF Observe, ObserveChanged, ObserveCancelled, Facts, Doing, store, world
<1>2. CASE Fail
  BY <1>1, <1>2, FailingOwes
<1>3. CASE Proceed /\ root = opened[op.ref] /\ UNCHANGED entries
  <2>1. CASE AtWork
    BY <1>1, <1>3, <2>1, QuietOwes DEF Retained
  <2>2. CASE ~AtWork
    <3>1. op.way = "rejection"
      BY <1>1, <2>2, InRecovery, OpTyped DEF AtWork, Going
    <3>2. /\ Moves /\ op' # Idle /\ op'.given = op.given /\ op'.items = op.items
      BY <1>1, <1>3, Proceeds
    <3>3. Rows'
      BY <1>1, <3>2, RowsMove
    <3>4. QED BY <1>1, <3>1, <3>2, <3>3, RejectionOwes
  <2>3. QED BY <2>1, <2>2
<1>4. QED BY <1>2, <1>3 DEF Observe, ObserveChanged, ObserveCancelled, Facts, Same

LEMMA RenewOwes ==
  ASSUME TypeOK, Owes, Going, ObserveTouch
  PROVE  Owes'
<1>1. Going /\ This.do = "renew" /\ Proceed /\ entries' = Renewed /\ root = opened[op.ref]
      /\ UNCHANGED <<clock, root, opened, logs, drawn>>
  BY DEF ObserveTouch, Doing, store, world, Same
<1>2. AtWork
  BY <1>1, MustWork
<1>3. /\ Moves /\ op' # Idle /\ op'.given = op.given /\ op'.items = op.items
      /\ op'.until = op.until /\ op'.seen = op.seen
  BY <1>1, Proceeds
<1>4. Rows'
  BY <1>1, <1>3, RowsMove
<1>5. Recorded
  BY <1>3 DEF Recorded, SameItem
<1>6. DOMAIN entries' = DOMAIN entries
  BY <1>1 DEF Renewed
<1>7. Looked /\ Holding /\ Confirmed /\ Drops /\ Retained
  BY <1>1, <1>3, <1>6 DEF Looked, Holding, Retained, Confirmed, Holds, Drops
<1>8. op.kind # "gate"
  BY <1>1, <1>2, Follows DEF Followed, This, Logged, One
<1>9. QED BY <1>1, <1>2, <1>3, <1>4, <1>5, <1>7, <1>8, WorkOwes

LEMMA LookupOwes ==
  ASSUME TypeOK, Owes, Going, Lookup
  PROVE  Owes'
<1>1. Going /\ This.do = "lookup" /\ UNCHANGED <<clock, root, opened, logs, drawn>>
  BY DEF Lookup, Doing, store, world
<1>2. CASE Fail
  BY <1>1, <1>2, FailingOwes
<1>3. CASE Prune /\ op.ref \in DOMAIN entries' /\ Proceed
  <2>1. /\ Moves /\ op' # Idle /\ op'.given = op.given /\ op'.items = op.items
        /\ op'.until = op.until /\ op'.seen = op.seen
    BY <1>1, <1>3, Proceeds
  <2>2. Rows'
    BY <1>1, <2>1, RowsMove
  <2>3. entries' = [r \in Live |-> entries[r]]
    BY <1>3 DEF Prune, Restrict
  <2>4. DOMAIN entries' = Live /\ \A r \in Live : entries'[r] = entries[r] /\ r \in DOMAIN entries
    BY <2>3 DEF Live
  <2>5. Live' \subseteq Live
    BY <1>1, <2>4, Lives
  <2>6. CASE AtWork
    <3>1. Recorded
      BY <2>1 DEF Recorded, SameItem
    <3>2. Looked /\ Holding /\ Confirmed /\ Drops /\ Retained
      BY <1>1, <1>3, <2>1 DEF Looked, Holding, Retained, Confirmed, Drops, Looks
    <3>3. Leases
      BY <1>3, <2>4, <2>5 DEF Leases
    <3>4. QED BY <1>1, <2>1, <2>2, <2>6, <3>1, <3>2, <3>3, WorkOwes
  <2>7. CASE ~AtWork
    <3>1. op.way = "rejection"
      BY <1>1, <2>7, InRecovery, OpTyped DEF AtWork, Going
    <3>2. QED BY <1>1, <2>1, <2>2, <3>1, RejectionOwes
  <2>8. QED BY <2>6, <2>7
<1>4. QED BY <1>2, <1>3 DEF Lookup

LEMMA TouchOwes ==
  ASSUME TypeOK, Owes, Going, Touch
  PROVE  Owes'
<1>1. Going /\ This.do = "touch" /\ UNCHANGED <<clock, root, opened, logs, drawn>>
  BY DEF Touch, Doing, store, world
<1>2. CASE Fail
  BY <1>1, <1>2, FailingOwes
<1>3. CASE op.ref \in Live /\ Proceed /\ entries' = Restrict(Renewed, Live)
  <2>1. /\ Moves /\ op' # Idle /\ op'.given = op.given /\ op'.items = op.items
        /\ op'.until = op.until /\ op'.seen = op.seen
    BY <1>1, <1>3, Proceeds
  <2>2. Rows'
    BY <1>1, <2>1, RowsMove
  <2>3. DOMAIN entries' = Live
    BY <1>3 DEF Restrict
  <2>4. AtWork
    BY <1>1, MustWork
  <2>5. op.pc = Len(Plan)
    BY <1>1, <2>4, Follows DEF Followed, This
  <2>6. ~(op'.pc <= Len(Plan))
    BY <1>1, <2>1, <2>5, PlanLen DEF Moves, Jumps, Going
  <2>7. Recorded
    BY <2>1 DEF Recorded, SameItem
  <2>8. Looked /\ Holding /\ Confirmed /\ Drops /\ Retained
    BY <1>1, <1>3, <2>1, <2>3 DEF Looked, Holding, Retained, Confirmed, Drops, Looks
  <2>9. Leases
    BY <1>3 DEF Leases
  <2>10. QED BY <1>1, <2>1, <2>2, <2>4, <2>7, <2>8, <2>9, WorkOwes
<1>4. QED BY <1>2, <1>3 DEF Touch

LEMMA SightGoes ==
  ASSUME TypeOK, Owes, Going, GoOn([op EXCEPT !.seen = root = opened[op.ref]])
  PROVE  /\ Moves /\ op' # Idle /\ op'.given = op.given /\ op'.items = op.items
         /\ op'.until = op.until /\ op'.seen = (root = opened[op.ref])
<1>1. op # Idle /\ op \in Operations
  BY OpTyped DEF Going
<1>2. PICK o : o = [op EXCEPT !.seen = (root = opened[op.ref])]
  OBVIOUS
<1>3. /\ o \in Operations /\ o.kind = op.kind /\ o.ref = op.ref /\ o.way = op.way
      /\ o.recovery = op.recovery /\ o.pc = op.pc /\ o.given = op.given
      /\ o.items = op.items /\ o.until = op.until /\ o.seen = (root = opened[op.ref])
  BY <1>1, <1>2 DEF Operations
<1>4. GoOn(o)
  BY <1>2
<1>5. 0 \notin o.given /\ (o.given # {} => op.kind \in {"gate", "tests", "coverage"})
  BY <1>1, <1>3 DEF Owes, Rows
<1>6. QED BY <1>3, <1>4, <1>5, GoesOn

LEMMA SourceOwes ==
  ASSUME TypeOK, Owes, Going, CaptureSource
  PROVE  Owes'
<1>1. Going /\ This.do = "source" /\ UNCHANGED <<clock, root, entries, opened, logs, drawn>>
  BY DEF CaptureSource, Doing, store, world
<1>2. AtWork /\ op # Idle /\ op \in Operations
  BY <1>1, MustWork, OpTyped DEF Going
<1>3. CASE Fail
  BY <1>1, <1>3, FailingOwes
<1>4. CASE Turn("rejection")
  <2>1. Turned("rejection")
    BY <1>1, <1>4, Turns
  <2>2. QED BY <1>1, <1>2, <2>1, RejectedOwes
<1>5. CASE GoOn([op EXCEPT !.seen = root = opened[op.ref]])
  <2>1. /\ Moves /\ op' # Idle /\ op'.given = op.given /\ op'.items = op.items
        /\ op'.until = op.until /\ op'.seen = (root = opened[op.ref])
    BY <1>1, <1>5, SightGoes
  <2>2. Rows'
    BY <1>1, <2>1, RowsMove
  <2>3. Recorded
    BY <2>1 DEF Recorded, SameItem
  <2>4. Looked /\ Holding /\ Confirmed /\ Drops /\ Retained
    BY <1>1, <2>1 DEF Looked, Holding, Retained, Confirmed, Drops, Looks, Holds
  <2>5. Leases
    BY <1>1 DEF Leases, Holds, Live, Within
  <2>6. QED BY <1>1, <1>2, <2>1, <2>2, <2>3, <2>4, <2>5, WorkOwes
<1>6. QED BY <1>3, <1>4, <1>5 DEF CaptureSource

LEMMA RejectOwes ==
  ASSUME TypeOK, Owes, Going, Reject
  PROVE  Owes'
  BY FailingOwes DEF Reject, Doing, store

LEMMA RowGiven ==
  ASSUME TypeOK, Owes, Going, SkipRow, This.row \in 1..2,
         op.kind \in {"gate", "tests", "coverage"}, drawn' = drawn
  PROVE  /\ Moves /\ op' # Idle /\ op'.items = op.items /\ op'.until = op.until
         /\ op'.seen = op.seen /\ Rows'
<1>1. op # Idle /\ op \in Operations
  BY OpTyped DEF Going
<1>2. PICK row \in 1..2 : row = This.row
  OBVIOUS
<1>3. PICK o : o = [op EXCEPT !.given = op.given \cup {row}]
  OBVIOUS
<1>4. /\ o.kind = op.kind /\ o.ref = op.ref /\ o.way = op.way
      /\ o.recovery = op.recovery /\ o.pc = op.pc /\ o.given = op.given \cup {row}
      /\ o.items = op.items /\ o.until = op.until /\ o.seen = op.seen
  BY <1>1, <1>3 DEF Operations
<1>5. o \in Operations
  <2>1. op.given \cup {row} \in SUBSET (0..2)
    BY <1>1, <1>2, OpTyped
  <2>2. QED BY <1>1, <1>3, <2>1 DEF Operations
<1>6. GoOn(o)
  BY <1>2, <1>3 DEF SkipRow
<1>7. 0 \notin o.given
  BY <1>1, <1>2, <1>4 DEF Owes, Rows
<1>8. /\ Moves /\ op' # Idle /\ op'.given = o.given /\ op'.items = op.items
      /\ op'.until = op.until /\ op'.seen = op.seen
  BY <1>4, <1>5, <1>6, <1>7, GoesOn
<1>9. Rows'
  BY <1>1, <1>4, <1>7, <1>8 DEF Owes, Rows, Moves, SamePlan, One, Readers
<1>10. QED BY <1>8, <1>9

LEMMA RunOwes ==
  ASSUME TypeOK, Owes, Going, Run \/ CheckControl
  PROVE  Owes'
<1>1. Going /\ This.do \in {"run", "check"}
      /\ UNCHANGED <<clock, root, entries, opened, logs, drawn>>
  BY DEF Run, CheckControl, Doing, store, world
<1>2. AtWork
  BY <1>1, MustWork
<1>3. CASE Fail
  BY <1>1, <1>3, FailingOwes
<1>4. CASE Proceed
  BY <1>1, <1>2, <1>4, QuietOwes DEF Looks, Retained
<1>5. CASE This.do = "run" /\ op.kind = "gate" /\ SkipRow
  <2>1. This.row # 0 /\ This \in Instructions
    BY <1>2, <1>5, <1>1, Follows DEF Staging, This
  <2>2. This.row \in 1..2
    BY <2>1 DEF Instructions
  <2>3. /\ Moves /\ op' # Idle /\ op'.items = op.items /\ op'.until = op.until
        /\ op'.seen = op.seen /\ Rows'
    BY <1>1, <1>5, <2>2, RowGiven
  <2>4. Recorded
    BY <2>3 DEF Recorded, SameItem
  <2>5. Looked /\ Holding /\ Confirmed /\ Drops /\ Retained
    BY <1>1, <2>3 DEF Looked, Holding, Retained, Confirmed, Drops, Looks, Holds
  <2>6. Leases
    BY <1>1 DEF Leases, Holds, Live, Within
  <2>7. QED BY <1>1, <1>2, <2>3, <2>4, <2>5, <2>6, WorkOwes
<1>6. QED BY <1>3, <1>4, <1>5 DEF Run, CheckControl, Doing

LEMMA ConsultOwes ==
  ASSUME TypeOK, Owes, Going, Consult
  PROVE  Owes'
<1>1. Going /\ This.do = "consult" /\ UNCHANGED <<clock, root, entries, opened, logs, drawn>>
  BY DEF Consult, Doing, store, world
<1>2. AtWork
  BY <1>1, MustWork
<1>3. CASE Fail
  BY <1>1, <1>3, FailingOwes
<1>4. CASE Proceed
  BY <1>1, <1>2, <1>4, QuietOwes DEF Looks, Retained
<1>5. QED BY <1>3, <1>4 DEF Consult

LEMMA RetainOwes ==
  ASSUME TypeOK, Owes, Going, Retain
  PROVE  Owes'
<1>1. Going /\ This.do = "retain" /\ UNCHANGED <<clock, root, entries, opened, logs, drawn>>
  BY DEF Retain, Doing, store, world
<1>2. AtWork
  BY <1>1, MustWork
<1>3. CASE Fail
  BY <1>1, <1>3, FailingOwes
<1>4. CASE Proceed /\ Retained
  BY <1>1, <1>2, <1>4, QuietOwes DEF Looks
<1>5. QED BY <1>3, <1>4 DEF Retain, Retained

LEMMA Keeps ==
  ASSUME NEW ids, ids \subseteq DOMAIN logs, Keep(ids)
  PROVE  DOMAIN logs' = ids /\ \A i \in ids : logs'[i] = logs[i]
  BY DEF Keep, Restrict

(* What is not unexpired has expired.                                      *)
LEMMA Expires ==
  ASSUME TypeOK, NEW i \in DOMAIN logs, i \notin Unexpired
  PROVE  logs[i].expires <= clock
<1>1. logs[i].expires \in Nat /\ clock \in Nat
  BY RegistryAssumption DEF TypeOK
<1>2. ~(logs[i].expires > clock)
  BY DEF Unexpired
<1>3. QED BY <1>1, <1>2

LEMMA KeepDrops ==
  ASSUME TypeOK, Keep(Unexpired), This.do \in {"reap", "log", "copy", "confirm"}
  PROVE  /\ Drops /\ DOMAIN logs' = Unexpired
         /\ \A i \in Unexpired : logs'[i] = logs[i]
<1>1. Unexpired \subseteq DOMAIN logs
  BY DEF Unexpired
<1>2. DOMAIN logs' = Unexpired /\ \A i \in Unexpired : logs'[i] = logs[i]
  BY <1>1, Keeps
<1>3. QED BY <1>2, Expires DEF Drops

LEMMA ReapOwes ==
  ASSUME TypeOK, Owes, Going, Reap
  PROVE  Owes'
<1>1. Going /\ This.do = "reap" /\ Prune /\ Proceed
      /\ Keep({i \in Unexpired : logs[i].owner \in DOMAIN entries'})
      /\ UNCHANGED <<clock, root, opened, drawn, faults>>
  BY DEF Reap, ReapOwners, Doing, world
<1>2. /\ Moves /\ op' # Idle /\ op'.given = op.given /\ op'.items = op.items
      /\ op'.until = op.until /\ op'.seen = op.seen
  BY <1>1, Proceeds
<1>3. Rows'
  BY <1>1, <1>2, RowsMove
<1>4. DOMAIN entries' = Live /\ \A r \in Live : entries'[r] = entries[r] /\ r \in DOMAIN entries
  BY <1>1 DEF Prune, Restrict, Live
<1>5. Live' \subseteq Live
  BY <1>1, <1>4, Lives
<1> DEFINE kept == {i \in Unexpired : logs[i].owner \in DOMAIN entries'}
<1>6. kept \subseteq DOMAIN logs
  BY DEF Unexpired
<1>7. DOMAIN logs' = kept /\ \A i \in kept : logs'[i] = logs[i]
  BY <1>1, <1>6, Keeps
<1>8. CASE AtWork
  <2>1. Recorded
    BY <1>2 DEF Recorded, SameItem
  <2>2. Looked /\ Holding /\ Confirmed /\ Retained
    BY <1>1, <1>2 DEF Looked, Holding, Retained, Confirmed, Looks, Holds
  <2>3. Drops
    <3>1. ASSUME NEW i \in DOMAIN logs, ~(i \in DOMAIN logs' /\ logs'[i] = logs[i])
          PROVE  logs[i].expires <= clock \/ logs[i].owner \notin Live
      <4>1. i \notin kept
        BY <1>7, <3>1
      <4>2. i \notin Unexpired \/ logs[i].owner \notin Live
        BY <1>4, <4>1
      <4>3. QED BY <4>2, Expires
    <3>2. QED BY <1>1, <3>1 DEF Drops
  <2>4. Leases
    BY <1>1, <1>4, <1>5 DEF Leases, Holds
  <2>5. QED BY <1>1, <1>2, <1>3, <1>8, <2>1, <2>2, <2>3, <2>4, WorkOwes
<1>9. CASE op.way = "recovery"
  <2>1. DOMAIN logs' \subseteq DOMAIN logs /\ \A i \in DOMAIN logs' : logs'[i] = logs[i]
    BY <1>6, <1>7
  <2>2. Clean'
    BY <1>7 DEF Clean
  <2>3. QED BY <1>1, <1>2, <1>3, <1>9, <2>1, <2>2, RecoveryOwes
<1>10. op.way # "rejection"
  BY <1>1, InRejection
<1>11. QED BY <1>1, <1>8, <1>9, <1>10, OpTyped DEF AtWork, Going

LEMMA UndoOwes ==
  ASSUME TypeOK, Owes, Going, Undo
  PROVE  Owes'
<1>1. Going /\ This.do = "undo" /\ Proceed /\ Keep(Unexpired \ Range(op.items))
      /\ UNCHANGED <<clock, root, entries, opened, drawn, faults>>
  BY DEF Undo, Doing, world
<1>2. /\ Moves /\ op' # Idle /\ op'.given = op.given /\ op'.items = op.items
      /\ op'.until = op.until /\ op'.seen = op.seen
  BY <1>1, Proceeds
<1>3. Rows'
  BY <1>1, <1>2, RowsMove
<1> DEFINE kept == Unexpired \ Range(op.items)
<1>4. kept \subseteq DOMAIN logs
  BY DEF Unexpired
<1>5. DOMAIN logs' = kept /\ \A i \in kept : logs'[i] = logs[i]
  BY <1>1, <1>4, Keeps
<1>6. op.way = "recovery"
  <2>1. ~AtWork
    <3>1. SUFFICES ASSUME AtWork PROVE FALSE
      OBVIOUS
    <3>2. This \in Instructions
      BY <1>1, <3>1, Follows
    <3>3. QED BY <1>1, <3>2 DEF Instructions
  <2>2. op.way # "rejection"
    BY <1>1, InRejection
  <2>3. QED BY <1>1, <2>1, <2>2, OpTyped DEF AtWork, Going
<1>7. Gone'
  <2>1. op.items \in [1..2 -> Ids \cup {0}]
    BY <1>1, OpTyped DEF Going
  <2>2. \A r \in 1..2 : op.items[r] \in Range(op.items)
    BY <2>1 DEF Range
  <2>3. QED BY <1>2, <1>5, <2>2 DEF Gone
<1>8. DOMAIN logs' \subseteq DOMAIN logs /\ \A i \in DOMAIN logs' : logs'[i] = logs[i]
  BY <1>4, <1>5
<1>9. QED BY <1>1, <1>2, <1>3, <1>6, <1>7, <1>8, RecoveryOwes

LEMMA ConfirmOwes ==
  ASSUME TypeOK, Owes, Going, Confirm
  PROVE  Owes'
<1>1. Going /\ This.do = "confirm" /\ Keep(Unexpired)
      /\ UNCHANGED <<clock, root, entries, opened, drawn, faults>>
  BY DEF Confirm, Doing, world
<1>2. AtWork
  BY <1>1, MustWork
<1>3. Drops /\ DOMAIN logs' = Unexpired /\ \A i \in Unexpired : logs'[i] = logs[i]
  BY <1>1, KeepDrops
<1>4. CASE Fail
  <2>1. Turned("recovery")
    BY <1>1, <1>4, Turns DEF Fail
  <2>2. DOMAIN logs' \subseteq DOMAIN logs
    BY <1>3 DEF Unexpired
  <2>3. QED BY <1>1, <1>2, <2>1, <2>2, FailOwes
<1>5. CASE Owned(op.items[This.row]) /\ Proceed
  <2>1. /\ Moves /\ op' # Idle /\ op'.given = op.given /\ op'.items = op.items
        /\ op'.until = op.until /\ op'.seen = op.seen
    BY <1>1, <1>5, Proceeds
  <2>2. Rows'
    BY <1>1, <2>1, RowsMove
  <2>3. Recorded
    BY <2>1 DEF Recorded, SameItem
  <2>4. Looked /\ Holding /\ Retained
    BY <1>1, <2>1 DEF Looked, Holding, Retained, Looks, Holds
  <2>5. Leases
    BY <1>1 DEF Leases, Holds, Live, Within
  <2>6. Confirmed
    <3>1. ASSUME op.kind \in One PROVE This.row = 1
      BY <3>1, <1>1, <1>2, Follows DEF Followed, This
    <3>2. QED BY <1>3, <1>5, <3>1 DEF Confirmed, Owned
  <2>7. QED BY <1>1, <1>2, <1>3, <2>1, <2>2, <2>3, <2>4, <2>5, <2>6, WorkOwes
<1>6. QED BY <1>4, <1>5 DEF Confirm

LEMMA CopyOwes ==
  ASSUME TypeOK, Owes, Going, Copy
  PROVE  Owes'
<1>1. Going /\ This.do = "copy" /\ Keep(Unexpired)
      /\ UNCHANGED <<clock, root, entries, opened, drawn, faults>>
  BY DEF Copy, Doing, world
<1>2. AtWork /\ op # Idle /\ op \in Operations
  BY <1>1, MustWork, OpTyped DEF Going
<1>3. Drops /\ DOMAIN logs' = Unexpired /\ \A i \in Unexpired : logs'[i] = logs[i]
  BY <1>1, KeepDrops
<1>4. CASE Fail
  <2>1. Turned("recovery")
    BY <1>1, <1>4, Turns DEF Fail
  <2>2. DOMAIN logs' \subseteq DOMAIN logs
    BY <1>3 DEF Unexpired
  <2>3. QED BY <1>1, <1>2, <2>1, <2>2, FailOwes
<1>5. CASE GoOn([op EXCEPT !.seen = root = opened[op.ref]])
  <2>1. /\ Moves /\ op' # Idle /\ op'.given = op.given /\ op'.items = op.items
        /\ op'.until = op.until /\ op'.seen = (root = opened[op.ref])
    BY <1>1, <1>5, SightGoes
  <2>2. Rows'
    BY <1>1, <2>1, RowsMove
  <2>3. Recorded
    BY <2>1 DEF Recorded, SameItem
  <2>4. Looked /\ Holding /\ Confirmed /\ Retained
    BY <1>1, <2>1 DEF Looked, Holding, Retained, Confirmed, Looks, Holds
  <2>5. Leases
    BY <1>1 DEF Leases, Holds, Live, Within
  <2>6. QED BY <1>1, <1>2, <1>3, <2>1, <2>2, <2>3, <2>4, <2>5, WorkOwes
<1>6. QED BY <1>4, <1>5 DEF Copy

LEMMA Logging ==
  ASSUME TypeOK, Owes, Going, This.do = "log"
  PROVE  /\ op.way = "work" /\ AtWork /\ This.row \in 1..2
         /\ op.kind \in {"check", "gate", "tests", "coverage"} /\ op.kind \notin Readers
         /\ op.kind = "check" => This.row = 1
<1>1. AtWork
  BY MustWork
<1>2. op.way = "work"
  BY <1>1, Unlogged DEF AtWork
<1>3. /\ This.row # 0 /\ op.kind \in {"check", "gate", "tests", "coverage"}
      /\ This \in Instructions /\ (op.kind = "check" => This.row = 1)
  BY <1>1, Follows DEF Staging, This
<1>4. This.row \in 1..2
  BY <1>3 DEF Instructions
<1>5. QED BY <1>1, <1>2, <1>3, <1>4 DEF Readers

(* A log is written: it will outlive the lease.                            *)
LEMMA LogGoes ==
  ASSUME TypeOK, Owes, Going, This.do = "log", NEW i \in Ids,
         GoOn([op EXCEPT !.items[This.row] = i, !.until[This.row] = clock + LogTTL])
  PROVE  /\ Moves /\ op' # Idle /\ op'.given = op.given /\ op'.seen = op.seen
         /\ op'.items = [op.items EXCEPT ![This.row] = i]
         /\ op'.until = [op.until EXCEPT ![This.row] = clock + LogTTL]
<1>1. /\ op # Idle /\ op \in Operations /\ op.items \in [1..2 -> Ids \cup {0}]
      /\ op.until \in [1..2 -> Nat] /\ clock + LogTTL \in Nat
  BY OpTyped, RegistryAssumption DEF TypeOK, Going
<1>2. PICK row \in 1..2 : row = This.row
  BY Logging
<1>3. PICK o : o = [op EXCEPT !.items = [op.items EXCEPT ![row] = i],
                              !.until = [op.until EXCEPT ![row] = clock + LogTTL]]
  OBVIOUS
<1>4. /\ o \in Operations /\ o.kind = op.kind /\ o.ref = op.ref /\ o.way = op.way
      /\ o.recovery = op.recovery /\ o.pc = op.pc /\ o.given = op.given
      /\ o.items = [op.items EXCEPT ![row] = i] /\ o.seen = op.seen
      /\ o.until = [op.until EXCEPT ![row] = clock + LogTTL]
  BY <1>1, <1>3 DEF Operations
<1>5. GoOn(o)
  BY <1>1, <1>2, <1>3 DEF Operations
<1>6. 0 \notin o.given /\ (o.given # {} => op.kind \in {"gate", "tests", "coverage"})
  BY <1>1, <1>4 DEF Owes, Rows
<1>7. QED BY <1>2, <1>4, <1>5, <1>6, GoesOn

LEMMA LogOwes ==
  ASSUME TypeOK, Owes, Going, Log
  PROVE  Owes'
<1>1. Going /\ This.do = "log" /\ UNCHANGED <<clock, root, entries, opened, faults>>
  BY DEF Log, Doing, world
<1>2. /\ op.way = "work" /\ AtWork /\ This.row \in 1..2
      /\ op.kind \in {"check", "gate", "tests", "coverage"} /\ op.kind \notin Readers
      /\ op.kind = "check" => This.row = 1
  BY <1>1, Logging
<1>3. op # Idle /\ op.items \in [1..2 -> Ids \cup {0}]
  BY <1>1, OpTyped DEF Going
<1>4. PICK i \in Ids \ drawn :
        /\ drawn' = drawn \cup {i}
        /\ logs' = [j \in Unexpired \cup {i} |->
                      IF j = i THEN [owner |-> op.ref, expires |-> clock + LogTTL] ELSE logs[j]]
        /\ GoOn([op EXCEPT !.items[This.row] = i, !.until[This.row] = clock + LogTTL])
  BY DEF Log
<1>5. PICK row \in 1..2 : row = This.row
  BY <1>2
<1>6. /\ Moves /\ op' # Idle /\ op'.given = op.given
       /\ op'.items = [op.items EXCEPT ![row] = i] /\ op'.seen = op.seen
  BY <1>1, <1>4, <1>5, LogGoes
<1>7. \A r \in 1..2 : op'.items[r] = IF r = row THEN i ELSE op.items[r]
  BY <1>3, <1>6
<1>8. op'.kind = op.kind /\ op'.ref = op.ref
  BY <1>6 DEF Moves, SamePlan
<1>9. Rows'
  BY <1>2, <1>3, <1>4, <1>5, <1>6, <1>7, <1>8 DEF Owes, Rows, One
<1>10. i \in DOMAIN logs' /\ logs'[i].owner = op.ref /\ logs'[i].expires = clock + LogTTL
  BY <1>4
<1>11. i \notin DOMAIN logs
  BY <1>4 DEF TypeOK
<1>12. Drops
  <2>1. ASSUME NEW j \in DOMAIN logs, j \in Unexpired
        PROVE  j \in DOMAIN logs' /\ logs'[j] = logs[j]
    BY <1>4, <1>11, <2>1
  <2>2. QED BY <1>1, <2>1, Expires DEF Drops
<1>13. op'.until = [op.until EXCEPT ![row] = clock + LogTTL]
  BY <1>1, <1>4, <1>5, LogGoes
<1>14. Recorded
  <2>1. op.until \in [1..2 -> Nat]
    BY <1>1, OpTyped DEF Going
  <2>2. ASSUME NEW r \in 1..2, r = row PROVE Kept(r)'
    BY <1>5, <1>7, <1>8, <1>10, <1>13, <2>1, <2>2 DEF Kept, Its
  <2>3. ASSUME NEW r \in 1..2, r # row PROVE SameItem(r)
    BY <1>5, <1>7, <1>13, <2>1, <2>3 DEF SameItem
  <2>4. QED BY <1>1, <1>2, <2>2, <2>3 DEF Recorded
<1>15. Looked /\ Holding /\ Confirmed /\ Retained
  BY <1>1, <1>6 DEF Looked, Holding, Retained, Confirmed, Looks, Holds
<1>16. Leases
  BY <1>1 DEF Leases, Holds, Live, Within
<1>17. QED BY <1>1, <1>2, <1>6, <1>9, <1>12, <1>14, <1>15, <1>16, WorkOwes

LEMMA LogOmittedOwes ==
  ASSUME TypeOK, Owes, Going, LogOmitted
  PROVE  Owes'
<1>1. Going /\ This.do = "log" /\ Keep(Unexpired)
      /\ UNCHANGED <<clock, root, entries, opened, drawn, faults>>
  BY DEF LogOmitted, Doing, world
<1>2. /\ op.way = "work" /\ AtWork /\ This.row \in 1..2
      /\ op.kind \in {"check", "gate", "tests", "coverage"} /\ op.kind \notin Readers
  BY <1>1, Logging
<1>3. CASE op.kind = "check"
  <2>1. Turned("unlogged")
    BY <1>1, <1>3, Turns DEF LogOmitted
  <2>2. QED BY <1>1, <1>2, <1>3, <2>1, OmittedOwes
<1>4. CASE op.kind # "check"
  <2>1. SkipRow
    BY <1>4 DEF LogOmitted
  <2>2. /\ Moves /\ op' # Idle /\ op'.items = op.items /\ op'.until = op.until
        /\ op'.seen = op.seen /\ Rows'
    BY <1>1, <1>2, <1>4, <2>1, RowGiven
  <2>3. Recorded
    BY <2>2 DEF Recorded, SameItem
  <2>4. Looked /\ Holding /\ Confirmed /\ Retained
    BY <1>1, <2>2 DEF Looked, Holding, Retained, Confirmed, Looks, Holds
  <2>5. Drops
    BY <1>1, KeepDrops
  <2>6. Leases
    BY <1>1 DEF Leases, Holds, Live, Within
  <2>7. QED BY <1>1, <1>2, <2>2, <2>3, <2>4, <2>5, <2>6, WorkOwes
<1>5. QED BY <1>3, <1>4

LEMMA LogFailsOwes ==
  ASSUME TypeOK, Owes, Going, LogFails
  PROVE  Owes'
<1>1. Going /\ This.do = "log" /\ Keep(Unexpired) /\ Fail /\ faults' = faults + 1
      /\ drawn' = drawn
  BY DEF LogFails, Doing
<1>2. Turned("recovery")
  BY <1>1, Turns DEF Fail
<1>3. AtWork
  BY <1>1, Logging
<1>4. DOMAIN logs' \subseteq DOMAIN logs
  BY <1>1, KeepDrops DEF Unexpired
<1>5. faults' # 0
  <2>1. faults \in Nat
    BY RegistryAssumption DEF TypeOK
  <2>2. QED BY <1>1, <2>1
<1>6. QED BY <1>1, <1>2, <1>3, <1>4, <1>5, FailOwes

(* The environment moves no operation.                                     *)
LEMMA StandingOwes ==
  ASSUME TypeOK, Owes, op # Idle, op' # Idle,
         op'.kind = op.kind, op'.ref = op.ref, op'.way = op.way,
         op'.recovery = op.recovery, op'.pc = op.pc, op'.given = op.given,
         op'.items = op.items, op.seen => op'.seen, Current => Current',
         op'.until = op.until, clock' \in Nat /\ clock' >= clock,
         UNCHANGED <<entries, opened, logs, drawn, faults>>, Live' \subseteq Live
  PROVE  Owes'
<1>1. Plan' = Plan
  BY DEF Plan, PlanOf
<1>2. Rows'
  BY DEF Owes, Rows
<1>3. \A names : Ahead(names)' <=> Ahead(names)
  BY <1>1 DEF Ahead
<1>4. Working => Working'
  <2>1. Fresh => Fresh'
    BY <1>3 DEF Fresh
  <2>2. (Seen => Seen') /\ (Held => Held')
    BY <1>3 DEF Seen, Held
  <2>3. ASSUME NEW r \in 1..2
        PROVE  /\ Its(r) => Its(r)'
               /\ Kept(r) => Kept(r)'
               /\ Late(r) => Late(r)'
    <3>1. op.until[r] \in Nat /\ clock \in Nat
      BY OpTyped, RegistryAssumption DEF TypeOK
    <3>2. Late(r) => Late(r)'
      BY <1>3, <3>1 DEF Late
    <3>3. QED BY <3>2 DEF Its, Kept
  <2>4. Lost => Lost'
    BY <1>3 DEF Lost
  <2>5. Items => Items'
    BY <1>3, <2>3, <2>4 DEF Items
  <2>6. QED BY <2>1, <2>2, <2>5 DEF Working
<1>5. (Logs => Logs') /\ (NoItems => NoItems')
  BY <1>1 DEF Logs, NoItems
<1>6. Remedied => Remedied'
  BY <1>3 DEF Remedied, Gone, Clean
<1>7. QED BY <1>2, <1>4, <1>5, <1>6 DEF Owes

LEMMA Clocked ==
  ASSUME TypeOK
  PROVE  clock \in Nat /\ clock >= clock /\ clock + 1 >= clock /\ clock + 1 \in Nat
<1>1. clock \in Nat
  BY RegistryAssumption DEF TypeOK
<1>2. QED BY <1>1

LEMMA TickOwes ==
  ASSUME TypeOK, Owes, Tick
  PROVE  Owes'
<1>1. UNCHANGED <<root, entries, opened, logs, drawn, faults, op>> /\ clock' = clock + 1
  BY DEF Tick
<1>2. Live' \subseteq Live
  <2>1. ASSUME NEW r \in DOMAIN entries, clock' - entries[r] < TTL
        PROVE  clock - entries[r] < TTL
    <3>1. clock \in Nat /\ entries[r] \in Nat /\ TTL \in Nat
      BY RegistryAssumption DEF TypeOK
    <3>2. QED BY <1>1, <2>1, <3>1
  <2>2. QED BY <1>1, <2>1 DEF Live, Within
<1>3. CASE op = Idle
  BY <1>1, <1>3 DEF Owes
<1>4. CASE op # Idle
  <2>1. Current => Current'
    BY <1>1 DEF Current
  <2>2. QED BY <1>1, <1>2, <1>4, <2>1, Clocked, StandingOwes
<1>5. QED BY <1>3, <1>4

LEMMA SameLive ==
  ASSUME UNCHANGED <<clock, entries>>
  PROVE  Live' \subseteq Live
  BY DEF Live, Within

LEMMA ReplaceRootOwes ==
  ASSUME TypeOK, Owes, ReplaceRoot
  PROVE  Owes'
<1>1. UNCHANGED <<clock, entries, opened, logs, drawn, faults>>
  BY DEF ReplaceRoot
<1>2. Live' \subseteq Live
  BY <1>1, SameLive
<1>3. CASE op = Idle
  BY <1>3 DEF ReplaceRoot, Owes
<1>4. CASE op # Idle
  <2>1. op \in Operations
    BY <1>4, OpTyped
  <2>2. op' = [op EXCEPT !.seen = op.seen \/ root' = opened[op.ref]]
    BY <1>4, <2>1 DEF ReplaceRoot, Operations
  <2>3. /\ op'.kind = op.kind /\ op'.ref = op.ref /\ op'.way = op.way
        /\ op'.recovery = op.recovery /\ op'.pc = op.pc /\ op'.given = op.given
        /\ op'.items = op.items /\ op'.until = op.until
        /\ op'.seen = (op.seen \/ root' = opened[op.ref])
    BY <2>1, <2>2 DEF Operations
  <2>4. op' # Idle
    <3>1. op' \in Operations
      BY <2>1, <2>2 DEF Operations
    <3>2. QED BY <2>1, <2>2, <3>1 DEF Operations, Idle
  <2>5. Current => Current'
    BY <1>1, <2>3 DEF Current
  <2>6. QED BY <1>1, <1>2, <1>4, <2>3, <2>4, <2>5, Clocked, StandingOwes
<1>5. QED BY <1>3, <1>4

LEMMA CancelOwes ==
  ASSUME TypeOK, Owes, Cancel
  PROVE  Owes'
<1>1. op # Idle /\ op' = [op EXCEPT !.cancel = TRUE]
      /\ UNCHANGED <<clock, root, entries, opened, logs, drawn, faults>>
  BY DEF Cancel
<1>2. op \in Operations
  BY <1>1, OpTyped
<1>3. /\ op'.kind = op.kind /\ op'.ref = op.ref /\ op'.way = op.way
      /\ op'.recovery = op.recovery /\ op'.pc = op.pc /\ op'.given = op.given
      /\ op'.items = op.items /\ op'.until = op.until /\ op'.seen = op.seen
  BY <1>1, <1>2 DEF Operations
<1>4. op' # Idle
  <2>1. op' \in Operations
    BY <1>1, <1>2 DEF Operations
  <2>2. QED BY <1>1, <1>2, <2>1 DEF Operations, Idle
<1>5. Live' \subseteq Live
  BY <1>1, SameLive
<1>6. Current => Current'
  BY <1>1, <1>3 DEF Current
<1>7. QED BY <1>1, <1>3, <1>4, <1>5, <1>6, Clocked, StandingOwes

(* What an operation owes when it begins.                                  *)
Begun(kind, ref, items) ==
  /\ op' \in Operations /\ op' # Idle /\ op'.kind = kind /\ op'.ref = ref
  /\ op'.way = "work" /\ op'.pc = 1 /\ op'.given = {} /\ op'.items = items
  /\ op'.seen = FALSE /\ Plan' = Program[kind]

LEMMA Begins ==
  ASSUME NEW kind \in Kinds, NEW ref \in Refs,
         NEW items \in [1..2 -> Ids \cup {0}], Begin(kind, ref, items)
  PROVE  Begun(kind, ref, items)
<1>1. op' = [kind |-> kind, ref |-> ref, way |-> "work", recovery |-> <<>>,
             pc |-> 1, given |-> {}, items |-> items, until |-> <<0, 0>>,
             cancel |-> FALSE, seen |-> FALSE]
  BY DEF Begin
<1>2. op' \in Operations
  <2>1. <<0, 0>> \in [1..2 -> Nat]
    OBVIOUS
  <2>2. QED BY <1>1, <2>1 DEF Operations
<1>3. op' # Idle
  BY <1>1 DEF Idle
<1>4. op'.kind = kind /\ op'.way = "work"
  BY <1>1
<1>5. Plan' = Program[kind]
  BY <1>4 DEF Plan, PlanOf
<1>6. QED BY <1>1, <1>2, <1>3, <1>4, <1>5 DEF Begun

LEMMA BeginOwes ==
  ASSUME NEW kind \in Kinds, NEW ref, NEW items, Begun(kind, ref, items),
         \A r \in 1..2 : items[r] \in drawn' \cup {0},
         kind \in Readers => items[2] = 0,
         kind \notin Readers => items[1] = 0 /\ items[2] = 0
  PROVE  Owes'
<1>1. /\ op'.kind = kind /\ op'.way = "work" /\ op'.pc = 1 /\ op'.given = {}
      /\ op'.items = items /\ Plan' = Program[kind]
  BY DEF Begun
<1>2. Rows'
  BY <1>1 DEF Rows, One
<1>3. Shaped(kind, Program[kind])
  BY PlansAssumption
<1>4. Copies(kind) /\ kind \notin Readers => Later(kind, Program[kind], 0, {"source"})
  BY PlansAssumption
<1>5. \A names : Later(kind, Program[kind], 0, names) => Ahead(names)'
  BY <1>1 DEF Ahead
<1>6. kind \notin Readers => NoItems'
  BY <1>1 DEF NoItems
<1>7. Working'
  <2>1. ASSUME Copies(kind) PROVE Fresh' /\ Seen'
    <3>1. Later(kind, Program[kind], 0, Looks)
      BY <1>3, <2>1 DEF Shaped
    <3>2. kind \in Readers => Later(kind, Program[kind], 0, {"copy"})
      BY <1>3 DEF Shaped
    <3>3. QED BY <1>1, <1>4, <1>5, <2>1, <3>1, <3>2 DEF Fresh, Seen
  <2>2. ASSUME Works(kind) PROVE Held'
    BY <1>3, <1>5, <2>2 DEF Shaped, Held
  <2>3. CASE kind \in Readers
    <3>1. Ahead({"confirm"})'
      BY <1>3, <1>5, <2>3 DEF Shaped
    <3>2. Items'
      BY <1>1, <2>3, <3>1 DEF Items, Readers
    <3>3. QED BY <1>1, <2>1, <2>2, <3>2 DEF Working
  <2>4. CASE kind \notin Readers
    <3>1. Items'
      BY <1>1, <1>6, <2>4 DEF Items, NoItems
    <3>2. QED BY <1>1, <2>1, <2>2, <3>1 DEF Working
  <2>5. QED BY <2>3, <2>4
<1>8. kind \in Readers \/ Logs'
  BY <1>6 DEF Logs, NoItems
<1>9. QED BY <1>1, <1>2, <1>7, <1>8 DEF Owes

LEMMA Pairs ==
  ASSUME NEW S, NEW x \in S, NEW y \in S
  PROVE  <<x, y>> \in [1..2 -> S] /\ <<x, y>>[1] = x /\ <<x, y>>[2] = y
  OBVIOUS

LEMMA CallOwes ==
  ASSUME TypeOK, Owes,
         Call
  PROVE  Owes' /\ op' \in Operations /\ UNCHANGED <<world, entries, opened, store, faults>>
<1>1. {"open"} \cup Readers \subseteq Kinds
  BY PlansAssumption
<1>2. CASE \E r \in Refs, kind \in Kinds : kind \notin Readers /\ Begin(kind, r, <<0, 0>>)
              /\ UNCHANGED <<world, entries, opened, store, faults>>
  <2>1. PICK r \in Refs, kind \in Kinds : kind \notin Readers /\ Begin(kind, r, <<0, 0>>)
              /\ UNCHANGED <<world, entries, opened, store, faults>>
    BY <1>2
  <2>2. PICK items : items = <<0, 0>>
    OBVIOUS
  <2>3. items \in [1..2 -> Ids \cup {0}] /\ items[1] = 0 /\ items[2] = 0
    BY <2>2, Pairs
  <2>4. Begun(kind, r, items)
    BY <2>1, <2>2, <2>3, Begins
  <2>5. \A k \in 1..2 : items[k] \in drawn' \cup {0}
    BY <2>3
  <2>6. QED BY <2>1, <2>3, <2>4, <2>5, BeginOwes DEF Begun
<1>3. CASE \E r \in Refs, kind \in Readers, i \in Ids : Read(kind, r, i)
  <2>1. PICK r \in Refs, kind \in Readers, i \in Ids : Read(kind, r, i)
    BY <1>3
  <2>2. kind \in Kinds /\ i \in drawn /\ UNCHANGED <<world, entries, opened, store, faults>>
    BY <1>1, <2>1 DEF Read, TypeOK
  <2>3. PICK items : items = <<i, 0>>
    OBVIOUS
  <2>4. items \in [1..2 -> Ids \cup {0}] /\ items[1] = i /\ items[2] = 0
    BY <2>3, Pairs
  <2>5. Begun(kind, r, items)
    BY <2>1, <2>2, <2>3, <2>4, Begins DEF Read
  <2>6. \A k \in 1..2 : items[k] \in drawn' \cup {0}
    BY <2>2, <2>4 DEF store
  <2>7. QED BY <2>1, <2>2, <2>4, <2>5, <2>6, BeginOwes DEF Begun
<1>4. CASE \E r \in Refs : Open(r)
  <2>1. "open" \in Kinds /\ "open" \notin Readers
    BY <1>1 DEF Readers
  <2>2. QED BY <1>2, <1>4, <2>1 DEF Open
<1>5. CASE \E r \in Refs, kind \in Kinds : Use(kind, r)
  BY <1>2, <1>5 DEF Use
<1>6. QED BY <1>3, <1>4, <1>5 DEF Call

LEMMA ReturnOwes ==
  ASSUME Return
  PROVE  Owes'
  BY DEF Return, Owes

LEMMA OwesSteps ==
  ASSUME TypeOK, Owes, [Next]_vars
  PROVE  Owes'
<1>1. CASE Tick \/ ReplaceRoot \/ Cancel
  BY <1>1, TickOwes, ReplaceRootOwes, CancelOwes
<1>2. CASE Call
  BY <1>2, CallOwes
<1>3. CASE Going /\ \/ Admit \/ Insert \/ Lookup \/ Observe \/ ObserveTouch
                    \/ ObserveChanged \/ ObserveCancelled \/ Facts \/ Consult \/ Publish \/ Touch
  BY <1>3, OpenOwes, LookupOwes, LookOwes, RenewOwes, ConsultOwes,
     PublishOwes, TouchOwes
<1>4. CASE Going /\ (CaptureSource \/ Reject \/ Run \/ CheckControl)
  BY <1>4, SourceOwes, RejectOwes, RunOwes
<1>5. CASE Going /\ (Reap \/ Log \/ LogOmitted \/ LogFails \/ Copy \/ Confirm \/ Retain \/ Undo)
  BY <1>5, ReapOwes, LogOwes, LogOmittedOwes, LogFailsOwes, CopyOwes, ConfirmOwes,
     RetainOwes, UndoOwes
<1>6. CASE UNCHANGED vars
  <2>1. UNCHANGED <<clock, root, entries, opened, logs, drawn, announced, op, faults>>
    BY <1>6 DEF vars
  <2>2. CASE op = Idle
    BY <2>1, <2>2 DEF Owes
  <2>3. CASE op # Idle
    BY <2>1, <2>3, SameLive, Clocked, StandingOwes DEF Current
  <2>4. QED BY <2>2, <2>3
<1>7. QED BY <1>1, <1>2, <1>3, <1>4, <1>5, <1>6, ReturnOwes DEF Next, Work

-----------------------------------------------------------------------------
(* Types.                                                                  *)

LEMMA OpKept ==
  ASSUME TypeOK, Owes, [Next]_vars
  PROVE  op' = Idle \/ op' \in Operations
<1>1. ASSUME Going, Proceed PROVE op' \in Operations
  BY <1>1, Proceeds DEF Moves
<1>2. ASSUME Going, Fail PROVE op' \in Operations
  BY <1>2, Turns DEF Fail, Turned
<1>3. CASE Tick \/ UNCHANGED vars
  BY <1>3 DEF Tick, vars, TypeOK
<1>4. CASE ReplaceRoot
  <2>1. CASE op = Idle
    BY <1>4, <2>1 DEF ReplaceRoot
  <2>2. CASE op # Idle
    <3>1. op \in Operations /\ op' = [op EXCEPT !.seen = op.seen \/ root' = opened[op.ref]]
      BY <1>4, <2>2, OpTyped DEF ReplaceRoot, Operations
    <3>2. QED BY <3>1 DEF Operations
  <2>3. QED BY <2>1, <2>2
<1>5. CASE Cancel
  <2>1. op \in Operations /\ op' = [op EXCEPT !.cancel = TRUE]
    BY <1>5, OpTyped DEF Cancel
  <2>2. QED BY <2>1 DEF Operations
<1>6. CASE Call
  BY <1>6, CallOwes
<1>7. CASE Going /\ \/ Admit \/ Insert \/ Lookup \/ Observe \/ ObserveTouch
                    \/ ObserveChanged \/ ObserveCancelled \/ Facts \/ Consult \/ Publish \/ Touch
  BY <1>1, <1>2, <1>7 DEF Admit, Insert, Lookup, Observe, ObserveTouch, ObserveChanged,
     ObserveCancelled, Facts, Consult, Publish, Touch, Doing
<1>8. CASE Going /\ (CaptureSource \/ Copy)
  <2>1. Going
    BY <1>8 DEF CaptureSource, Copy, Doing
  <2>2. CASE Fail
    BY <1>2, <2>1, <2>2
  <2>3. CASE Turn("rejection")
    BY <2>1, <2>3, Turns DEF Turned
  <2>4. CASE GoOn([op EXCEPT !.seen = root = opened[op.ref]])
    BY <2>1, <2>4, SightGoes DEF Moves
  <2>5. QED BY <1>8, <2>2, <2>3, <2>4 DEF CaptureSource, Copy
<1>9. CASE Going /\ Run
  <2>1. Going /\ This.do = "run"
    BY <1>9 DEF Run, Doing
  <2>2. CASE op.kind = "gate" /\ SkipRow
    <3>1. AtWork
      BY <2>1, MustWork
    <3>2. This.row # 0 /\ This \in Instructions
      BY <2>1, <2>2, <3>1, Follows DEF Staging, This
    <3>3. This.row \in 1..2
      BY <3>2 DEF Instructions
    <3>4. drawn' = drawn
      BY <1>9 DEF Run, store
    <3>5. QED BY <2>1, <2>2, <3>3, <3>4, RowGiven DEF Moves
  <2>3. QED BY <1>1, <1>2, <1>9, <2>1, <2>2 DEF Run
<1>10. CASE Going /\ (Reject \/ CheckControl \/ Reap \/ LogFails \/ Confirm \/ Retain \/ Undo)
  BY <1>1, <1>2, <1>10 DEF Reject, CheckControl, Reap, ReapOwners, LogFails, Confirm,
     Retain, Undo, Doing
<1>11. CASE Going /\ Log
  <2>1. Going /\ This.do = "log"
    BY <1>11 DEF Log, Doing
  <2>2. PICK i \in Ids :
          GoOn([op EXCEPT !.items[This.row] = i, !.until[This.row] = clock + LogTTL])
    BY <1>11 DEF Log
  <2>3. QED BY <2>1, <2>2, LogGoes DEF Moves
<1>12. CASE Going /\ LogOmitted
  <2>1. Going /\ This.do = "log" /\ drawn' = drawn
    BY <1>12 DEF LogOmitted, Doing
  <2>2. CASE Turn("unlogged")
    BY <2>1, <2>2, Turns DEF Turned
  <2>3. CASE op.kind # "check" /\ SkipRow
    BY <2>1, <2>3, Logging, RowGiven DEF Moves
  <2>4. QED BY <1>12, <2>2, <2>3 DEF LogOmitted
<1>13. CASE Return
  BY <1>13 DEF Return
<1>14. QED BY <1>3, <1>4, <1>5, <1>6, <1>7, <1>8, <1>9, <1>10, <1>11, <1>12, <1>13 DEF Next, Work

Dated == /\ DOMAIN entries \subseteq Refs
         /\ \A r \in DOMAIN entries : entries[r] \in 0..MaxClock
Stored == /\ DOMAIN logs \subseteq drawn
          /\ \A i \in DOMAIN logs : logs[i].owner \in Refs /\ logs[i].expires \in Nat

LEMMA DatedKept ==
  ASSUME TypeOK, Owes, [Next]_vars
  PROVE  Dated'
<1>1. /\ DOMAIN entries \subseteq Refs /\ clock \in 0..MaxClock /\ MaxClock \in Nat
      /\ \A r \in DOMAIN entries : entries[r] \in 0..MaxClock
  BY RegistryAssumption DEF TypeOK
<1>2. CASE UNCHANGED <<clock, entries>>
  BY <1>1, <1>2 DEF Dated
<1>3. CASE Tick
  <2>1. clock' = clock + 1 /\ UNCHANGED entries
    BY <1>3 DEF Tick
  <2>2. QED BY <1>1, <2>1 DEF Dated
<1>4. ASSUME NEW S, S \subseteq DOMAIN entries, UNCHANGED clock, entries' = Restrict(entries, S)
      PROVE  Dated'
  <2>1. entries' = [r \in S |-> entries[r]]
    BY <1>4 DEF Restrict
  <2>2. QED BY <1>1, <1>4, <2>1 DEF Dated
<1>5. ASSUME UNCHANGED clock, entries' = Renewed PROVE Dated'
  <2>1. DOMAIN entries' = DOMAIN entries
        /\ \A r \in DOMAIN entries : entries'[r] = clock \/ entries'[r] = entries[r]
    BY <1>5 DEF Renewed
  <2>2. QED BY <1>1, <1>5, <2>1 DEF Dated
<1>6. ASSUME UNCHANGED clock, entries' = Restrict(Renewed, Live) PROVE Dated'
  <2>1. DOMAIN entries' = Live
        /\ \A r \in Live : entries'[r] = clock \/ entries'[r] = entries[r]
    BY <1>6 DEF Renewed, Restrict, Live
  <2>2. Live \subseteq DOMAIN entries
    BY DEF Live
  <2>3. QED BY <1>1, <1>6, <2>1, <2>2 DEF Dated
<1>7. ASSUME Prune, UNCHANGED clock PROVE Dated'
  <2>1. Live \subseteq DOMAIN entries
    BY DEF Live
  <2>2. QED BY <1>4, <1>7, <2>1 DEF Prune
<1>8. ASSUME Retire, UNCHANGED clock PROVE Dated'
  <2>1. DOMAIN entries \ {op.ref} \subseteq DOMAIN entries
    OBVIOUS
  <2>2. QED BY <1>4, <1>8, <2>1 DEF Retire, Without
<1>9. CASE Going /\ Insert
  <2>1. UNCHANGED clock /\ op.ref \in Refs
    BY <1>9, OpTyped DEF Insert, Doing, Going, world
  <2>2. CASE UNCHANGED entries
    BY <1>2, <2>1, <2>2
  <2>3. CASE entries' = [r \in DOMAIN entries \cup {op.ref} |->
                           IF r = op.ref THEN clock ELSE entries[r]]
    BY <1>1, <2>1, <2>3 DEF Dated
  <2>4. QED BY <1>9, <2>2, <2>3 DEF Insert
<1>10. CASE Admit \/ Lookup \/ Touch \/ ObserveTouch \/ ObserveChanged \/ Publish \/ Reap
  <2>1. UNCHANGED clock
    BY <1>10 DEF Admit, Lookup, Touch, ObserveTouch, ObserveChanged, Publish, Reap, world
  <2>2. \/ UNCHANGED entries \/ Prune \/ Retire \/ entries' = Renewed
        \/ entries' = Restrict(Renewed, Live)
    BY <1>10 DEF Admit, Lookup, Touch, ObserveTouch, ObserveChanged, Publish, Reap, ReapOwners
  <2>3. QED BY <1>2, <1>5, <1>6, <1>7, <1>8, <2>1, <2>2
<1>11. CASE Call
  BY <1>2, <1>11, CallOwes DEF world
<1>12. CASE Observe \/ ObserveCancelled \/ Facts \/ Consult \/ CaptureSource \/ Reject \/ Run
            \/ CheckControl \/ ReplaceRoot \/ Cancel
  BY <1>2, <1>12 DEF Observe, ObserveCancelled, Facts, Consult, CaptureSource, Reject, Run,
     CheckControl, ReplaceRoot, Cancel, world
<1>13. CASE Log \/ LogOmitted \/ LogFails \/ Copy \/ Confirm \/ Retain \/ Undo \/ Return
            \/ UNCHANGED vars
  BY <1>2, <1>13 DEF Log, LogOmitted, LogFails, Copy, Confirm, Retain, Undo, Return, world, vars
<1>14. QED BY <1>3, <1>9, <1>10, <1>11, <1>12, <1>13 DEF Next, Work

LEMMA StoredKept ==
  ASSUME TypeOK, Owes, [Next]_vars
  PROVE  Stored' /\ drawn' \subseteq Ids /\ announced' \subseteq drawn'
<1>1. /\ DOMAIN logs \subseteq drawn /\ drawn \subseteq Ids /\ announced \subseteq drawn
      /\ \A i \in DOMAIN logs : logs[i].owner \in Refs /\ logs[i].expires \in Nat
      /\ clock \in Nat /\ LogTTL \in Nat
  BY RegistryAssumption DEF TypeOK
<1>2. ASSUME NEW S, S \subseteq DOMAIN logs, Keep(S), UNCHANGED <<drawn, announced>>
      PROVE  Stored' /\ drawn' \subseteq Ids /\ announced' \subseteq drawn'
  <2>1. DOMAIN logs' = S /\ \A i \in S : logs'[i] = logs[i]
    BY <1>2, Keeps
  <2>2. QED BY <1>1, <1>2, <2>1 DEF Stored
<1>3. Unexpired \subseteq DOMAIN logs
  BY DEF Unexpired
<1>4. CASE UNCHANGED store
  BY <1>1, <1>4 DEF store, Stored
<1>5. CASE LogOmitted \/ LogFails \/ Copy \/ Confirm
  <2>1. Keep(Unexpired) /\ UNCHANGED <<drawn, announced>>
    BY <1>5 DEF LogOmitted, LogFails, Copy, Confirm
  <2>2. QED BY <1>2, <1>3, <2>1
<1>6. CASE Undo
  <2>1. Keep(Unexpired \ Range(op.items)) /\ UNCHANGED <<drawn, announced>>
    BY <1>6 DEF Undo
  <2>2. Unexpired \ Range(op.items) \subseteq DOMAIN logs
    BY <1>3
  <2>3. QED BY <1>2, <2>1, <2>2
<1>7. CASE Reap
  <2>1. Keep({i \in Unexpired : logs[i].owner \in DOMAIN entries'})
        /\ UNCHANGED <<drawn, announced>>
    BY <1>7 DEF Reap, ReapOwners
  <2>2. {i \in Unexpired : logs[i].owner \in DOMAIN entries'} \subseteq DOMAIN logs
    BY <1>3
  <2>3. QED BY <1>2, <2>1, <2>2
<1>8. CASE Going /\ Log
  <2>1. op.ref \in Refs /\ UNCHANGED announced
    BY <1>8, OpTyped DEF Log, Doing, Going
  <2>2. PICK i \in Ids \ drawn :
          /\ drawn' = drawn \cup {i}
          /\ logs' = [j \in Unexpired \cup {i} |->
                        IF j = i THEN [owner |-> op.ref, expires |-> clock + LogTTL] ELSE logs[j]]
    BY <1>8 DEF Log
  <2>3. DOMAIN logs' = Unexpired \cup {i}
    BY <2>2
  <2>4. ASSUME NEW j \in DOMAIN logs' PROVE logs'[j].owner \in Refs /\ logs'[j].expires \in Nat
    <3>1. CASE j = i
      BY <1>1, <2>1, <2>2, <2>3, <3>1
    <3>2. CASE j # i
      <4>1. j \in Unexpired /\ logs'[j] = logs[j]
        BY <2>2, <2>3, <2>4, <3>2
      <4>2. QED BY <1>1, <1>3, <4>1
    <3>3. QED BY <3>1, <3>2
  <2>5. QED BY <1>1, <1>3, <2>1, <2>2, <2>3, <2>4 DEF Stored
<1>9. CASE Return
  <2>1. UNCHANGED <<logs, drawn>> /\ op # Idle
    BY <1>9 DEF Return, Ended
  <2>2. op.items \in [1..2 -> Ids \cup {0}] /\ \A r \in 1..2 : op.items[r] \in drawn \cup {0}
    BY <2>1, OpTyped DEF Owes, Rows
  <2>3. Range(op.items) \ {0} \subseteq drawn
    BY <2>2 DEF Range
  <2>4. announced' \subseteq drawn
    BY <1>1, <1>9, <2>3 DEF Return
  <2>5. QED BY <1>1, <2>1, <2>4 DEF Stored
<1>10. CASE Call
  BY <1>4, <1>10, CallOwes
<1>11. CASE Admit \/ Insert \/ Lookup \/ Observe \/ ObserveTouch \/ ObserveChanged
            \/ ObserveCancelled \/ Facts \/ Consult \/ Publish \/ Touch
  BY <1>4, <1>11 DEF Admit, Insert, Lookup, Observe, ObserveTouch, ObserveChanged,
     ObserveCancelled, Facts, Consult, Publish, Touch
<1>12. CASE CaptureSource \/ Reject \/ Run \/ CheckControl \/ Retain
  BY <1>4, <1>12 DEF CaptureSource, Reject, Run, CheckControl, Retain
<1>13. CASE Tick \/ ReplaceRoot \/ Cancel \/ UNCHANGED vars
  BY <1>4, <1>13 DEF Tick, ReplaceRoot, Cancel, vars, store
<1>14. QED BY <1>5, <1>6, <1>7, <1>8, <1>9, <1>10, <1>11, <1>12, <1>13 DEF Next, Work

LEMMA WorldKept ==
  ASSUME TypeOK, Owes, [Next]_vars
  PROVE  /\ clock' \in 0..MaxClock /\ root' \in Identities /\ changes' \in 0..MaxChanges
         /\ faults' \in 0..MaxFaults /\ opened' \in [Refs -> Identities \cup {Unknown}]
<1>1. /\ clock \in 0..MaxClock /\ root \in Identities /\ changes \in 0..MaxChanges
      /\ faults \in 0..MaxFaults /\ opened \in [Refs -> Identities \cup {Unknown}]
      /\ MaxClock \in Nat /\ MaxChanges \in Nat /\ MaxFaults \in Nat
  BY RegistryAssumption DEF TypeOK
<1>2. CASE UNCHANGED <<world, faults, opened>>
  BY <1>1, <1>2 DEF world
<1>3. CASE Tick
  BY <1>1, <1>3 DEF Tick
<1>4. CASE ReplaceRoot
  BY <1>1, <1>4 DEF ReplaceRoot
<1>5. CASE Cancel \/ UNCHANGED vars
  BY <1>1, <1>5 DEF Cancel, vars
<1>6. CASE Going /\ (Admit \/ Insert)
  <2>1. UNCHANGED <<world, faults>> /\ op.ref \in Refs
    BY <1>6, OpTyped DEF Admit, Insert, Doing, Going
  <2>2. \/ UNCHANGED opened \/ opened' = [opened EXCEPT ![op.ref] = root]
        \/ opened' = [opened EXCEPT ![op.ref] = Unknown]
    BY <1>6 DEF Admit, Insert
  <2>3. opened' \in [Refs -> Identities \cup {Unknown}]
    BY <1>1, <2>1, <2>2
  <2>4. QED BY <1>1, <2>1, <2>3 DEF world
<1>7. CASE Call
  BY <1>2, <1>7, CallOwes
<1>8. CASE Lookup \/ Observe \/ ObserveTouch \/ ObserveChanged
           \/ ObserveCancelled \/ Facts \/ Consult \/ Publish \/ Touch
  BY <1>2, <1>8 DEF Lookup, Observe, ObserveTouch, ObserveChanged,
     ObserveCancelled, Facts, Consult, Publish, Touch
<1>9. CASE CaptureSource \/ Reject \/ Run \/ CheckControl
  BY <1>2, <1>9 DEF CaptureSource, Reject, Run, CheckControl
<1>10. CASE Reap \/ Log \/ LogOmitted \/ Copy \/ Confirm \/ Retain \/ Undo \/ Return
  BY <1>2, <1>10 DEF Reap, Log, LogOmitted, Copy, Confirm, Retain, Undo, Return
<1>11. CASE LogFails
  BY <1>1, <1>11 DEF LogFails, world
<1>12. QED BY <1>3, <1>4, <1>5, <1>6, <1>7, <1>8, <1>9, <1>10, <1>11 DEF Next, Work

LEMMA TypesKept ==
  ASSUME TypeOK, Owes, [Next]_vars
  PROVE  TypeOK'
  BY OpKept, DatedKept, StoredKept, WorldKept DEF TypeOK, Dated, Stored

-----------------------------------------------------------------------------
(* The theorems.                                                           *)

LEMMA Starts ==
  ASSUME Init
  PROVE  TypeOK /\ Owes
<1>1. TypeOK
  BY RegistryAssumption DEF Init, TypeOK
<1>2. DOMAIN entries = {}
  BY DEF Init
<1>3. QED BY <1>1, <1>2 DEF Init, Owes

(* Every operation, under way or ended, owes no more than what is left of  *)
(* its plan will pay.                                                      *)
THEOREM RegistryInvariant == Spec => []Obligations
<1>1. Init => Obligations
  BY Starts DEF Obligations
<1>2. Obligations /\ [Next]_vars => Obligations'
  BY OwesSteps, TypesKept DEF Obligations
<1>3. QED BY <1>1, <1>2, PTL DEF Spec

(* An answer is about the project that was opened, whose capability still  *)
(* stands (resolve_inner after every copy), and its logs are in the store  *)
(* (publish_quality compares their ends with the clock once more).         *)
THEOREM AnswersHoldTheirProject == Spec => []AnswersAreCurrent
<1>1. Obligations => AnswersAreCurrent
  <2>1. SUFFICES ASSUME TypeOK, Owes, Answered, Works(op.kind)
                 PROVE  /\ Copies(op.kind) => op.seen
                        /\ op.ref \in DOMAIN entries
                        /\ op.kind \in Logged =>
                             \A i \in Range(op.items) \ {0} :
                               i \in DOMAIN logs /\ logs[i].owner = op.ref
    BY DEF Obligations, AnswersAreCurrent
  <2>2. op # Idle /\ op.pc > Len(Plan) /\ op.way # "recovery" /\ Works(op.kind)
    BY <2>1 DEF Answered, Ended
  <2>3. \A names : ~Ahead(names)
    <3>1. SUFFICES ASSUME NEW names, Ahead(names) PROVE FALSE
      OBVIOUS
    <3>2. PICK j \in 1..Len(Plan) : j > op.pc - 1
      BY <3>1 DEF Ahead, Later
    <3>3. Len(Plan) \in Nat /\ op.pc \in Nat
      BY <2>1, <2>2, PlanLen, OpTyped
    <3>4. QED BY <2>2, <3>2, <3>3
  <2>4. op.way \in {"work", "unlogged"}
    <3>1. op.way # "rejection"
      <4>1. SUFFICES ASSUME op.way = "rejection" PROVE FALSE
        OBVIOUS
      <4>2. op.pc <= 3
        BY <2>1, <2>2, <4>1 DEF Owes
      <4>3. Len(Plan) = 3
        BY <2>1, <2>2, <4>1, RejectionShape
      <4>4. QED BY <2>1, <2>2, <4>2, <4>3, OpTyped
    <3>2. QED BY <2>1, <2>2, <3>1, OpTyped
  <2>5. Working
    BY <2>1, <2>2, <2>4 DEF Owes
  <2>6. /\ Copies(op.kind) => op.seen
        /\ op.ref \in DOMAIN entries /\ Items /\ ~Lost /\ \A r \in 1..2 : ~Late(r)
    BY <2>2, <2>3, <2>5 DEF Working, Seen, Held, Lost, Late
  <2>7. op.items \in [1..2 -> Ids \cup {0}]
    BY <2>1, <2>2, OpTyped
  <2>8. ASSUME op.kind \in Logged, NEW i \in Range(op.items) \ {0}
        PROVE  i \in DOMAIN logs /\ logs[i].owner = op.ref
    <3>1. PICK r \in 1..2 : op.items[r] = i
      BY <2>7, <2>8 DEF Range
    <3>2. CASE op.kind = "gate"
      <4>1. Kept(r)
        BY <2>6, <2>8, <3>1, <3>2 DEF Items
      <4>2. QED BY <3>1, <4>1 DEF Kept, Its
    <3>3. CASE op.kind \in One
      <4>1. op.items[2] = 0
        BY <2>1, <2>2, <3>3 DEF Owes, Rows
      <4>2. r = 1
        BY <2>8, <3>1, <4>1
      <4>3. QED BY <2>3, <2>6, <2>8, <3>1, <3>3, <4>2 DEF Items, Its
    <3>4. QED BY <2>8, <3>2, <3>3 DEF Logged
  <2>9. QED BY <2>6, <2>8
<1>2. QED BY <1>1, RegistryInvariant, PTL

(* A refused operation leaves no log behind, and a refused read no log of  *)
(* a capability that has ended (read_artifact_with_touch, publish_quality).*)
THEOREM RefusalsLeaveNothing == Spec => []FailureLeavesNothing
<1>1. Obligations => FailureLeavesNothing
  <2>1. SUFFICES ASSUME TypeOK, Owes, Refused
                 PROVE  /\ (op.kind \in {"check", "gate"} \/ (op.kind = "tests" /\ faults = 0)) =>
                             \A i \in Range(op.items) : i \notin DOMAIN logs
                        /\ op.kind \in Readers =>
                             \A i \in DOMAIN logs : logs[i].owner \in DOMAIN entries
    BY DEF Obligations, FailureLeavesNothing
  <2>2. op # Idle /\ op.pc > Len(Plan) /\ op.way = "recovery" /\ Remedied
    BY <2>1 DEF Refused, Ended, Owes
  <2>3. \A names : ~Ahead(names)
    <3>1. SUFFICES ASSUME NEW names, Ahead(names) PROVE FALSE
      OBVIOUS
    <3>2. PICK j \in 1..Len(Plan) : j > op.pc - 1
      BY <3>1 DEF Ahead, Later
    <3>3. Len(Plan) \in Nat /\ op.pc \in Nat
      BY <2>1, <2>2, PlanLen, OpTyped
    <3>4. QED BY <2>2, <3>2, <3>3
  <2>4. op.items \in [1..2 -> Ids \cup {0}]
    BY <2>1, <2>2, OpTyped
  <2>5. ASSUME op.kind \in {"check", "gate"} \/ (op.kind = "tests" /\ faults = 0),
               NEW i \in Range(op.items)
        PROVE  i \notin DOMAIN logs
    <3>1. Gone
      BY <2>2, <2>3, <2>5 DEF Remedied, Undoes
    <3>2. PICK r \in 1..2 : op.items[r] = i
      BY <2>4, <2>5 DEF Range
    <3>3. QED BY <3>1, <3>2 DEF Gone
  <2>6. op.kind \in Readers => Clean
    BY <2>2, <2>3 DEF Remedied
  <2>7. QED BY <2>5, <2>6 DEF Clean
<1>2. QED BY <1>1, RegistryInvariant, PTL

(* Only an operation's own lease is renewed, by no poll, and by the last   *)
(* step of one that answers unless it is a receipt, a preview or the       *)
(* second gate; none that ran out comes back but on a look at the root     *)
(* (touch_authorized_reference, resolve_inner).                            *)
THEOREM LeasesFollowAnswers == Spec => LeaseFollowsAnswer
<1> DEFINE Renewal == \A r \in DOMAIN entries \cap DOMAIN entries' :
                        entries'[r] # entries[r] =>
                          /\ r = op.ref /\ op.kind # "poll"
                          /\ op.kind \in Early \/ Returned
                          /\ r \notin Live => root = opened[r]
<1>1. Obligations /\ [Next]_vars => Renewal
  <2>1. SUFFICES ASSUME TypeOK, Owes, [Next]_vars, NEW r \in DOMAIN entries \cap DOMAIN entries',
                        entries'[r] # entries[r]
                 PROVE  /\ r = op.ref /\ op.kind # "poll"
                        /\ op.kind \in Early \/ Returned
                        /\ r \notin Live => root = opened[r]
    BY DEF Obligations
  <2>2. ASSUME NEW S, entries' = Restrict(entries, S) PROVE FALSE
    BY <2>1, <2>2 DEF Restrict
  <2>3. CASE Going /\ Insert /\ ~UNCHANGED entries
    BY <2>1, <2>3 DEF Insert
  <2>4. CASE Going /\ ObserveTouch
    <3>1. Going /\ This.do = "renew" /\ Proceed /\ r = op.ref /\ root = opened[r]
      BY <2>1, <2>4 DEF ObserveTouch, Doing, Renewed, Same
    <3>2. AtWork
      BY <2>1, <3>1, MustWork
    <3>3. op.kind # "poll" /\ (op.pc = Len(Plan) \/ op.kind \in Early)
      BY <2>1, <3>1, <3>2, Follows DEF Followed, This
    <3>4. Moves
      BY <2>1, <3>1, Proceeds
    <3>5. op.pc = Len(Plan) => Returned
      BY <2>1, <3>1, <3>2, <3>4, PlanLen
      DEF Moves, SamePlan, Jumps, AtWork, Going, Returned
    <3>6. QED BY <3>1, <3>3, <3>5
  <2>5. CASE Going /\ Touch /\ ~Prune
    <3>1. Going /\ This.do = "touch" /\ Proceed /\ entries' = Restrict(Renewed, Live)
          /\ op.ref \in Live
      BY <2>5 DEF Touch, Doing
    <3>2. r = op.ref
      BY <2>1, <3>1 DEF Restrict, Renewed
    <3>3. AtWork
      BY <2>1, <3>1, MustWork
    <3>4. op.kind # "poll" /\ op.pc = Len(Plan)
      BY <2>1, <3>1, <3>3, Follows DEF Followed, This
    <3>5. Moves
      BY <2>1, <3>1, Proceeds
    <3>6. Returned
      BY <2>1, <3>1, <3>3, <3>4, <3>5, PlanLen
      DEF Moves, SamePlan, Jumps, AtWork, Going, Returned
    <3>7. QED BY <3>1, <3>2, <3>4, <3>6
  <2>6. Going /\ ((Insert /\ ~UNCHANGED entries) \/ ObserveTouch \/ (Touch /\ ~Prune))
    <3>1. SUFFICES ASSUME \/ ~Going
                          \/ ~(Insert /\ ~UNCHANGED entries) /\ ~ObserveTouch /\ ~(Touch /\ ~Prune)
                   PROVE  FALSE
      OBVIOUS
    <3>2. CASE UNCHANGED entries
      BY <2>1, <3>2
    <3>3. CASE Prune \/ Retire
      BY <2>2, <3>3 DEF Prune, Retire, Without
    <3>4. CASE Call
      BY <2>1, <3>2, <3>4, CallOwes
    <3>5. CASE Tick \/ ReplaceRoot \/ Cancel \/ UNCHANGED vars
      BY <3>2, <3>5 DEF Tick, ReplaceRoot, Cancel, vars
    <3>6. CASE Going /\ \/ Admit \/ Insert \/ Lookup \/ Observe \/ ObserveTouch
                        \/ ObserveChanged \/ ObserveCancelled \/ Facts \/ Consult \/ Publish \/ Touch
      BY <3>1, <3>2, <3>3, <3>6 DEF Admit, Lookup, Observe, ObserveChanged, ObserveCancelled,
         Facts, Consult, Publish
    <3>7. CASE CaptureSource \/ Reject \/ Run \/ CheckControl
      BY <3>2, <3>7 DEF CaptureSource, Reject, Run, CheckControl
    <3>8. CASE Reap \/ Log \/ LogOmitted \/ LogFails \/ Copy \/ Confirm \/ Retain \/ Undo \/ Return
      BY <3>2, <3>3, <3>8 DEF Reap, ReapOwners, Log, LogOmitted, LogFails, Copy, Confirm,
         Retain, Undo, Return
    <3>9. QED BY <2>1, <3>4, <3>5, <3>6, <3>7, <3>8 DEF Next, Work
  <2>7. QED BY <2>3, <2>4, <2>5, <2>6
<1>2. QED BY <1>1, RegistryInvariant, PTL DEF Spec, LeaseFollowsAnswer
=============================================================================
