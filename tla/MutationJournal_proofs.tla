----------------------- MODULE MutationJournal_proofs -----------------------
(***************************************************************************)
(* Proofs about the mutation journal: what the records on disk, the        *)
(* operation in progress and the bytes of every file say of each other,    *)
(* whatever the crashes, torn records, vanished temporaries and edits.     *)
(***************************************************************************)
EXTENDS JournalProperties, WellFoundedInduction, TLAPS

-----------------------------------------------------------------------------
(* Records.  A phase is only ever persisted on top of one of these.        *)

Predecessors(phase) ==
  CASE phase = "scratch"         -> {"prepared"}
    [] phase = "staged"          -> {"scratch"}
    [] phase = "applying"        -> {"staged"}
    [] phase = "published"       -> {"applying"}
    [] phase = "committed"       -> {"published"}
    [] phase = "aborted_cleanup" -> {"prepared", "scratch", "staged", "applying",
                                     "aborted_cleanup"}
    [] phase = "aborted"         -> {"aborted_cleanup"}
    [] phase = "no_change"       -> {"prepared", "aborted_cleanup"}
    [] OTHER                     -> {}

Follows(new, old) ==
  /\ old.phase \in Predecessors(new.phase)
  /\ old.staged \subseteq new.staged
  /\ old.source = new.source

On(m) == Running /\ op.id = m
Claims(m) == {final[m].phase, staging[m].phase} \cup (IF On(m) THEN {op.body.phase} ELSE {})

Planned(m) == \A f \in Files : before[m][f] # "none"
New(m) == [bytes |-> m, node |-> m]

(* A staging record continues the one in place.  A temporary exists only   *)
(* under an unfinished record, and under the cloned inode it holds the     *)
(* reviewed bytes, the new ones or an interrupted write of them.  A caller *)
(* was told an outcome only if no record has another one.                  *)
RecordTells(m) ==
  /\ Exists(staging[m]) => Exists(final[m]) /\ final[m].phase \notin TerminalPhases \cup {"torn"}
  /\ staging[m].phase \notin {"absent", "torn"} => Follows(staging[m], final[m])
  /\ (\E f \in Files : before[m][f] # "none") \/ Exists(final[m]) \/ On(m) => Planned(m)
  /\ told[m] # "nothing" => Claims(m) \subseteq TerminalPhases \cup {"absent"}
  /\ \A f \in Files :
       /\ temp[m][f] # NoTemp =>
            f \in Touches[m] /\ Exists(final[m]) /\ Claims(m) \cap TerminalPhases = {}
       /\ temp[m][f].node = m => temp[m][f].bytes \in {before[m][f], "torn", m}
RecordsTell == \A m \in Mutations : RecordTells(m)

-----------------------------------------------------------------------------
(* The operation in progress.                                              *)

Persisting == {"load", "write", "rename"}
Loops == {"clone", "truncate", "rewrite", "swap", "verify", "clean", "discard"}
Undoable == {"prepared", "scratch", "staged", "applying"}

OpRecords ==
  LET m == op.id
      b == op.body
  IN  /\ op.pc = "prepare" => final[m] = Absent /\ b.staged = {}
      /\ op.pc = "clone" => final[m] = [b EXCEPT !.staged = {}]
      /\ op.pc \in {"truncate", "rewrite", "recheck", "swap", "verify", "live", "clean", "discard"}
           => final[m] = b
      /\ op.pc = "inspect" =>
           IF op.mode = "abort"
           THEN final[m].phase \in Undoable /\ staging[m].phase \in {"absent", "torn"} \cup Undoable
           ELSE final[m] = b /\ staging[m] = Absent
      /\ op.pc = "load" =>
           /\ final[m].phase \in Predecessors(b.phase)
           /\ Exists(staging[m]) =>
                /\ op.mode = "abort" /\ b.phase = "aborted_cleanup"
                /\ staging[m].phase \in {"torn"} \cup Undoable
      /\ op.pc \in {"write", "rename"} => Follows(b, final[m])
      /\ op.pc = "rename" => staging[m] = b
      /\ op.pc \notin {"idle", "inspect", "load", "rename"} => staging[m] = Absent

OpPhases ==
  LET phase == op.body.phase
  IN  /\ op.pc # "idle" => phase \in Phases
      /\ op.pc \in {"prepare", "clone"} => phase = "prepared"
      /\ op.pc \in {"truncate", "rewrite"} => phase = "scratch"
      /\ op.pc = "recheck" => phase = "staged"
      /\ op.pc \in {"swap", "verify", "live"} => phase = "applying"
      /\ op.pc = "clean" => phase = "published"
      /\ op.pc = "discard" => phase = "aborted_cleanup"
      /\ op.pc \in {"prepare", "clone", "truncate", "rewrite", "recheck"} => op.mode = "commit"
      /\ op.pc \in {"swap", "verify", "live", "clean"} => op.mode # "abort"
      /\ op.pc = "inspect" => op.mode # "commit" /\ (op.mode = "abort" => phase \in Undoable)
      /\ op.pc \in Persisting =>
           /\ phase \in {"scratch", "staged", "applying"} => op.mode = "commit"
           /\ phase \in {"published", "committed"} => op.mode # "abort"
      /\ op.pc \in Loops => op.left # {} /\ op.left \subseteq Touches[op.id]

Rewritten(f) == temp[op.id][f] \in {NoTemp, New(op.id)}
ToSwap ==
  CASE op.pc = "swap" -> op.left
    [] op.pc = "verify" -> op.left \ {First(op.left)}
    [] OTHER -> {}

OpTemps ==
  LET m == op.id
  IN  /\ op.pc \in {"clean", "discard"} =>
           \A f \in Files \ op.left : temp[m][f] = NoTemp
      /\ \A f \in ToSwap : Rewritten(f)
      /\ op.pc = "rewrite" =>
           temp[m][First(op.left)] \in {NoTemp, [bytes |-> "torn", node |-> m]}
      /\ op.pc \in {"truncate", "rewrite"} => \A f \in Files \ op.left : Rewritten(f)
      /\ \/ op.pc = "recheck"
         \/ op.pc \in Persisting /\ op.body.phase \in {"staged", "applying"}
         =>
           \A f \in Files : Rewritten(f)

OpTells == OpRecords /\ OpPhases /\ OpTemps

-----------------------------------------------------------------------------
(* The bytes of a file.  `past` holds what the file contained before: no   *)
(* content ever returns, a mutation writes a file once, over bytes that    *)
(* are gone for good, and records and receipts know whether it has.        *)

NoEffect == Unpublished \cup {"aborted", "no_change"}

MustBeNew(m, f) ==
  \/ Claims(m) \cap NoEffect # {}
  \/ told[m] \in {"aborted", "no_change", "refused"}
  \/ On(m) /\ op.mode = "abort"
  \/ On(m) /\ f \in ToSwap
MustBeSeen(m, f) ==
  f \in Touches[m] /\ (Claims(m) \cap {"published", "committed"} # {} \/ told[m] = "committed")

Explains(past, f) ==
  LET seen == past \cup {active[f].bytes}
  IN  /\ active[f].bytes \notin past
      /\ active[f].node \in Mutations => active[f].node \in seen
      /\ "user" \in seen => f \in edited
      /\ \A m \in Mutations :
           /\ before[m][f] \in seen \cup {"none"}
           /\ m \in seen =>
                /\ f \in Touches[m] /\ before[m][f] \in past
                /\ final[m].phase \in {"applying", "published", "committed", "absent"}
                /\ ~MustBeNew(m, f)
           /\ MustBeSeen(m, f) => m \in seen
HistoryTells == \A f \in Files : \E past \in SUBSET Contents : Explains(past, f)

(* A record that does not exist has no contents.                           *)
AbsentTells ==
  \A m \in Mutations :
    /\ ~Exists(final[m]) => final[m] = Absent
    /\ ~Exists(staging[m]) => staging[m] = Absent

IInv == TypeOK /\ AbsentTells /\ RecordsTell /\ OpTells /\ HistoryTells

-----------------------------------------------------------------------------
(* Lemmas about the operators of the journal.                              *)

(* A loop goes on with its first file.                                     *)
LEMMA FirstMember ==
  ASSUME NEW S, S \subseteq Files, S # {}
  PROVE  First(S) \in S
  <1>1. S \subseteq Nat
    BY DEF Files
  <1>2. PICK x \in S : \A y \in S : ~ (<<y, x>> \in OpToRel(<, Nat))
    BY <1>1, NatLessThanWellFounded, WFMin
  <1>3. \A y \in S : x <= y
    <2> TAKE y \in S
    <2>1. ~ (y < x)
      BY <1>1, <1>2 DEF OpToRel
    <2>2. QED
      BY <1>1, <2>1
  <1>4. QED
    BY <1>3 DEF First

(* What a loop leads to when no file is left.                              *)
LoopPcs == {"clone", "truncate", "swap", "clean", "discard"}
PhaseAfter(pc, m) ==
  CASE pc = "clone" -> "scratch"
    [] pc = "truncate" -> "staged"
    [] pc = "clean" -> "committed"
    [] OTHER -> UnchangedPhase(m)

LEMMA PersistFields ==
  ASSUME NEW o \in Operation, NEW phase \in Phases
  PROVE  /\ Persist(o, phase) \in Operation
         /\ Persist(o, phase).pc = "load" /\ Persist(o, phase).left = {}
         /\ Persist(o, phase).id = o.id /\ Persist(o, phase).mode = o.mode
         /\ Persist(o, phase).body = [o.body EXCEPT !.phase = phase]
         /\ Persist(o, phase).body.phase = phase
         /\ Persist(o, phase).body.staged = o.body.staged
         /\ Persist(o, phase).body.source = o.body.source
  BY DEF Persist, Operation, Body, Pcs

LEMMA LoopGoesOn ==
  ASSUME NEW o \in Operation, NEW pc \in LoopPcs, NEW files \in SUBSET Files, files # {}
  PROVE  /\ Loop(o, pc, files) \in Operation
         /\ Loop(o, pc, files).pc = pc /\ Loop(o, pc, files).left = files
         /\ Loop(o, pc, files).id = o.id /\ Loop(o, pc, files).mode = o.mode
         /\ Loop(o, pc, files).body = o.body
  BY DEF Loop, Operation, Pcs, LoopPcs

LEMMA LoopEnds ==
  ASSUME NEW o \in Operation, NEW pc \in LoopPcs, pc # "swap"
  PROVE  /\ Loop(o, pc, {}) \in Operation
         /\ Loop(o, pc, {}).pc = "load" /\ Loop(o, pc, {}).left = {}
         /\ Loop(o, pc, {}).id = o.id /\ Loop(o, pc, {}).mode = o.mode
         /\ Loop(o, pc, {}).body = [o.body EXCEPT !.phase = PhaseAfter(pc, o.id)]
         /\ Loop(o, pc, {}).body.phase = PhaseAfter(pc, o.id)
         /\ Loop(o, pc, {}).body.staged = o.body.staged
         /\ Loop(o, pc, {}).body.source = o.body.source
  <1> DEFINE n == [o EXCEPT !.pc = pc, !.left = {}]
  <1>1. n \in Operation /\ n.pc = pc /\ n.id = o.id /\ n.mode = o.mode /\ n.body = o.body
    BY DEF Operation, LoopPcs, Pcs
  <1>2. PhaseAfter(pc, o.id) \in Phases
    BY DEF PhaseAfter, UnchangedPhase, Phases, Unpublished, TerminalPhases
  <1>3. Loop(o, pc, {}) = Persist(n, PhaseAfter(pc, o.id))
    BY <1>1 DEF Loop, AfterLoop, PhaseAfter, LoopPcs
  <1> HIDE DEF n
  <1>4. QED
    BY <1>1, <1>2, <1>3, PersistFields

LEMMA SwapEnds ==
  ASSUME NEW o \in Operation
  PROVE  /\ Loop(o, "swap", {}) \in Operation
         /\ Loop(o, "swap", {}).pc = "live" /\ Loop(o, "swap", {}).left = {}
         /\ Loop(o, "swap", {}).id = o.id /\ Loop(o, "swap", {}).mode = o.mode
         /\ Loop(o, "swap", {}).body = o.body
  BY DEF Loop, AfterLoop, Operation, Pcs

Remaining(files) == files # {}

LEMMA LoopNext ==
  ASSUME NEW o \in Operation, NEW pc \in LoopPcs, pc # "swap", NEW files \in SUBSET Files
  PROVE  /\ Loop(o, pc, files).id = o.id /\ Loop(o, pc, files).mode = o.mode
         /\ \/ /\ Loop(o, pc, files).pc = pc
               /\ Loop(o, pc, files).left = files /\ Remaining(files)
               /\ Loop(o, pc, files).body = o.body
            \/ /\ Loop(o, pc, files).pc = "load" /\ ~Remaining(files)
               /\ Loop(o, pc, files).body = [o.body EXCEPT !.phase = PhaseAfter(pc, o.id)]
               /\ Loop(o, pc, files).body.phase = PhaseAfter(pc, o.id)
               /\ Loop(o, pc, files).body.staged = o.body.staged
               /\ Loop(o, pc, files).body.source = o.body.source
  <1>1. CASE files = {}
    BY <1>1, LoopEnds DEF Remaining
  <1>2. CASE files # {}
    BY <1>2, LoopGoesOn DEF Remaining
  <1>3. QED
    BY <1>1, <1>2

LEMMA IdleFields == Idle \in Operation /\ Idle.pc = "idle" /\ Idle.mode = "recover"
  BY JournalAssumption
    DEF Idle, Operation, Pcs, Modes, Body, Absent, Nodes

(* After an error the operation is over, or a commit is undone.            *)
LEMMA FailedFields ==
  ASSUME NEW o \in Operation
  PROVE  /\ Failed(o) \in Operation
         /\ ~BeforeEffect(o) => Failed(o) = Idle
         /\ BeforeEffect(o) =>
              /\ Failed(o).pc = "inspect" /\ Failed(o).mode = "abort"
              /\ Failed(o).id = o.id /\ Failed(o).body = o.body /\ Failed(o).left = {}
  BY IdleFields DEF Failed, Operation, Pcs, Modes

(* What follows a durable phase.                                           *)
LEMMA PersistedType ==
  ASSUME TypeOK, NEW o \in Operation
  PROVE  Persisted(o) \in Operation
  <1> DEFINE files == {f \in Touches[o.id] : temp[o.id][f] # NoTemp}
  <1>1. o.id \in Mutations /\ Touches[o.id] \in SUBSET Files /\ files \in SUBSET Files
    BY JournalAssumption DEF Operation
  <1>2. ASSUME NEW pc \in LoopPcs, NEW left \in SUBSET Files PROVE Loop(o, pc, left) \in Operation
    BY LoopGoesOn, LoopEnds, SwapEnds
  <1>3. [o EXCEPT !.pc = "recheck"] \in Operation /\ [o EXCEPT !.pc = "inspect"] \in Operation
    BY DEF Operation, Pcs
  <1> HIDE DEF files
  <1>4. /\ Loop(o, "truncate", Touches[o.id]) \in Operation
        /\ Loop(o, "swap", Touches[o.id]) \in Operation
        /\ Loop(o, "clean", Touches[o.id]) \in Operation
        /\ Loop(o, "discard", files) \in Operation
    BY <1>1, <1>2 DEF LoopPcs
  <1>5. QED
    BY <1>3, <1>4, IdleFields DEF Persisted, files

-----------------------------------------------------------------------------
(* Type correctness.                                                       *)

LEMMA InitTypeOK == Init => TypeOK
  BY IdleFields, JournalAssumption
    DEF Init, TypeOK, FileState, Contents, Nodes, Body, Absent, NoPlan, TerminalPhases

(* The file a loop works on.                                               *)
LEMMA LoopFile ==
  ASSUME TypeOK, OpPhases, op.pc \in Loops
  PROVE  /\ op.id \in Mutations /\ op \in Operation
         /\ First(op.left) \in op.left /\ First(op.left) \in Touches[op.id]
         /\ First(op.left) \in Files
         /\ op.left \ {First(op.left)} \in SUBSET Files
  <1>1. op.id \in Mutations /\ op \in Operation
    BY DEF TypeOK, Operation
  <1>2. op.left # {} /\ op.left \subseteq Touches[op.id] /\ Touches[op.id] \subseteq Files
    BY <1>1, JournalAssumption DEF OpPhases
  <1>3. QED
    BY <1>1, <1>2, FirstMember

LEMMA StoredType == ASSUME TypeOK, NEW m \in Mutations PROVE Stored(m) \in Body
  BY DEF TypeOK, Stored

LEMMA TellType ==
  ASSUME TypeOK, NEW o \in Operation
  PROVE  Tell(o) \in [Mutations -> {"nothing", "refused"} \cup TerminalPhases]
  <1>1. o.id \in Mutations
    BY DEF Operation
  <1>2. QED
    BY <1>1 DEF TypeOK, Tell

LEMMA LoopType ==
  ASSUME NEW o \in Operation, NEW pc \in LoopPcs, NEW left \in SUBSET Files
  PROVE  Loop(o, pc, left) \in Operation
  BY LoopGoesOn, LoopEnds, SwapEnds

LEMMA CloneTypes == TypeOK /\ OpPhases /\ Clone => TypeOK'
  <1> SUFFICES ASSUME TypeOK, OpPhases, Clone PROVE TypeOK'
    OBVIOUS
  <1> DEFINE m == op.id
             f == First(op.left)
             bound == [op EXCEPT !.body.staged = @ \cup {f}]
  <1>1. m \in Mutations /\ f \in Files /\ op \in Operation /\ op.left \ {f} \in SUBSET Files
    BY LoopFile DEF Clone, Loops
  <1>2. bound \in Operation
    BY <1>1 DEF Operation, Body
  <1>3. Loop(bound, "clone", op.left \ {f}) \in Operation /\ Failed(op) \in Operation
    BY <1>1, <1>2, LoopType, FailedFields DEF LoopPcs
  <1>4. op' \in Operation
    BY <1>3 DEF Clone
  <1>5. [bytes |-> before[m][f], node |-> m] \in FileState \/ temp' = temp
    <2>1. ASSUME Pristine(op.body, m, f) PROVE before[m][f] \in Contents
      BY <2>1, <1>1 DEF Pristine, TypeOK, FileState
    <2>2. QED
      BY <1>1, <2>1 DEF Clone, FileState, Nodes
  <1>6. temp' \in [Mutations -> [Files -> FileState \cup {NoTemp}]]
    BY <1>1, <1>5 DEF Clone, TypeOK
  <1>7. QED
    BY <1>4, <1>6 DEF Clone, TypeOK, worldVars

LEMMA RewriteTypes == TypeOK /\ OpPhases /\ (Truncate \/ Rewrite) => TypeOK'
  <1> SUFFICES ASSUME TypeOK, OpPhases, Truncate \/ Rewrite PROVE TypeOK'
    OBVIOUS
  <1> DEFINE m == op.id
             f == First(op.left)
  <1>1. m \in Mutations /\ f \in Files /\ op \in Operation /\ op.left \ {f} \in SUBSET Files
    BY LoopFile DEF Truncate, Rewrite, Loops
  <1>2. /\ Loop(op, "truncate", op.left \ {f}) \in Operation /\ Failed(op) \in Operation
        /\ [op EXCEPT !.pc = "rewrite"] \in Operation
    <2>1. Loop(op, "truncate", op.left \ {f}) \in Operation /\ Failed(op) \in Operation
      BY <1>1, LoopType, FailedFields DEF LoopPcs
    <2>2. [op EXCEPT !.pc = "rewrite"] \in Operation
      BY <1>1 DEF Operation, Pcs
    <2>3. QED
      BY <2>1, <2>2
  <1>3. op' \in Operation
    BY <1>2 DEF Truncate, Rewrite
  <1>4. temp' \in [Mutations -> [Files -> FileState \cup {NoTemp}]]
    <2>1. CASE temp[m][f] = NoTemp
      <3>1. temp[m][f] # [bytes |-> before[m][f], node |-> m]
        BY <2>1, <1>1, JournalAssumption DEF NoTemp
      <3>2. temp' = temp
        BY <2>1, <3>1 DEF Truncate, Rewrite
      <3>3. QED
        BY <3>2 DEF TypeOK
    <2>2. CASE temp[m][f] # NoTemp
      <3>1. temp[m][f] \in FileState
        BY <1>1, <2>2 DEF TypeOK
      <3>2. /\ [temp[m][f] EXCEPT !.bytes = "torn"] \in FileState
            /\ [temp[m][f] EXCEPT !.bytes = m] \in FileState
        BY <1>1, <3>1 DEF FileState, Contents
      <3>3. \/ temp' = temp
            \/ temp' = [temp EXCEPT ![m][f] = [temp[m][f] EXCEPT !.bytes = "torn"]]
            \/ temp' = [temp EXCEPT ![m][f] = [temp[m][f] EXCEPT !.bytes = m]]
        BY <1>1 DEF Truncate, Rewrite, TypeOK
      <3>4. ASSUME NEW new \in FileState, temp' = [temp EXCEPT ![m][f] = new]
            PROVE  temp' \in [Mutations -> [Files -> FileState \cup {NoTemp}]]
        BY <1>1, <3>4 DEF TypeOK
      <3>5. QED
        BY <3>2, <3>3, <3>4 DEF TypeOK
    <2>3. QED
      BY <2>1, <2>2
  <1>5. QED
    BY <1>3, <1>4 DEF Truncate, Rewrite, TypeOK, worldVars

LEMMA PersistTypes == TypeOK /\ (Load \/ WriteStaging \/ Rename) => TypeOK'
  <1> SUFFICES ASSUME TypeOK, Load \/ WriteStaging \/ Rename PROVE TypeOK'
    OBVIOUS
  <1>1. op \in Operation /\ op.id \in Mutations /\ op.body \in Body /\ Absent \in Body
    BY DEF TypeOK, Operation, Body, Absent, Nodes
  <1>2. /\ Persisted(op) \in Operation /\ Failed(op) \in Operation
        /\ Tell(op) \in [Mutations -> {"nothing", "refused"} \cup TerminalPhases]
        /\ Stored(op.id) \in Body
    BY <1>1, PersistedType, FailedFields, TellType, StoredType
  <1>3. [op EXCEPT !.pc = "write"] \in Operation /\ [op EXCEPT !.pc = "rename"] \in Operation
    BY <1>1 DEF Operation, Pcs
  <1>4. op' \in Operation
    BY <1>2, <1>3 DEF Load, WriteStaging, Rename
  <1>5. final' \in [Mutations -> Body] /\ staging' \in [Mutations -> Body]
    BY <1>1, <1>2 DEF Load, WriteStaging, Rename, TypeOK
  <1>6. told' \in [Mutations -> {"nothing", "refused"} \cup TerminalPhases]
    BY <1>2 DEF Load, WriteStaging, Rename, TypeOK
  <1>7. QED
    BY <1>4, <1>5, <1>6 DEF Load, WriteStaging, Rename, TypeOK, worldVars

LEMMA SwapTypes == TypeOK /\ OpPhases /\ (Swap \/ Verify \/ Clean \/ Discard) => TypeOK'
  <1> SUFFICES ASSUME TypeOK, OpPhases, Swap \/ Verify \/ Clean \/ Discard PROVE TypeOK'
    OBVIOUS
  <1> DEFINE m == op.id
             f == First(op.left)
  <1>1. m \in Mutations /\ f \in Files /\ op \in Operation /\ op.left \ {f} \in SUBSET Files
    BY LoopFile DEF Swap, Verify, Clean, Discard, Loops
  <1>2. [op EXCEPT !.pc = "verify"] \in Operation
    BY <1>1 DEF Operation, Pcs
  <1>3. /\ Loop(op, "swap", op.left \ {f}) \in Operation
        /\ Loop(op, "clean", op.left \ {f}) \in Operation
        /\ Loop(op, "discard", op.left \ {f}) \in Operation
        /\ Failed(op) \in Operation
    BY <1>1, LoopType, FailedFields DEF LoopPcs
  <1>4. op' \in Operation
    BY <1>2, <1>3 DEF Swap, Verify, Clean, Discard
  <1>5. CASE Swap
    <2>1. temp[m][f] = NoTemp \/ temp[m][f] \in FileState
      BY <1>1 DEF TypeOK
    <2>2. active' \in [Files -> FileState]
      BY <1>1, <1>5, <2>1 DEF Swap, TypeOK
    <2>3. temp' \in [Mutations -> [Files -> FileState \cup {NoTemp}]]
      BY <1>1, <1>5 DEF Swap, TypeOK
    <2>4. QED
      BY <1>4, <1>5, <2>2, <2>3 DEF Swap, TypeOK, worldVars
  <1>6. CASE Verify \/ Clean \/ Discard
    <2>1. temp' \in [Mutations -> [Files -> FileState \cup {NoTemp}]]
      BY <1>1, <1>6 DEF Verify, Clean, Discard, TypeOK, diskVars
    <2>2. QED
      BY <1>4, <1>6, <2>1 DEF Verify, Clean, Discard, TypeOK, worldVars, diskVars
  <1>7. QED
    BY <1>5, <1>6

LEMMA PersistType ==
  ASSUME NEW o \in Operation, NEW phase \in Phases
  PROVE  Persist(o, phase) \in Operation
  BY PersistFields

LEMMA SomePhases ==
  /\ "applying" \in Phases /\ "published" \in Phases /\ "aborted_cleanup" \in Phases
  /\ "no_change" \in Phases /\ "aborted" \in Phases /\ "prepared" \in Phases
  BY DEF Phases, Unpublished, TerminalPhases

LEMMA DecisionTypes ==
  TypeOK /\ (Recheck \/ CancelRequest \/ CheckLive \/ InspectUnpublished \/ InspectApplying
             \/ InspectPublished \/ InspectTerminal) => TypeOK'
  <1> SUFFICES ASSUME TypeOK, Recheck \/ CancelRequest \/ CheckLive \/ InspectUnpublished
                              \/ InspectApplying \/ InspectPublished \/ InspectTerminal
               PROVE  TypeOK'
    OBVIOUS
  <1> DEFINE m == op.id
             found == IF op.body.phase = "prepared"
                      THEN {f \in Touches[m] : temp[m][f] # NoTemp} ELSE {}
             done == {f \in Touches[m] : Published(op.body, m, f)}
             present == {f \in Touches[m] : temp[m][f] # NoTemp}
  <1>1. op \in Operation /\ m \in Mutations /\ Touches[m] \subseteq Files
    BY JournalAssumption DEF TypeOK, Operation
  <1>2. found \in SUBSET Files /\ Touches[m] \ done \in SUBSET Files /\ present \in SUBSET Files
    BY <1>1
  <1> HIDE DEF found, done, present
  <1>3. [op EXCEPT !.body.staged = @ \cup found] \in Operation
    BY <1>1, <1>2 DEF Operation, Body
  <1>4. /\ Failed(op) \in Operation /\ Idle \in Operation
        /\ Persist(op, "applying") \in Operation /\ Persist(op, "published") \in Operation
        /\ Persist(op, "aborted_cleanup") \in Operation
        /\ Persist([op EXCEPT !.body.staged = @ \cup found], "aborted_cleanup") \in Operation
    BY <1>1, <1>3, FailedFields, IdleFields, PersistType, SomePhases
  <1>5. /\ Loop(op, "swap", Touches[m] \ done) \in Operation
        /\ Loop(op, "clean", present) \in Operation
    BY <1>1, <1>2, LoopType DEF LoopPcs
  <1>6. op' \in Operation
    <2>1. CASE Recheck \/ CancelRequest \/ CheckLive \/ InspectTerminal
      BY <2>1, <1>4 DEF Recheck, CancelRequest, CheckLive, InspectTerminal
    <2>2. CASE InspectUnpublished
      BY <2>2, <1>4 DEF InspectUnpublished, found
    <2>3. CASE InspectApplying
      BY <2>3, <1>4, <1>5 DEF InspectApplying, done
    <2>4. CASE InspectPublished
      BY <2>4, <1>4, <1>5 DEF InspectPublished, present
    <2>5. QED
      BY <2>1, <2>2, <2>3, <2>4
  <1>7. told' \in [Mutations -> {"nothing", "refused"} \cup TerminalPhases]
    BY <1>1, TellType DEF Recheck, CancelRequest, CheckLive, InspectUnpublished,
      InspectApplying, InspectPublished, InspectTerminal, TypeOK
  <1>8. UNCHANGED <<active, temp, final, staging, before, edited, faults>>
    BY DEF Recheck, CancelRequest, CheckLive, InspectUnpublished, InspectApplying,
      InspectPublished, InspectTerminal, diskVars, worldVars
  <1>9. QED
    BY <1>6, <1>7, <1>8 DEF TypeOK

LEMMA PrepareTypes == TypeOK /\ Prepare => TypeOK'
  <1> SUFFICES ASSUME TypeOK, Prepare PROVE TypeOK'
    OBVIOUS
  <1>1. op \in Operation /\ op.id \in Mutations /\ Touches[op.id] \in SUBSET Files /\ op.body \in Body
    BY JournalAssumption DEF TypeOK, Operation
  <1>2. op' \in Operation
    BY <1>1, LoopType, PersistType, SomePhases DEF Prepare, LoopPcs
  <1>3. QED
    BY <1>1, <1>2 DEF Prepare, TypeOK, worldVars

LEMMA RequestTypes ==
  ASSUME TypeOK, NEW m \in Mutations,
         Plan(m) \/ BeginCommit(m) \/ BeginRecover(m) \/ Receipt(m) \/ Prune(m)
  PROVE  TypeOK'
  <1> USE DEF TypeOK, diskVars, worldVars
  <1>1. CASE Plan(m)
    BY <1>1 DEF Plan, FileState
  <1>2. CASE BeginCommit(m)
    <2>1. [f \in Files |-> active[f].node] \in [Files -> Nodes]
      BY DEF FileState
    <2>2. op' \in Operation
      BY <2>1, <1>2 DEF BeginCommit, Operation, Pcs, Modes, Body, Phases, Unpublished
    <2>3. QED
      BY <2>2, <1>2 DEF BeginCommit
  <1>3. CASE BeginRecover(m)
    <2>1. Stored(m) \in Body /\ Absent \in Body
      BY StoredType DEF Body, Absent, Nodes
    <2>2. op' \in Operation
      BY <2>1, <1>3 DEF BeginRecover, Operation, Pcs, Modes
    <2>3. QED
      BY <2>1, <2>2, <1>3 DEF BeginRecover
  <1>4. CASE Receipt(m) \/ Prune(m)
    <2>1. Absent \in Body
      BY DEF Body, Absent, Nodes
    <2>2. QED
      BY <2>1, <1>4 DEF Receipt, Prune
  <1>5. QED
    BY <1>1, <1>2, <1>3, <1>4

LEMMA EditTypes ==
  ASSUME TypeOK, NEW f \in Files, Edit(f) \/ \E m \in Mutations : TempVanishes(m, f)
  PROVE  TypeOK'
  <1> USE DEF TypeOK, worldVars
  <1>1. CASE Edit(f)
    <2>1. active' \in [Files -> FileState]
      <3>1. active[f] \in FileState
        OBVIOUS
      <3>2. /\ [active[f] EXCEPT !.bytes = "user"] \in FileState
            /\ [bytes |-> "user", node |-> "ext"] \in FileState
        BY <3>1 DEF FileState, Contents, Nodes
      <3>3. \E new \in FileState : active' = [active EXCEPT ![f] = new]
        BY <1>1, <3>2 DEF Edit
      <3>4. QED
        BY <3>3
    <2>2. QED
      BY <1>1, <2>1 DEF Edit
  <1>2. ASSUME NEW m \in Mutations, TempVanishes(m, f) PROVE TypeOK'
    BY <1>2 DEF TempVanishes
  <1>3. QED
    BY <1>1, <1>2

LEMMA FaultTypes ==
  TypeOK /\ OpPhases /\ (Crash \/ StepFails \/ CloneFails \/ ShortWrite \/ RenameFails) => TypeOK'
  <1> SUFFICES ASSUME TypeOK, OpPhases,
                      Crash \/ StepFails \/ CloneFails \/ ShortWrite \/ RenameFails
               PROVE  TypeOK'
    OBVIOUS
  <1>1. op \in Operation /\ op.id \in Mutations
    BY DEF TypeOK, Operation
  <1>2. op' \in Operation
    BY <1>1, FailedFields, IdleFields DEF Crash, StepFails, CloneFails, ShortWrite, RenameFails
  <1>3. faults' \in 0 .. MaxFaults
    BY JournalAssumption DEF Crash, StepFails, CloneFails, ShortWrite, RenameFails, Fault, TypeOK
  <1>4. CASE Crash \/ StepFails
    BY <1>2, <1>3, <1>4 DEF Crash, StepFails, TypeOK, diskVars, worldVars
  <1>5. CASE CloneFails
    <2>1. First(op.left) \in Files
      BY <1>5, LoopFile DEF CloneFails, Loops
    <2>2. [bytes |-> before[op.id][First(op.left)], node |-> op.id] \in FileState
      BY <1>1, <1>5, <2>1 DEF CloneFails, Pristine, TypeOK, FileState, Nodes
    <2>3. temp' \in [Mutations -> [Files -> FileState \cup {NoTemp}]]
      BY <1>1, <1>5, <2>1, <2>2 DEF CloneFails, TypeOK
    <2>4. QED
      BY <1>2, <1>3, <1>5, <2>3 DEF CloneFails, TypeOK, worldVars
  <1>6. CASE ShortWrite \/ RenameFails
    <2>1. Absent \in Body /\ Torn \in Body
      BY DEF Body, Absent, Torn, Nodes
    <2>2. final' \in [Mutations -> Body] /\ staging' \in [Mutations -> Body]
      BY <1>1, <1>6, <2>1 DEF ShortWrite, RenameFails, TypeOK
    <2>3. QED
      BY <1>2, <1>3, <1>6, <2>2 DEF ShortWrite, RenameFails, TypeOK, worldVars
  <1>7. QED
    BY <1>4, <1>5, <1>6

LEMMA NextTypeOK == TypeOK /\ OpPhases /\ [Next]_vars => TypeOK'
  <1> SUFFICES ASSUME TypeOK, OpPhases, [Next]_vars PROVE TypeOK'
    OBVIOUS
  <1>1. CASE Step \/ CancelRequest
    BY <1>1, PrepareTypes, CloneTypes, RewriteTypes, PersistTypes, SwapTypes, DecisionTypes DEF Step
  <1>2. CASE UNCHANGED vars
    BY <1>2 DEF vars, TypeOK
  <1>3. QED
    BY <1>1, <1>2, RequestTypes, EditTypes, FaultTypes DEF Next

-----------------------------------------------------------------------------
(* Frames: what a step that works on one mutation leaves alone.            *)

LEMMA QuietRecords ==
  ASSUME NEW n \in Mutations, RecordTells(n), ~On(n)',
         final'[n] = final[n], staging'[n] = staging[n], temp'[n] = temp[n],
         told'[n] = told[n], before'[n] = before[n]
  PROVE  RecordTells(n)'
  BY DEF RecordTells, Claims, Exists, Follows, Planned

LEMMA QuietHistory ==
  ASSUME NEW n \in Mutations, NEW f \in Files, ~On(n)',
         final'[n] = final[n], staging'[n] = staging[n], told'[n] = told[n]
  PROVE  /\ MustBeNew(n, f)' => MustBeNew(n, f)
         /\ MustBeSeen(n, f)' => MustBeSeen(n, f)
  BY DEF MustBeNew, MustBeSeen, Claims

(* A step that does not change a file keeps its history, if it says no     *)
(* more of a mutation than the file already shows.                         *)
LEMMA FileStep ==
  ASSUME HistoryTells, NEW f \in Files, active'[f] = active[f], edited \subseteq edited',
         \A n \in Mutations :
           /\ before'[n][f] = before[n][f]
           /\ MustBeNew(n, f)' =>
                MustBeNew(n, f) \/ f \notin Touches[n] \/ active[f].bytes = before[n][f]
           /\ MustBeSeen(n, f)' => MustBeSeen(n, f) \/ active[f].bytes = n
           /\ \/ final'[n].phase = final[n].phase
              \/ final'[n].phase \in {"applying", "published", "committed", "absent"}
              \/ MustBeNew(n, f) \/ f \notin Touches[n]
  PROVE  \E past \in SUBSET Contents : Explains(past, f)'
  <1>1. PICK past \in SUBSET Contents : Explains(past, f)
    BY DEF HistoryTells
  <1> DEFINE seen == past \cup {active[f].bytes}
  <1>2. ASSUME NEW n \in Mutations, n \in seen
        PROVE  /\ f \in Touches[n] /\ before[n][f] \in past
               /\ active[f].bytes # before[n][f] /\ ~MustBeNew(n, f)
               /\ final[n].phase \in {"applying", "published", "committed", "absent"}
    BY <1>1, <1>2 DEF Explains
  <1>3. ASSUME NEW n \in Mutations, n \in seen
        PROVE  ~MustBeNew(n, f)' /\ final'[n].phase \in {"applying", "published", "committed", "absent"}
    BY <1>2, <1>3
  <1>4. ASSUME NEW n \in Mutations, MustBeSeen(n, f)' PROVE n \in seen
    BY <1>1, <1>4 DEF Explains
  <1>5. Explains(past, f)'
    BY <1>1, <1>2, <1>3, <1>4 DEF Explains
  <1>6. QED
    BY <1>5

LEMMA HistoryStep ==
  ASSUME HistoryTells, UNCHANGED <<active, before, edited>>,
         \A n \in Mutations, f \in Files :
           /\ MustBeNew(n, f)' =>
                MustBeNew(n, f) \/ f \notin Touches[n] \/ active[f].bytes = before[n][f]
           /\ MustBeSeen(n, f)' => MustBeSeen(n, f) \/ active[f].bytes = n
           /\ \/ final'[n].phase = final[n].phase
              \/ final'[n].phase \in {"applying", "published", "committed", "absent"}
              \/ MustBeNew(n, f) \/ f \notin Touches[n]
  PROVE  HistoryTells'
  <1>1. ASSUME NEW f \in Files PROVE \E past \in SUBSET Contents : Explains(past, f)'
    BY FileStep
  <1>2. QED
    BY <1>1 DEF HistoryTells

LEMMA OpHistory ==
  ASSUME HistoryTells, UNCHANGED <<active, before, edited>>, NEW m \in Mutations,
         \A n \in Mutations \ {m} :
           final'[n] = final[n] /\ staging'[n] = staging[n] /\ told'[n] = told[n] /\ ~On(n)',
         \A f \in Files :
           /\ MustBeNew(m, f)' =>
                MustBeNew(m, f) \/ f \notin Touches[m] \/ active[f].bytes = before[m][f]
           /\ MustBeSeen(m, f)' => MustBeSeen(m, f) \/ active[f].bytes = m
           /\ \/ final'[m].phase = final[m].phase
              \/ final'[m].phase \in {"applying", "published", "committed", "absent"}
              \/ MustBeNew(m, f) \/ f \notin Touches[m]
  PROVE  HistoryTells'
  <1>1. ASSUME NEW n \in Mutations \ {m}, NEW f \in Files
        PROVE  /\ MustBeNew(n, f)' => MustBeNew(n, f)
               /\ MustBeSeen(n, f)' => MustBeSeen(n, f)
               /\ final'[n].phase = final[n].phase
    BY QuietHistory
  <1>2. QED
    BY <1>1, HistoryStep

LEMMA IdleTells == ASSUME op'.pc = "idle" PROVE OpTells'
  BY DEF OpTells, OpRecords, OpPhases, OpTemps, ToSwap, Persisting, Loops

(* A step of the operation that leaves the records and the receipts alone. *)
LEMMA StepRecords ==
  ASSUME RecordsTell, OpPhases, NEW m \in Mutations, On(m), op'.pc = "idle" \/ op'.id = m,
         UNCHANGED <<final, staging, before, told>>,
         \A n \in Mutations \ {m} : temp'[n] = temp[n],
         \/ op'.pc = "idle"
         \/ op'.body.phase = op.body.phase
         \/ /\ op.body.phase \notin TerminalPhases
            /\ op'.body.phase \notin TerminalPhases \/ \A f \in Files : temp'[m][f] = NoTemp,
         \A f \in Files :
           \/ temp'[m][f] \in {temp[m][f], NoTemp}
           \/ /\ f \in Touches[m] /\ Exists(final[m])
              /\ Claims(m) \cap TerminalPhases = {}
              /\ op'.body.phase \notin TerminalPhases
              /\ temp'[m][f].node = m => temp'[m][f].bytes \in {before[m][f], "torn", m}
  PROVE  RecordsTell'
  <1>1. ASSUME NEW n \in Mutations \ {m} PROVE RecordTells(n)'
    BY <1>1, QuietRecords DEF RecordsTell, On, Running
  <1>2. RecordTells(m)
    BY DEF RecordsTell
  <1>3. Claims(m)' \subseteq Claims(m) \cup {op'.body.phase}
    BY DEF Claims
  <1>4. Claims(m)' \subseteq Claims(m)
        \/ /\ op.body.phase \notin TerminalPhases
           /\ op'.body.phase \notin TerminalPhases \/ \A f \in Files : temp'[m][f] = NoTemp
    BY DEF Claims, On, Running
  <1>5. op.body.phase \in Claims(m)
    BY DEF Claims
  <1>6. told'[m] # "nothing" => Claims(m)' \subseteq TerminalPhases \cup {"absent"}
    <2>1. op.body.phase # "absent"
      BY DEF OpPhases, On, Running, Phases, Unpublished, TerminalPhases
    <2>2. told[m] # "nothing" =>
            Claims(m) \subseteq TerminalPhases \cup {"absent"} /\ op.body.phase \in TerminalPhases
      BY <1>2, <1>5, <2>1 DEF RecordTells
    <2>3. QED
      BY <1>3, <1>4, <2>2
  <1>7. ASSUME NEW f \in Files
        PROVE  /\ temp'[m][f] # NoTemp =>
                    f \in Touches[m] /\ Exists(final'[m]) /\ Claims(m)' \cap TerminalPhases = {}
               /\ temp'[m][f].node = m => temp'[m][f].bytes \in {before'[m][f], "torn", m}
    <2>1. CASE temp'[m][f] = NoTemp
      BY <2>1, JournalAssumption DEF NoTemp
    <2>2. CASE temp'[m][f] = temp[m][f] /\ temp[m][f] # NoTemp
      <3>1. /\ f \in Touches[m] /\ Exists(final[m]) /\ Claims(m) \cap TerminalPhases = {}
            /\ temp[m][f].node = m => temp[m][f].bytes \in {before[m][f], "torn", m}
        BY <1>2, <2>2 DEF RecordTells
      <3>2. Claims(m)' \cap TerminalPhases = {}
        BY <1>3, <1>4, <2>2, <3>1
      <3>3. QED
        BY <2>2, <3>1, <3>2
    <2>3. CASE temp'[m][f] \notin {temp[m][f], NoTemp}
      <3>1. Claims(m)' \cap TerminalPhases = {}
        BY <1>3, <2>3
      <3>2. QED
        BY <2>3, <3>1
    <2>4. QED
      BY <2>1, <2>2, <2>3
  <1>8. Planned(m)'
    BY <1>2 DEF RecordTells, Planned
  <1>9. RecordTells(m)'
    BY <1>2, <1>6, <1>7, <1>8 DEF RecordTells, Exists, Follows
  <1>10. QED
    BY <1>1, <1>9 DEF RecordsTell

-----------------------------------------------------------------------------
(* Errors: the operation ends, or a commit without an effect is undone.    *)

LEMMA Undone ==
  ASSUME IInv, NEW m \in Mutations, On(m), BeforeEffect(op)
  PROVE  /\ op.body.phase \in Undoable /\ final[m].phase \in Undoable
         /\ staging[m].phase \in {"absent"} \cup Undoable
         /\ \A f \in Files : MustBeNew(m, f) \/ f \notin Touches[m]
  <1> USE DEF IInv, OpTells, On, Running
  <1>1. CASE op.pc \in {"clone", "truncate", "rewrite", "recheck"}
    <2>1. op.body.phase \in {"prepared", "scratch", "staged"} /\ staging[m] = Absent
      BY <1>1 DEF OpPhases, OpRecords
    <2>2. final[m].phase = op.body.phase
      BY <1>1 DEF OpRecords, TypeOK, Operation, Body
    <2>3. \A f \in Files : MustBeNew(m, f)
      BY <2>1 DEF MustBeNew, Claims, NoEffect, Unpublished
    <2>4. QED
      BY <1>1, <2>1, <2>2, <2>3 DEF Undoable, Absent
  <1>2. CASE op.pc \in Persisting
    <2>1. op.body.phase \in {"scratch", "staged", "applying"} /\ op.mode = "commit"
      BY <1>2 DEF BeforeEffect, Persisting
    <2>2. final[m].phase \in Predecessors(op.body.phase)
      BY <1>2 DEF OpRecords, Persisting, Follows
    <2>3. final[m].phase \in {"prepared", "scratch", "staged"}
      BY <2>1, <2>2 DEF Predecessors
    <2>4. ~Exists(staging[m]) \/ (op.pc = "rename" /\ staging[m] = op.body)
      BY <1>2, <2>1 DEF OpRecords, Persisting, Exists, Absent
    <2>5. \A f \in Files : MustBeNew(m, f)
      BY <2>3 DEF MustBeNew, Claims, NoEffect, Unpublished
    <2>6. QED
      BY <1>2, <2>1, <2>3, <2>4, <2>5 DEF Undoable, Exists, OpRecords
  <1>3. CASE op.pc = "swap"
    <2>1. op.body.phase = "applying" /\ final[m] = op.body /\ staging[m] = Absent
      BY <1>3 DEF OpPhases, OpRecords
    <2>2. \A f \in Touches[m] : MustBeNew(m, f)
      BY <1>3 DEF BeforeEffect, MustBeNew, ToSwap
    <2>3. QED
      BY <1>3, <2>1, <2>2 DEF Undoable, Absent
  <1>4. QED
    BY <1>1, <1>2, <1>3 DEF BeforeEffect, Persisting

LEMMA FailedStep ==
  ASSUME IInv, NEW m \in Mutations, On(m), op' \in {Idle, Failed(op)},
         UNCHANGED <<active, final, staging, before, told, edited>>,
         \A n \in Mutations \ {m} : temp'[n] = temp[n],
         \A f \in Files :
           \/ temp'[m][f] \in {temp[m][f], NoTemp}
           \/ /\ f \in Touches[m] /\ Exists(final[m])
              /\ Claims(m) \cap TerminalPhases = {} /\ BeforeEffect(op) /\ op' = Failed(op)
              /\ temp'[m][f].bytes \in {before[m][f], "torn", m}
  PROVE  RecordsTell' /\ OpTells' /\ HistoryTells'
  <1>1. op \in Operation
    BY DEF IInv, TypeOK
  <1>2. CASE op' = Idle
    <2>1. op'.pc = "idle" /\ ~On(m)'
      BY <1>2, IdleFields DEF On, Running
    <2>2. OpTells'
      BY <2>1, IdleTells
    <2>3. ~(BeforeEffect(op) /\ op' = Failed(op))
      BY <1>1, <2>1, FailedFields
    <2>4. \A f \in Files : temp'[m][f] \in {temp[m][f], NoTemp}
      BY <2>3
    <2>5. RecordsTell'
      BY <2>1, <2>4, StepRecords DEF IInv, OpTells
    <2>6. HistoryTells'
      <3>1. \A n \in Mutations \ {m} : ~On(n)'
        BY <2>1 DEF On, Running
      <3>2. \A f \in Files : /\ MustBeNew(m, f)' => MustBeNew(m, f)
                             /\ MustBeSeen(m, f)' => MustBeSeen(m, f)
        BY <2>1, QuietHistory
      <3>3. QED
        BY <3>1, <3>2, OpHistory DEF IInv
    <2>7. QED
      BY <2>2, <2>5, <2>6
  <1>3. CASE op' = Failed(op) /\ BeforeEffect(op)
    <2>1. /\ op'.pc = "inspect" /\ op'.mode = "abort" /\ op'.id = m /\ op'.body = op.body
      BY <1>1, <1>3, FailedFields DEF On
    <2>2. /\ op.body.phase \in Undoable /\ final[m].phase \in Undoable
          /\ staging[m].phase \in {"absent"} \cup Undoable
          /\ \A f \in Files : MustBeNew(m, f) \/ f \notin Touches[m]
      BY <1>3, Undone
    <2>3. op.body.phase \notin TerminalPhases /\ op.body.phase \in Phases
      BY <2>2 DEF Undoable, TerminalPhases, Phases, Unpublished
    <2>4. RecordsTell'
      BY <2>1, <2>3, StepRecords DEF IInv, OpTells
    <2>5. OpTells'
      BY <2>1, <2>2, <2>3 DEF OpTells, OpRecords, OpPhases, OpTemps, ToSwap, Persisting, Loops
    <2>6. HistoryTells'
      <3>1. \A n \in Mutations \ {m} : ~On(n)'
        BY <2>1 DEF On
      <3>2. \A f \in Files : MustBeSeen(m, f)' => MustBeSeen(m, f)
        BY <2>1 DEF MustBeSeen, Claims, On, Running
      <3>3. QED
        BY <2>2, <3>1, <3>2, OpHistory DEF IInv
    <2>7. QED
      BY <2>4, <2>5, <2>6
  <1>4. QED
    BY <1>1, <1>2, <1>3, FailedFields

-----------------------------------------------------------------------------
(* Steps of the operation between two records.                             *)

Tells == RecordsTell /\ OpTells /\ HistoryTells

LEMMA BodyHistory ==
  ASSUME IInv, NEW m \in Mutations, On(m), op'.pc # "idle", op'.id = m, op'.mode = op.mode,
         UNCHANGED <<active, before, edited, final, staging, told>>,
         \/ op'.body.phase = op.body.phase
         \/ /\ op'.body.phase \in NoEffect => \A f \in Files :
                 MustBeNew(m, f) \/ f \notin Touches[m] \/ active[f].bytes = before[m][f]
            /\ op'.body.phase \in {"published", "committed"} =>
                 \/ op.body.phase \in {"published", "committed"}
                 \/ \A f \in Touches[m] : active[f].bytes = m,
         \A f \in ToSwap' : f \in ToSwap \/ active[f].bytes = before[m][f] \/ MustBeNew(m, f)
  PROVE  HistoryTells'
  <1>1. \A n \in Mutations \ {m} : ~On(n)'
    BY DEF On
  <1>2. Claims(m) = {final[m].phase, staging[m].phase, op.body.phase}
    BY DEF Claims
  <1>3. Claims(m)' = {final[m].phase, staging[m].phase, op'.body.phase}
    BY DEF Claims, On, Running
  <1>4. ASSUME NEW f \in Files, MustBeNew(m, f)'
        PROVE  MustBeNew(m, f) \/ f \notin Touches[m] \/ active[f].bytes = before[m][f]
    <2>1. CASE f \in ToSwap'
      BY <2>1 DEF MustBeNew
    <2>2. CASE Claims(m)' \cap NoEffect # {} /\ op'.body.phase # op.body.phase
      <3>1. CASE op'.body.phase \in NoEffect
        BY <2>2, <3>1
      <3>2. CASE op'.body.phase \notin NoEffect
        BY <1>2, <1>3, <2>2, <3>2 DEF MustBeNew
      <3>3. QED
        BY <3>1, <3>2
    <2>3. CASE Claims(m)' \cap NoEffect # {} /\ op'.body.phase = op.body.phase
      BY <1>2, <1>3, <2>3 DEF MustBeNew
    <2>4. CASE told'[m] \in {"aborted", "no_change", "refused"} \/ op'.mode = "abort"
      BY <2>4 DEF MustBeNew
    <2>5. QED
      BY <1>4, <2>1, <2>2, <2>3, <2>4 DEF MustBeNew
  <1>5. ASSUME NEW f \in Files, MustBeSeen(m, f)'
        PROVE  MustBeSeen(m, f) \/ active[f].bytes = m
    BY <1>2, <1>3, <1>5 DEF MustBeSeen
  <1>6. QED
    BY <1>1, <1>4, <1>5, OpHistory DEF IInv

LEMMA CloneTells == IInv /\ Clone => Tells'
  <1> SUFFICES ASSUME IInv, Clone PROVE Tells'
    OBVIOUS
  <1>1. PICK m \in Mutations, f \in Files :
          m = op.id /\ f = First(op.left) /\ f \in Touches[m] /\ f \in op.left
    BY LoopFile DEF IInv, OpTells, Clone, Loops
  <1>2. On(m) /\ op \in Operation /\ op.left \ {f} \in SUBSET Files
    BY <1>1, LoopFile DEF IInv, OpTells, Clone, Loops, On, Running
  <1>3. /\ op.body.phase = "prepared" /\ op.mode = "commit" /\ staging[m] = Absent
        /\ final[m] = [op.body EXCEPT !.staged = {}] /\ final[m].phase = "prepared"
        /\ op.left \subseteq Touches[m]
    BY <1>1 DEF Clone, IInv, OpTells, OpPhases, OpRecords, Loops, TypeOK, Operation, Body
  <1>4. Exists(final[m]) /\ Claims(m) \cap TerminalPhases = {}
    BY <1>2, <1>3 DEF Exists, Claims, TerminalPhases, Absent
  <1>5. UNCHANGED <<active, final, staging, before, edited, told>>
    BY DEF Clone, worldVars
  <1> DEFINE bound == [op EXCEPT !.body.staged = @ \cup {f}]
  <1>6. CASE Pristine(op.body, m, f) /\ temp[m][f] = NoTemp
    <2>1. op' = Loop(bound, "clone", op.left \ {f})
      BY <1>1, <1>6 DEF Clone
    <2>2. temp' = [temp EXCEPT ![m][f] = [bytes |-> before[m][f], node |-> m]]
      BY <1>1, <1>6 DEF Clone
    <2>3. /\ bound \in Operation /\ bound.id = m /\ bound.mode = "commit"
          /\ bound.body = [op.body EXCEPT !.staged = @ \cup {f}]
          /\ bound.body.phase = "prepared" /\ [bound.body EXCEPT !.staged = {}] = final[m]
          /\ bound.body.source = final[m].source /\ final[m].staged = {}
      BY <1>1, <1>2, <1>3 DEF Operation, Body
    <2> HIDE DEF bound
    <2>4. /\ op'.id = m /\ op'.mode = "commit"
          /\ \/ /\ op'.pc = "clone" /\ op'.left = op.left \ {f} /\ op'.left # {}
                /\ op'.body = bound.body
             \/ op'.pc = "load" /\ op'.body = [bound.body EXCEPT !.phase = "scratch"]
      <3>1. "clone" \in LoopPcs /\ PhaseAfter("clone", m) = "scratch"
        BY DEF LoopPcs, PhaseAfter
      <3>2. PICK o \in Operation, rest \in SUBSET Files : o = bound /\ rest = op.left \ {f}
        BY <1>2, <2>3
      <3>3. /\ Loop(o, "clone", rest).id = o.id /\ Loop(o, "clone", rest).mode = o.mode
            /\ \/ /\ Loop(o, "clone", rest).pc = "clone" /\ Loop(o, "clone", rest).left = rest
                  /\ Remaining(rest) /\ Loop(o, "clone", rest).body = o.body
               \/ /\ Loop(o, "clone", rest).pc = "load"
                  /\ Loop(o, "clone", rest).body = [o.body EXCEPT !.phase = "scratch"]
        BY <3>1, LoopNext DEF PhaseAfter
      <3>4. QED
        BY <2>1, <2>3, <3>2, <3>3 DEF Remaining
    <2>5. op'.body.phase \in {"prepared", "scratch"} /\ (op'.pc = "load" => op'.body.phase = "scratch")
      BY <2>3, <2>4 DEF Operation, Body
    <2>6. \A g \in Files : temp'[m][g] = temp[m][g] \/ g = f
      BY <1>1, <2>2 DEF IInv, TypeOK
    <2>7. temp'[m][f].bytes = before[m][f] /\ \A n \in Mutations \ {m} : temp'[n] = temp[n]
      BY <1>1, <2>2 DEF IInv, TypeOK
    <2>8. RecordsTell'
      BY <1>1, <1>2, <1>3, <1>4, <1>5, <2>4, <2>5, <2>6, <2>7, StepRecords
        DEF IInv, OpTells, TerminalPhases
    <2>9. OpTells'
      <3>1. OpPhases'
        <4>1. CASE op'.pc = "clone"
          BY <1>1, <1>3, <2>3, <2>4, <4>1 DEF OpPhases, Loops, Persisting, Phases, Unpublished
        <4>2. CASE op'.pc = "load"
          BY <2>4, <2>5, <4>2 DEF OpPhases, Loops, Persisting, Phases, Unpublished
        <4>3. QED
          BY <2>4, <4>1, <4>2
      <3>2. OpRecords'
        <4>1. staging'[m] = Absent /\ ~Exists(staging'[m]) /\ final'[m].phase = "prepared"
          <5>1. staging'[m] = Absent /\ final'[m].phase = "prepared"
            BY <1>3, <1>5
          <5>2. ~Exists(Absent)
            BY DEF Exists, Absent
          <5>3. QED
            BY <5>1, <5>2
        <4>2. CASE op'.pc = "clone"
          BY <1>3, <1>5, <2>3, <2>4, <4>1, <4>2 DEF OpRecords
        <4>3. CASE op'.pc = "load"
          BY <2>4, <2>5, <4>1, <4>3 DEF OpRecords, Predecessors
        <4>4. QED
          BY <2>4, <4>2, <4>3
      <3>3. OpTemps'
        BY <2>4, <2>5 DEF OpTemps, ToSwap, Persisting
      <3>4. QED
        BY <3>1, <3>2, <3>3 DEF OpTells
    <2>10. HistoryTells'
      <3>1. \A g \in Files : MustBeNew(m, g)
        BY <1>2, <1>3 DEF MustBeNew, Claims, NoEffect, Unpublished
      <3>2. ToSwap' = {}
        BY <2>4 DEF ToSwap
      <3>3. QED
        BY <1>2, <1>3, <1>5, <2>4, <2>5, <3>1, <3>2, BodyHistory
    <2>11. QED
      BY <2>8, <2>9, <2>10 DEF Tells
  <1>7. CASE ~(Pristine(op.body, m, f) /\ temp[m][f] = NoTemp)
    <2>1. op' = Failed(op) /\ temp' = temp
      BY <1>1, <1>7 DEF Clone
    <2>2. QED
      BY <1>2, <1>5, <2>1, FailedStep DEF Tells
  <1>8. QED
    BY <1>6, <1>7

LEMMA TruncateTells == IInv /\ Truncate => Tells'
  <1> SUFFICES ASSUME IInv, Truncate PROVE Tells'
    OBVIOUS
  <1>1. PICK m \in Mutations, f \in Files :
          m = op.id /\ f = First(op.left) /\ f \in Touches[m] /\ f \in op.left
    BY LoopFile DEF IInv, OpTells, Truncate, Loops
  <1>2. On(m) /\ op \in Operation /\ op.pc = "truncate"
    BY <1>1 DEF IInv, TypeOK, Truncate, On, Running
  <1>3. /\ op.body.phase = "scratch" /\ op.mode = "commit" /\ staging[m] = Absent
        /\ final[m] = op.body /\ op.left \subseteq Touches[m] /\ op.left # {}
    BY <1>1, <1>2 DEF IInv, OpTells, OpPhases, OpRecords, Loops
  <1>4. Exists(final[m]) /\ Claims(m) \cap TerminalPhases = {}
    BY <1>2, <1>3 DEF Exists, Claims, TerminalPhases, Absent
  <1>5. UNCHANGED <<active, final, staging, before, edited, told>>
    BY DEF Truncate, worldVars
  <1>6. CASE Pristine(op.body, m, f) /\ temp[m][f] = [bytes |-> before[m][f], node |-> m]
    <2>1. op' = [op EXCEPT !.pc = "rewrite"]
      BY <1>1, <1>6 DEF Truncate
    <2>2. temp' = [temp EXCEPT ![m][f] = [bytes |-> "torn", node |-> m]]
      <3>1. temp' = [temp EXCEPT ![m][f] = [temp[m][f] EXCEPT !.bytes = "torn"]]
        BY <1>1, <1>6 DEF Truncate, IInv, TypeOK
      <3>2. [temp[m][f] EXCEPT !.bytes = "torn"] = [bytes |-> "torn", node |-> m]
        BY <1>6
      <3>3. QED
        BY <3>1, <3>2
    <2>3. /\ op'.id = m /\ op'.mode = "commit" /\ op'.pc = "rewrite" /\ op'.left = op.left
          /\ op'.body = op.body
      BY <1>1, <1>2, <1>3, <2>1 DEF Operation
    <2>4. \A g \in Files : temp'[m][g] = temp[m][g] \/ g = f
      BY <1>1, <2>2 DEF IInv, TypeOK
    <2>5. /\ temp'[m][f] = [bytes |-> "torn", node |-> m]
          /\ \A n \in Mutations \ {m} : temp'[n] = temp[n]
      BY <1>1, <2>2 DEF IInv, TypeOK
    <2>6. RecordsTell'
      BY <1>1, <1>2, <1>3, <1>4, <1>5, <2>3, <2>4, <2>5, StepRecords
        DEF IInv, OpTells, TerminalPhases
    <2>7. OpTells'
      <3>1. OpPhases'
        BY <1>3, <2>3 DEF OpPhases, Loops, Persisting, Phases, Unpublished
      <3>2. OpRecords'
        BY <1>3, <1>5, <2>3 DEF OpRecords
      <3>3. \A g \in Files \ op.left : Rewritten(g)
        BY <1>2 DEF IInv, OpTells, OpTemps
      <3>4. \A g \in Files \ op.left : Rewritten(g)'
        BY <1>1, <2>3, <2>4, <3>3 DEF Rewritten
      <3>5. OpTemps'
        BY <1>1, <2>3, <2>5, <3>4 DEF OpTemps, ToSwap, Persisting
      <3>6. QED
        BY <3>1, <3>2, <3>5 DEF OpTells
    <2>8. HistoryTells'
      <3>1. ToSwap' = {}
        BY <2>3 DEF ToSwap
      <3>2. QED
        BY <1>2, <1>3, <1>5, <2>3, <3>1, BodyHistory
    <2>9. QED
      BY <2>6, <2>7, <2>8 DEF Tells
  <1>7. CASE ~(Pristine(op.body, m, f) /\ temp[m][f] = [bytes |-> before[m][f], node |-> m])
    <2>1. op' = Failed(op) /\ temp' = temp
      BY <1>1, <1>7 DEF Truncate
    <2>2. QED
      BY <1>2, <1>5, <2>1, FailedStep DEF Tells
  <1>8. QED
    BY <1>6, <1>7

LEMMA RewriteTells == IInv /\ Rewrite => Tells'
  <1> SUFFICES ASSUME IInv, Rewrite PROVE Tells'
    OBVIOUS
  <1>1. PICK m \in Mutations, f \in Files :
          m = op.id /\ f = First(op.left) /\ f \in Touches[m] /\ f \in op.left
    BY LoopFile DEF IInv, OpTells, Rewrite, Loops
  <1>2. PICK rest \in SUBSET Files : rest = op.left \ {f}
    BY <1>1, LoopFile DEF IInv, OpTells, Rewrite, Loops
  <1>3. On(m) /\ op \in Operation /\ op.pc = "rewrite"
    BY <1>1 DEF IInv, TypeOK, Rewrite, On, Running
  <1>4. /\ op.body.phase = "scratch" /\ op.mode = "commit" /\ staging[m] = Absent
        /\ final[m] = op.body /\ op.left \subseteq Touches[m]
    BY <1>1, <1>3 DEF IInv, OpTells, OpPhases, OpRecords, Loops
  <1>5. Exists(final[m]) /\ Claims(m) \cap TerminalPhases = {}
    BY <1>3, <1>4 DEF Exists, Claims, TerminalPhases, Absent
  <1>6. UNCHANGED <<active, final, staging, before, edited, told>>
    BY DEF Rewrite, worldVars
  <1>7. temp[m][f] \in {NoTemp, [bytes |-> "torn", node |-> m]}
    BY <1>1, <1>3 DEF IInv, OpTells, OpTemps
  <1>8. /\ temp'[m][f] \in {NoTemp, New(m)}
        /\ \A g \in Files : temp'[m][g] = temp[m][g] \/ g = f
        /\ \A n \in Mutations \ {m} : temp'[n] = temp[n]
    <2>1. CASE temp[m][f] = NoTemp
      BY <1>1, <2>1 DEF Rewrite
    <2>2. CASE temp[m][f] # NoTemp
      <3>1. temp' = [temp EXCEPT ![m][f] = New(m)]
        <4>1. temp' = [temp EXCEPT ![m][f] = [temp[m][f] EXCEPT !.bytes = m]]
          BY <1>1, <2>2 DEF Rewrite, IInv, TypeOK
        <4>2. [temp[m][f] EXCEPT !.bytes = m] = New(m)
          BY <1>7, <2>2 DEF New
        <4>3. QED
          BY <4>1, <4>2
      <3>2. QED
        BY <1>1, <3>1 DEF IInv, TypeOK
    <2>3. QED
      BY <2>1, <2>2
  <1>9. CASE temp[m][f] # NoTemp /\ Pristine(op.body, m, f)
    <2>1. op' = Loop(op, "truncate", rest)
      BY <1>1, <1>2, <1>9 DEF Rewrite
    <2>2. PICK o \in Operation : o = op
      BY <1>3
    <2>3. /\ Loop(o, "truncate", rest).id = o.id /\ Loop(o, "truncate", rest).mode = o.mode
          /\ \/ /\ Loop(o, "truncate", rest).pc = "truncate" /\ Loop(o, "truncate", rest).left = rest
                /\ Remaining(rest) /\ Loop(o, "truncate", rest).body = o.body
             \/ /\ Loop(o, "truncate", rest).pc = "load" /\ ~Remaining(rest)
                /\ Loop(o, "truncate", rest).body = [o.body EXCEPT !.phase = "staged"]
      <3>1. "truncate" \in LoopPcs /\ PhaseAfter("truncate", o.id) = "staged"
        BY DEF LoopPcs, PhaseAfter
      <3>2. QED
        BY <3>1, LoopNext
    <2>4. /\ op'.id = m /\ op'.mode = "commit"
          /\ \/ op'.pc = "truncate" /\ op'.left = rest /\ rest # {} /\ op'.body = op.body
             \/ op'.pc = "load" /\ rest = {} /\ op'.body = [op.body EXCEPT !.phase = "staged"]
      BY <1>1, <1>4, <2>1, <2>2, <2>3 DEF Remaining
    <2>5. op'.body.phase \in {"scratch", "staged"} /\ (op'.pc = "load" => op'.body.phase = "staged")
      BY <1>3, <1>4, <2>4 DEF Operation, Body
    <2>6. RecordsTell'
      BY <1>1, <1>3, <1>4, <1>5, <1>6, <1>8, <2>4, <2>5, StepRecords
        DEF IInv, OpTells, TerminalPhases, New
    <2>7. OpTells'
      <3>1. OpPhases'
        <4>1. CASE op'.pc = "truncate"
          BY <1>2, <1>4, <2>4, <4>1 DEF OpPhases, Loops, Persisting, Phases, Unpublished
        <4>2. CASE op'.pc = "load"
          BY <2>4, <2>5, <4>2 DEF OpPhases, Loops, Persisting, Phases, Unpublished
        <4>3. QED
          BY <2>4, <4>1, <4>2
      <3>2. OpRecords'
        BY <1>4, <1>6, <2>4, <2>5 DEF OpRecords, Predecessors, Exists, Absent
      <3>3. \A g \in Files \ op.left : Rewritten(g)
        BY <1>3 DEF IInv, OpTells, OpTemps
      <3>4. \A g \in Files \ rest : Rewritten(g)'
        BY <1>1, <1>2, <1>8, <2>4, <3>3 DEF Rewritten
      <3>5. OpTemps'
        BY <2>4, <3>4 DEF OpTemps, ToSwap, Persisting
      <3>6. QED
        BY <3>1, <3>2, <3>5 DEF OpTells
    <2>8. HistoryTells'
      <3>1. \A g \in Files : MustBeNew(m, g)
        BY <1>3, <1>4 DEF MustBeNew, Claims, NoEffect, Unpublished
      <3>2. ToSwap' = {}
        BY <2>4 DEF ToSwap
      <3>3. QED
        BY <1>3, <1>4, <1>6, <2>4, <2>5, <3>1, <3>2, BodyHistory
    <2>9. QED
      BY <2>6, <2>7, <2>8 DEF Tells
  <1>10. CASE ~(temp[m][f] # NoTemp /\ Pristine(op.body, m, f))
    <2>1. op' = Failed(op)
      BY <1>1, <1>10 DEF Rewrite
    <2>2. BeforeEffect(op)
      BY <1>3, <1>4 DEF BeforeEffect
    <2>3. QED
      BY <1>1, <1>3, <1>5, <1>6, <1>8, <2>1, <2>2, FailedStep DEF Tells, New
  <1>11. QED
    BY <1>9, <1>10

LEMMA SwapNext ==
  ASSUME NEW o \in Operation, NEW files \in SUBSET Files
  PROVE  /\ Loop(o, "swap", files).id = o.id /\ Loop(o, "swap", files).mode = o.mode
         /\ Loop(o, "swap", files).body = o.body
         /\ \/ /\ Loop(o, "swap", files).pc = "swap"
               /\ Loop(o, "swap", files).left = files /\ Remaining(files)
            \/ Loop(o, "swap", files).pc = "live" /\ ~Remaining(files)
  <1>1. CASE files = {}
    BY <1>1, SwapEnds DEF Remaining
  <1>2. CASE files # {}
    BY <1>2, LoopGoesOn DEF Remaining, LoopPcs
  <1>3. QED
    BY <1>1, <1>2

LEMMA RecheckTells == IInv /\ (Recheck \/ CancelRequest) => Tells'
  <1> SUFFICES ASSUME IInv, Recheck \/ CancelRequest PROVE Tells'
    OBVIOUS
  <1>1. PICK m \in Mutations : m = op.id
    BY DEF IInv, TypeOK, Operation
  <1>2. On(m) /\ op \in Operation /\ op.pc = "recheck"
    BY <1>1 DEF IInv, TypeOK, Recheck, CancelRequest, On, Running
  <1>3. UNCHANGED <<active, temp, final, staging, before, edited, told>>
    BY DEF Recheck, CancelRequest, diskVars, worldVars
  <1>4. /\ op.body.phase = "staged" /\ op.mode = "commit" /\ staging[m] = Absent /\ final[m] = op.body
        /\ \A f \in Files : Rewritten(f)
    BY <1>1, <1>2 DEF IInv, OpTells, OpPhases, OpRecords, OpTemps
  <1>5. CASE op' = Persist(op, "applying")
    <2>1. /\ op'.pc = "load" /\ op'.id = m /\ op'.mode = "commit" /\ op'.body.phase = "applying"
      BY <1>1, <1>2, <1>4, <1>5, PersistFields, SomePhases
    <2>2. RecordsTell'
      BY <1>2, <1>3, <1>4, <2>1, StepRecords DEF IInv, OpTells, TerminalPhases
    <2>3. OpTells'
      <3>1. OpPhases' /\ OpRecords'
        BY <1>3, <1>4, <2>1
          DEF OpPhases, OpRecords, Loops, Persisting, Phases, Unpublished, Predecessors,
              Exists, Absent
      <3>2. OpTemps'
        BY <1>1, <1>3, <1>4, <2>1 DEF OpTemps, ToSwap, Rewritten
      <3>3. QED
        BY <3>1, <3>2 DEF OpTells
    <2>4. HistoryTells'
      <3>1. ToSwap' = {} /\ "applying" \notin NoEffect
        BY <2>1 DEF ToSwap, NoEffect, Unpublished
      <3>2. QED
        BY <1>2, <1>3, <1>4, <2>1, <3>1, BodyHistory
    <2>5. QED
      BY <2>2, <2>3, <2>4 DEF Tells
  <1>6. CASE op' = Failed(op)
    BY <1>2, <1>3, <1>6, FailedStep DEF Tells
  <1>7. QED
    BY <1>5, <1>6 DEF Recheck, CancelRequest

(* The exchange was verified: the loop goes on, or the workspace is read.  *)
LEMMA VerifyTells == IInv /\ Verify => Tells'
  <1> SUFFICES ASSUME IInv, Verify PROVE Tells'
    OBVIOUS
  <1>1. PICK m \in Mutations, f \in Files :
          m = op.id /\ f = First(op.left) /\ f \in Touches[m] /\ f \in op.left
    BY LoopFile DEF IInv, OpTells, Verify, Loops
  <1>2. PICK rest \in SUBSET Files : rest = op.left \ {f}
    BY <1>1, LoopFile DEF IInv, OpTells, Verify, Loops
  <1>3. On(m) /\ op \in Operation /\ op.pc = "verify"
    BY <1>1 DEF IInv, TypeOK, Verify, On, Running
  <1>4. UNCHANGED <<active, temp, final, staging, before, edited, told>>
    BY DEF Verify, diskVars, worldVars
  <1>5. /\ op.body.phase = "applying" /\ op.mode # "abort" /\ staging[m] = Absent /\ final[m] = op.body
        /\ op.left \subseteq Touches[m] /\ \A g \in rest : Rewritten(g)
    BY <1>1, <1>2, <1>3 DEF IInv, OpTells, OpPhases, OpRecords, OpTemps, ToSwap, Loops
  <1>6. CASE op' = Loop(op, "swap", rest)
    <2>1. PICK o \in Operation : o = op
      BY <1>3
    <2>2. /\ op'.id = m /\ op'.mode = op.mode /\ op'.body = op.body
          /\ (op'.pc = "swap" /\ op'.left = rest /\ rest # {}) \/ op'.pc = "live"
      BY <1>1, <1>6, <2>1, SwapNext DEF Remaining
    <2>3. RecordsTell'
      BY <1>3, <1>4, <2>2, StepRecords DEF IInv, OpTells
    <2>4. OpTells'
      <3>1. OpPhases' /\ OpRecords'
        BY <1>2, <1>4, <1>5, <2>2
          DEF OpPhases, OpRecords, Loops, Persisting, Phases, Unpublished, Predecessors
      <3>2. OpTemps'
        BY <1>1, <1>4, <1>5, <2>2 DEF OpTemps, ToSwap, Rewritten, Persisting
      <3>3. QED
        BY <3>1, <3>2 DEF OpTells
    <2>5. HistoryTells'
      <3>1. \A g \in ToSwap' : g \in ToSwap
        BY <1>1, <1>2, <1>3, <2>2 DEF ToSwap
      <3>2. QED
        BY <1>3, <1>4, <2>2, <3>1, BodyHistory
    <2>6. QED
      BY <2>3, <2>4, <2>5 DEF Tells
  <1>7. CASE op' = Failed(op)
    BY <1>3, <1>4, <1>7, FailedStep DEF Tells
  <1>8. QED
    BY <1>1, <1>2, <1>6, <1>7 DEF Verify

LEMMA CheckLiveTells == IInv /\ CheckLive => Tells'
  <1> SUFFICES ASSUME IInv, CheckLive PROVE Tells'
    OBVIOUS
  <1>1. PICK m \in Mutations : m = op.id
    BY DEF IInv, TypeOK, Operation
  <1>2. On(m) /\ op \in Operation /\ op.pc = "live"
    BY <1>1 DEF IInv, TypeOK, CheckLive, On, Running
  <1>3. UNCHANGED <<active, temp, final, staging, before, edited, told>>
    BY DEF CheckLive, diskVars, worldVars
  <1>4. op.body.phase = "applying" /\ op.mode # "abort" /\ staging[m] = Absent /\ final[m] = op.body
    BY <1>1, <1>2 DEF IInv, OpTells, OpPhases, OpRecords
  <1>5. CASE op' = Persist(op, "published") /\ LiveIs(m, Mixed(m, Files))
    <2>1. op'.pc = "load" /\ op'.id = m /\ op'.mode = op.mode /\ op'.body.phase = "published"
      BY <1>1, <1>2, <1>5, PersistFields, SomePhases
    <2>2. \A f \in Touches[m] : active[f].bytes = m
      BY <1>5, JournalAssumption DEF LiveIs, Mixed, After
    <2>3. RecordsTell'
      BY <1>2, <1>3, <1>4, <2>1, StepRecords DEF IInv, OpTells, TerminalPhases
    <2>4. OpTells'
      BY <1>3, <1>4, <2>1 DEF OpTells, OpPhases, OpRecords, OpTemps, ToSwap, Loops, Persisting,
        Phases, Unpublished, Predecessors, Exists, Absent
    <2>5. HistoryTells'
      <3>1. ToSwap' = {} /\ "published" \notin NoEffect
        BY <2>1 DEF ToSwap, NoEffect, Unpublished
      <3>2. QED
        BY <1>2, <1>3, <2>1, <2>2, <3>1, BodyHistory
    <2>6. QED
      BY <2>3, <2>4, <2>5 DEF Tells
  <1>6. CASE op' = Failed(op)
    BY <1>2, <1>3, <1>6, FailedStep DEF Tells
  <1>7. QED
    BY <1>1, <1>5, <1>6 DEF CheckLive

(* A displaced file, or the temporary of a discarded one, is removed.      *)
LEMMA RemoveTells == IInv /\ (Clean \/ Discard) => Tells'
  <1> SUFFICES ASSUME IInv, Clean \/ Discard PROVE Tells'
    OBVIOUS
  <1>1. PICK m \in Mutations, f \in Files :
          m = op.id /\ f = First(op.left) /\ f \in Touches[m] /\ f \in op.left
    BY LoopFile DEF IInv, OpTells, Clean, Discard, Loops
  <1>2. PICK rest \in SUBSET Files : rest = op.left \ {f}
    BY <1>1, LoopFile DEF IInv, OpTells, Clean, Discard, Loops
  <1>3. PICK pc \in {"clean", "discard"} : op.pc = pc
    BY DEF Clean, Discard
  <1>4. On(m) /\ op \in Operation
    BY <1>1, <1>3 DEF IInv, TypeOK, On, Running
  <1>5. UNCHANGED <<active, final, staging, before, edited, told>>
    BY DEF Clean, Discard, worldVars
  <1>6. /\ op.body.phase = IF pc = "clean" THEN "published" ELSE "aborted_cleanup"
        /\ pc = "clean" => op.mode # "abort"
        /\ staging[m] = Absent /\ final[m] = op.body /\ op.left \subseteq Touches[m]
        /\ \A g \in Files \ op.left : temp[m][g] = NoTemp
    BY <1>1, <1>3 DEF IInv, OpTells, OpPhases, OpRecords, OpTemps, Loops
  <1>7. CASE /\ op' = Loop(op, pc, rest)
             /\ temp' = [temp EXCEPT ![m][f] = NoTemp]
    <2>1. PICK o \in Operation : o = op
      BY <1>4
    <2>2. PICK phase \in {"committed", UnchangedPhase(m)} :
            phase = PhaseAfter(pc, m) /\ (pc = "discard" => phase = UnchangedPhase(m))
            /\ (pc = "clean" => phase = "committed")
      BY <1>3 DEF PhaseAfter
    <2>3. pc \in LoopPcs /\ pc # "swap" /\ pc # "load" /\ phase \in TerminalPhases
      BY <1>3, <2>2 DEF LoopPcs, UnchangedPhase, TerminalPhases
    <2>4. /\ Loop(o, pc, rest).id = o.id /\ Loop(o, pc, rest).mode = o.mode
          /\ \/ /\ Loop(o, pc, rest).pc = pc /\ Loop(o, pc, rest).left = rest
                /\ Remaining(rest) /\ Loop(o, pc, rest).body = o.body
             \/ /\ Loop(o, pc, rest).pc = "load" /\ ~Remaining(rest)
                /\ Loop(o, pc, rest).body = [o.body EXCEPT !.phase = PhaseAfter(pc, o.id)]
      BY <2>3, LoopNext
    <2>5. /\ op'.id = m /\ op'.mode = op.mode
          /\ \/ op'.pc = pc /\ op'.left = rest /\ rest # {} /\ op'.body = op.body
             \/ op'.pc = "load" /\ rest = {} /\ op'.body = [op.body EXCEPT !.phase = phase]
      BY <1>1, <1>7, <2>1, <2>2, <2>4 DEF Remaining
    <2>6. /\ temp'[m][f] = NoTemp /\ \A g \in Files : temp'[m][g] = temp[m][g] \/ g = f
          /\ \A n \in Mutations \ {m} : temp'[n] = temp[n]
      BY <1>1, <1>7 DEF IInv, TypeOK
    <2>7. \A g \in Files \ rest : temp'[m][g] = NoTemp
      BY <1>2, <1>6, <2>6
    <2>8. op.body.phase \notin TerminalPhases
      BY <1>6 DEF TerminalPhases
    <2>9. CASE op'.pc = pc /\ op'.left = rest /\ rest # {} /\ op'.body = op.body
      <3>1. RecordsTell'
        BY <1>4, <1>5, <2>5, <2>6, <2>9, StepRecords DEF IInv, OpTells
      <3>2. OpTells'
        <4>1. OpPhases' /\ OpRecords'
          BY <1>2, <1>3, <1>5, <1>6, <2>5, <2>9
            DEF OpPhases, OpRecords, Loops, Persisting, Phases, Unpublished
        <4>2. OpTemps'
          BY <1>3, <2>5, <2>7, <2>9 DEF OpTemps, ToSwap, Persisting
        <4>3. QED
          BY <4>1, <4>2 DEF OpTells
      <3>3. HistoryTells'
        <4>1. ToSwap' = {} /\ pc # "idle"
          BY <1>3, <2>9 DEF ToSwap
        <4>2. QED
          BY <1>4, <1>5, <2>5, <2>9, <4>1, BodyHistory
      <3>4. QED
        BY <3>1, <3>2, <3>3 DEF Tells
    <2>10. CASE op'.pc = "load" /\ rest = {} /\ op'.body = [op.body EXCEPT !.phase = phase]
      <3>1. op'.body.phase = phase
        BY <1>4, <2>10 DEF Operation, Body
      <3>2. \A g \in Files : temp'[m][g] = NoTemp
        BY <2>7, <2>10
      <3>3. RecordsTell'
        BY <1>4, <1>5, <2>5, <2>6, <2>8, <2>10, <3>2, StepRecords DEF IInv, OpTells
      <3>4. OpTells'
        <4>1. phase \in {"committed", "aborted", "no_change"}
          BY <2>2 DEF UnchangedPhase
        <4>2. op.body.phase \in Predecessors(phase)
          BY <1>3, <1>6, <2>2 DEF Predecessors, UnchangedPhase
        <4>3. OpPhases'
          BY <1>3, <1>6, <2>2, <2>5, <2>10, <3>1, <4>1
            DEF OpPhases, Loops, Persisting, Phases, TerminalPhases, UnchangedPhase
        <4>4. OpRecords'
          BY <1>5, <1>6, <2>5, <2>10, <3>1, <4>2 DEF OpRecords, Exists, Absent
        <4>5. OpTemps'
          BY <2>10, <3>1, <4>1 DEF OpTemps, ToSwap, Persisting
        <4>6. QED
          BY <4>3, <4>4, <4>5 DEF OpTells
      <3>5. HistoryTells'
        <4>1. ToSwap' = {}
          BY <2>10 DEF ToSwap
        <4>2. CASE pc = "clean"
          <5>1. phase = "committed" /\ op.body.phase = "published" /\ "committed" \notin NoEffect
            BY <1>6, <2>2, <4>2 DEF NoEffect, Unpublished
          <5>2. QED
            BY <1>4, <1>5, <2>5, <2>10, <3>1, <4>1, <5>1, BodyHistory
        <4>3. CASE pc = "discard"
          <5>1. /\ phase \notin {"published", "committed"} /\ op.body.phase \in NoEffect
            BY <1>6, <2>2, <4>3 DEF NoEffect, Unpublished, UnchangedPhase
          <5>2. \A g \in Files : MustBeNew(m, g)
            BY <1>4, <5>1 DEF MustBeNew, Claims
          <5>3. QED
            BY <1>4, <1>5, <2>5, <2>10, <3>1, <4>1, <5>1, <5>2, BodyHistory
        <4>4. QED
          BY <1>3, <4>2, <4>3
      <3>6. QED
        BY <3>3, <3>4, <3>5 DEF Tells
    <2>11. QED
      BY <2>5, <2>9, <2>10
  <1>8. CASE op' = Failed(op) /\ temp' = temp
    BY <1>4, <1>5, <1>8, FailedStep DEF Tells
  <1>9. QED
    BY <1>1, <1>2, <1>3, <1>7, <1>8 DEF Clean, Discard

-----------------------------------------------------------------------------
(* Recovery decides what the bytes on disk allow.                          *)

LEMMA InspectUnpublishedTells == IInv /\ InspectUnpublished => Tells'
  <1> SUFFICES ASSUME IInv, InspectUnpublished PROVE Tells'
    OBVIOUS
  <1>1. PICK m \in Mutations : m = op.id
    BY DEF IInv, TypeOK, Operation
  <1>2. On(m) /\ op \in Operation /\ op.pc = "inspect" /\ op.body.phase \in Unpublished
    BY <1>1 DEF IInv, TypeOK, InspectUnpublished, On, Running
  <1>3. UNCHANGED <<active, temp, final, staging, before, edited, told>>
    BY DEF InspectUnpublished, diskVars, worldVars
  <1>4. /\ op.mode \in {"abort", "recover"}
        /\ op.mode = "abort" => final[m].phase \in Undoable
                                /\ staging[m].phase \in {"absent", "torn"} \cup Undoable
        /\ op.mode = "recover" => final[m] = op.body /\ staging[m] = Absent
    BY <1>1, <1>2 DEF IInv, OpTells, OpPhases, OpRecords, Operation, Modes
  <1>5. CASE op' = Idle
    BY <1>2, <1>3, <1>5, FailedStep DEF Tells
  <1>6. CASE op' # Idle
    <2> DEFINE found == IF op.body.phase = "prepared" THEN {f \in Touches[m] : temp[m][f] # NoTemp} ELSE {}
    <2>1. PICK bound \in Operation : bound = [op EXCEPT !.body.staged = @ \cup found]
      BY <1>2, JournalAssumption DEF Operation, Body
    <2>2. op' = Persist(bound, "aborted_cleanup") /\ bound.id = m /\ bound.mode = op.mode
      BY <1>1, <1>2, <1>6, <2>1 DEF InspectUnpublished, Operation
    <2>3. /\ op'.pc = "load" /\ op'.id = m /\ op'.mode = op.mode
          /\ op'.body.phase = "aborted_cleanup"
      BY <2>2, PersistFields, SomePhases
    <2>4. op.body.phase \notin TerminalPhases /\ "aborted_cleanup" \notin TerminalPhases
      BY <1>2 DEF TerminalPhases, Unpublished
    <2>5. RecordsTell'
      BY <1>2, <1>3, <2>3, <2>4, StepRecords DEF IInv, OpTells
    <2>6. OpTells'
      BY <1>2, <1>3, <1>4, <2>3
        DEF OpTells, OpPhases, OpRecords, OpTemps, ToSwap, Loops, Persisting,
            Phases, Unpublished, Undoable, Predecessors, Exists, Absent
    <2>7. HistoryTells'
      <3>1. ToSwap' = {} /\ "aborted_cleanup" \notin {"published", "committed"}
        BY <2>3 DEF ToSwap
      <3>2. \A f \in Files : MustBeNew(m, f)
        BY <1>2 DEF MustBeNew, Claims, NoEffect
      <3>3. QED
        BY <1>2, <1>3, <2>3, <3>1, <3>2, BodyHistory
    <2>8. QED
      BY <2>5, <2>6, <2>7 DEF Tells
  <1>7. QED
    BY <1>5, <1>6

LEMMA InspectApplyingTells == IInv /\ InspectApplying => Tells'
  <1> SUFFICES ASSUME IInv, InspectApplying PROVE Tells'
    OBVIOUS
  <1>1. PICK m \in Mutations : m = op.id
    BY DEF IInv, TypeOK, Operation
  <1>2. On(m) /\ op \in Operation /\ op.pc = "inspect" /\ op.body.phase = "applying"
    BY <1>1 DEF IInv, TypeOK, InspectApplying, On, Running
  <1>3. UNCHANGED <<active, temp, final, staging, before, edited, told>>
    BY DEF InspectApplying, diskVars, worldVars
  <1>4. /\ op.mode \in {"abort", "recover"}
        /\ op.mode = "abort" => final[m].phase \in Undoable
                                /\ staging[m].phase \in {"absent", "torn"} \cup Undoable
        /\ op.mode = "recover" => final[m] = op.body /\ staging[m] = Absent
    BY <1>1, <1>2 DEF IInv, OpTells, OpPhases, OpRecords, Operation, Modes
  <1>5. CASE op' = Idle
    BY <1>2, <1>3, <1>5, FailedStep DEF Tells
  <1>6. CASE op' # Idle
    <2>1. PICK done \in SUBSET Files, rest \in SUBSET Files :
            done = {f \in Touches[m] : Published(op.body, m, f)} /\ rest = Touches[m] \ done
      BY JournalAssumption
    <2>2. \A f \in rest : Pristine(op.body, m, f) /\ Rewritten(f)
      BY <1>1, <1>6, <2>1 DEF InspectApplying, Pending, Rewritten, New
    <2>3. ASSUME NEW f \in rest PROVE active[f].bytes = before[m][f]
      <3>1. Pristine(op.body, m, f)
        BY <2>2
      <3>2. QED
        BY <3>1 DEF Pristine
    <2>4. CASE done = {}
      <3>1. op' = Persist(op, "aborted_cleanup")
        BY <1>1, <1>6, <2>1, <2>4 DEF InspectApplying
      <3>2. /\ op'.pc = "load" /\ op'.id = m /\ op'.mode = op.mode
            /\ op'.body.phase = "aborted_cleanup"
        BY <1>1, <1>2, <3>1, PersistFields, SomePhases
      <3>3. RecordsTell'
        BY <1>2, <1>3, <3>2, StepRecords DEF IInv, OpTells, TerminalPhases
      <3>4. OpTells'
        BY <1>2, <1>3, <1>4, <3>2
          DEF OpTells, OpPhases, OpRecords, OpTemps, ToSwap, Loops, Persisting,
              Phases, Unpublished, Undoable, Predecessors, Exists, Absent
      <3>5. HistoryTells'
        <4>1. ToSwap' = {}
          BY <3>2 DEF ToSwap
        <4>2. \A f \in Files : f \notin Touches[m] \/ active[f].bytes = before[m][f]
          BY <2>1, <2>3, <2>4
        <4>3. QED
          BY <1>2, <1>3, <3>2, <4>1, <4>2, BodyHistory
      <3>6. QED
        BY <3>3, <3>4, <3>5 DEF Tells
    <2>5. CASE done # {}
      <3>1. op' = Loop(op, "swap", rest)
        BY <1>1, <1>6, <2>1, <2>5 DEF InspectApplying
      <3>2. PICK o \in Operation : o = op
        BY <1>2
      <3>3. /\ op'.id = m /\ op'.mode = op.mode /\ op'.body = op.body
            /\ (op'.pc = "swap" /\ op'.left = rest /\ rest # {}) \/ op'.pc = "live"
        BY <1>1, <3>1, <3>2, SwapNext DEF Remaining
      <3>4. op.mode = "recover"
        <4>1. PICK f \in Files : f \in done /\ f \in Touches[m] /\ active[f].bytes = m
          BY <2>1, <2>5 DEF Published
        <4>2. PICK past \in SUBSET Contents : Explains(past, f)
          BY DEF IInv, HistoryTells
        <4>3. ~MustBeNew(m, f)
          BY <4>1, <4>2 DEF Explains
        <4>4. QED
          BY <1>2, <1>4, <4>3 DEF MustBeNew
      <3>5. RecordsTell'
        BY <1>2, <1>3, <3>3, StepRecords DEF IInv, OpTells
      <3>6. OpTells'
        <4>1. OpPhases' /\ OpRecords'
          BY <1>2, <1>3, <1>4, <2>1, <3>3, <3>4
            DEF OpPhases, OpRecords, Loops, Persisting, Phases, Unpublished
        <4>2. OpTemps'
          BY <1>1, <1>3, <2>2, <3>3 DEF OpTemps, ToSwap, Rewritten, Persisting
        <4>3. QED
          BY <4>1, <4>2 DEF OpTells
      <3>7. HistoryTells'
        <4>1. \A g \in ToSwap' : active[g].bytes = before[m][g]
          BY <2>3, <3>3 DEF ToSwap
        <4>2. op'.pc # "idle"
          BY <3>3
        <4>3. QED
          BY <1>2, <1>3, <3>3, <4>1, <4>2, BodyHistory
      <3>8. QED
        BY <3>5, <3>6, <3>7 DEF Tells
    <2>6. QED
      BY <2>4, <2>5
  <1>7. QED
    BY <1>5, <1>6

LEMMA InspectPublishedTells == IInv /\ InspectPublished => Tells'
  <1> SUFFICES ASSUME IInv, InspectPublished PROVE Tells'
    OBVIOUS
  <1>1. PICK m \in Mutations : m = op.id
    BY DEF IInv, TypeOK, Operation
  <1>2. On(m) /\ op \in Operation /\ op.pc = "inspect" /\ op.body.phase = "published"
    BY <1>1 DEF IInv, TypeOK, InspectPublished, On, Running
  <1>3. UNCHANGED <<active, temp, final, staging, before, edited, told>>
    BY DEF InspectPublished, diskVars, worldVars
  <1>4. op.mode = "recover" /\ final[m] = op.body /\ staging[m] = Absent
    BY <1>1, <1>2 DEF IInv, OpTells, OpPhases, OpRecords, Operation, Modes, Undoable
  <1>5. CASE op' = Idle
    BY <1>2, <1>3, <1>5, FailedStep DEF Tells
  <1>6. CASE op' # Idle
    <2>1. PICK present \in SUBSET Files : present = {f \in Touches[m] : temp[m][f] # NoTemp}
      BY JournalAssumption
    <2>2. op' = Loop(op, "clean", present)
      BY <1>1, <1>6, <2>1 DEF InspectPublished
    <2>3. PICK o \in Operation : o = op
      BY <1>2
    <2>4. /\ Loop(o, "clean", present).id = o.id /\ Loop(o, "clean", present).mode = o.mode
          /\ \/ /\ Loop(o, "clean", present).pc = "clean"
                /\ Loop(o, "clean", present).left = present
                /\ Remaining(present) /\ Loop(o, "clean", present).body = o.body
             \/ /\ Loop(o, "clean", present).pc = "load" /\ ~Remaining(present)
                /\ Loop(o, "clean", present).body = [o.body EXCEPT !.phase = "committed"]
      <3>1. "clean" \in LoopPcs /\ PhaseAfter("clean", o.id) = "committed"
        BY DEF LoopPcs, PhaseAfter
      <3>2. QED
        BY <3>1, LoopNext
    <2>5. /\ op'.id = m /\ op'.mode = "recover"
          /\ \/ op'.pc = "clean" /\ op'.left = present /\ present # {} /\ op'.body = op.body
             \/ op'.pc = "load" /\ present = {} /\ op'.body = [op.body EXCEPT !.phase = "committed"]
      BY <1>1, <1>4, <2>2, <2>3, <2>4 DEF Remaining
    <2>6. op'.body.phase = (IF op'.pc = "load" THEN "committed" ELSE "published")
      BY <1>2, <2>5 DEF Operation, Body
    <2>7. \A f \in Files \ present : temp[m][f] = NoTemp
      BY <2>1 DEF IInv, RecordsTell, RecordTells
    <2>8. RecordsTell'
      <3>1. op'.pc = "load" => \A f \in Files : temp'[m][f] = NoTemp
        BY <1>3, <2>5, <2>7
      <3>2. op'.body.phase \notin TerminalPhases \/ \A f \in Files : temp'[m][f] = NoTemp
        BY <2>6, <3>1 DEF TerminalPhases
      <3>3. op.body.phase \notin TerminalPhases
        BY <1>2 DEF TerminalPhases
      <3>4. QED
        BY <1>2, <1>3, <2>5, <3>2, <3>3, StepRecords DEF IInv, OpTells
    <2>9. OpTells'
      <3>1. OpPhases' /\ OpRecords'
        BY <1>2, <1>3, <1>4, <2>1, <2>5, <2>6
          DEF OpPhases, OpRecords, Loops, Persisting, Phases, TerminalPhases, Predecessors, Exists, Absent
      <3>2. OpTemps'
        BY <1>3, <2>5, <2>6, <2>7 DEF OpTemps, ToSwap, Persisting
      <3>3. QED
        BY <3>1, <3>2 DEF OpTells
    <2>10. HistoryTells'
      <3>1. ToSwap' = {} /\ op'.body.phase \notin NoEffect
        BY <2>5, <2>6 DEF ToSwap, NoEffect, Unpublished
      <3>2. QED
        BY <1>2, <1>3, <1>4, <2>5, <3>1, BodyHistory
    <2>11. QED
      BY <2>8, <2>9, <2>10 DEF Tells
  <1>7. QED
    BY <1>5, <1>6

-----------------------------------------------------------------------------
(* Steps that write the records.                                           *)

LEMMA OtherRecords ==
  ASSUME RecordsTell, NEW m \in Mutations, op'.pc = "idle" \/ op'.id = m,
         \A n \in Mutations \ {m} :
           /\ final'[n] = final[n] /\ staging'[n] = staging[n]
           /\ temp'[n] = temp[n] /\ told'[n] = told[n] /\ before'[n] = before[n],
         RecordTells(m)'
  PROVE  RecordsTell'
  <1>1. ASSUME NEW n \in Mutations \ {m} PROVE RecordTells(n)'
    BY <1>1, QuietRecords DEF RecordsTell, On, Running
  <1>2. QED
    BY <1>1 DEF RecordsTell

(* The operation ends and tells what its record says.                      *)
LEMMA InspectTerminalTells == IInv /\ InspectTerminal => Tells'
  <1> SUFFICES ASSUME IInv, InspectTerminal PROVE Tells'
    OBVIOUS
  <1>1. PICK m \in Mutations : m = op.id
    BY DEF IInv, TypeOK, Operation
  <1>2. On(m) /\ op \in Operation /\ op.pc = "inspect" /\ op.body.phase \in TerminalPhases
    BY <1>1 DEF IInv, TypeOK, InspectTerminal, On, Running
  <1>3. UNCHANGED <<active, temp, final, staging, before, edited>> /\ op' = Idle
    BY DEF InspectTerminal, diskVars, worldVars
  <1>4. op.mode = "recover" /\ final[m] = op.body /\ staging[m] = Absent
    BY <1>1, <1>2
      DEF IInv, OpTells, OpPhases, OpRecords, Operation, Modes, Undoable, TerminalPhases
  <1>5. told' = told \/ told' = [told EXCEPT ![m] = op.body.phase]
    BY <1>1, <1>2, <1>4 DEF InspectTerminal, Tell
  <1>6. op'.pc = "idle" /\ ~On(m)'
    BY <1>3, IdleFields DEF On, Running
  <1>7. Claims(m)' = {op.body.phase, "absent"} /\ Claims(m) = {op.body.phase, "absent"}
    BY <1>2, <1>3, <1>4, <1>6 DEF Claims, Absent
  <1>8. RecordTells(m)'
    BY <1>2, <1>3, <1>4, <1>6, <1>7
      DEF IInv, RecordsTell, RecordTells, Exists, Follows, Planned, Absent
  <1>9. RecordsTell'
    BY <1>3, <1>5, <1>6, <1>8, OtherRecords DEF IInv, TypeOK
  <1>10. HistoryTells'
    <2>1. \A n \in Mutations \ {m} : told'[n] = told[n] /\ ~On(n)'
      BY <1>5, <1>6 DEF IInv, TypeOK, On, Running
    <2>2. ToSwap = {} /\ ToSwap' = {}
      BY <1>2, <1>6 DEF ToSwap
    <2>3. told'[m] = told[m] \/ told'[m] = op.body.phase
      BY <1>5 DEF IInv, TypeOK
    <2>4. \A f \in Files : MustBeNew(m, f)' => MustBeNew(m, f)
      BY <1>2, <1>6, <1>7, <2>3 DEF MustBeNew, NoEffect, TerminalPhases
    <2>5. \A f \in Files : MustBeSeen(m, f)' => MustBeSeen(m, f)
      BY <1>7, <2>3 DEF MustBeSeen
    <2>6. QED
      BY <1>3, <2>1, <2>4, <2>5, OpHistory DEF IInv
  <1>11. QED
    BY <1>6, <1>9, <1>10, IdleTells DEF Tells

(* The first record of a commit.                                           *)
LEMMA PrepareTells == IInv /\ Prepare => Tells'
  <1> SUFFICES ASSUME IInv, Prepare PROVE Tells'
    OBVIOUS
  <1>1. PICK m \in Mutations : m = op.id
    BY DEF IInv, TypeOK, Operation
  <1>2. On(m) /\ op \in Operation /\ op.pc = "prepare"
    BY <1>1 DEF IInv, TypeOK, Prepare, On, Running
  <1>3. UNCHANGED <<active, temp, staging, before, edited, told>>
    BY DEF Prepare, worldVars
  <1>4. final' = [final EXCEPT ![m] = op.body]
    BY <1>1 DEF Prepare
  <1>5. final'[m] = op.body /\ \A n \in Mutations \ {m} : final'[n] = final[n]
    BY <1>4 DEF IInv, TypeOK
  <1>6. /\ op.body.phase = "prepared" /\ op.body.staged = {} /\ op.mode = "commit"
        /\ staging[m] = Absent /\ final[m] = Absent
    BY <1>1, <1>2 DEF IInv, OpTells, OpPhases, OpRecords
  <1>7. /\ ~Exists(staging[m]) /\ staging[m].phase = "absent" /\ ~Exists(final[m])
        /\ final[m].phase = "absent" /\ op.body = [op.body EXCEPT !.staged = {}]
    BY <1>2, <1>6 DEF Exists, Absent, Operation, Body
  <1>8. /\ op'.id = m /\ op'.mode = "commit"
        /\ \/ op'.pc = "clone" /\ op'.left = Touches[m] /\ Touches[m] # {} /\ op'.body = op.body
           \/ op'.pc = "load" /\ op'.body.phase = "no_change"
    <2>1. PICK o \in Operation, files \in SUBSET Files : o = op /\ files = Touches[m]
      BY <1>2, JournalAssumption
    <2>2. CASE files = {}
      <3>1. op' = Persist(o, "no_change")
        BY <1>1, <2>1, <2>2 DEF Prepare
      <3>2. /\ Persist(o, "no_change").pc = "load" /\ Persist(o, "no_change").id = o.id
            /\ Persist(o, "no_change").mode = o.mode
            /\ Persist(o, "no_change").body.phase = "no_change"
        BY PersistFields, SomePhases
      <3>3. QED
        BY <1>1, <1>6, <2>1, <3>1, <3>2
    <2>3. CASE files # {}
      <3>1. op' = Loop(o, "clone", files)
        BY <1>1, <2>1, <2>3 DEF Prepare
      <3>2. QED
        BY <1>1, <1>6, <2>1, <2>3, <3>1, LoopGoesOn DEF LoopPcs
    <2>4. QED
      BY <2>2, <2>3
  <1>9. RecordTells(m) /\ \A f \in Files : temp[m][f] = NoTemp
    BY <1>7 DEF IInv, RecordsTell, RecordTells
  <1>10. told[m] = "nothing" /\ Planned(m)
    <2>1. "prepared" \in Claims(m) /\ "prepared" \notin TerminalPhases \cup {"absent"}
      BY <1>2, <1>6 DEF Claims, TerminalPhases
    <2>2. QED
      BY <1>2, <1>9, <2>1 DEF RecordTells
  <1>11. RecordTells(m)'
    BY <1>3, <1>7, <1>9, <1>10, JournalAssumption DEF RecordTells, Exists, Planned, NoTemp
  <1>12. RecordsTell'
    BY <1>3, <1>5, <1>8, <1>11, OtherRecords DEF IInv
  <1>13. OpTells'
    <2>1. OpPhases'
      BY <1>6, <1>8 DEF OpPhases, Loops, Persisting, Phases, Unpublished, TerminalPhases
    <2>2. CASE op'.pc = "clone"
      BY <1>3, <1>5, <1>6, <1>7, <1>8, <2>1, <2>2 DEF OpTells, OpRecords, OpTemps, ToSwap, Persisting
    <2>3. CASE op'.pc = "load"
      <3>1. final'[m].phase \in Predecessors("no_change") /\ ~Exists(staging'[m])
        BY <1>3, <1>5, <1>6, <1>7 DEF Predecessors
      <3>2. OpRecords'
        BY <1>3, <1>6, <1>8, <2>3, <3>1 DEF OpRecords
      <3>3. OpTemps'
        BY <1>8, <2>3 DEF OpTemps, ToSwap, Persisting
      <3>4. QED
        BY <2>1, <3>2, <3>3 DEF OpTells
    <2>4. QED
      BY <1>8, <2>2, <2>3
  <1>14. HistoryTells'
    <2>1. \A n \in Mutations \ {m} : ~On(n)'
      BY <1>8 DEF On
    <2>2. \A f \in Files : MustBeNew(m, f)
      BY <1>2, <1>6 DEF MustBeNew, Claims, NoEffect, Unpublished
    <2>3. op'.body.phase \in {"prepared", "no_change"}
      BY <1>6, <1>8
    <2>4. Claims(m)' \cap {"published", "committed"} = {}
      BY <1>3, <1>5, <1>6, <1>7, <2>3 DEF Claims
    <2>5. \A f \in Files : ~MustBeSeen(m, f)'
      BY <1>3, <1>10, <2>4 DEF MustBeSeen
    <2>6. QED
      BY <1>3, <1>5, <2>1, <2>2, <2>5, OpHistory DEF IInv
  <1>15. QED
    BY <1>12, <1>13, <1>14 DEF Tells

(* The staging record continues the record in place.                       *)
LEMMA WriteStagingTells == IInv /\ WriteStaging => Tells'
  <1> SUFFICES ASSUME IInv, WriteStaging PROVE Tells'
    OBVIOUS
  <1>1. PICK m \in Mutations : m = op.id
    BY DEF IInv, TypeOK, Operation
  <1>2. On(m) /\ op \in Operation /\ op.pc = "write"
    BY <1>1 DEF IInv, TypeOK, WriteStaging, On, Running
  <1>3. UNCHANGED <<active, temp, final, before, edited, told>>
    BY DEF WriteStaging, worldVars
  <1>4. staging'[m] = op.body /\ \A n \in Mutations \ {m} : staging'[n] = staging[n]
    BY <1>1 DEF WriteStaging, IInv, TypeOK
  <1>5. /\ op'.pc = "rename" /\ op'.id = m /\ op'.mode = op.mode
        /\ op'.body = op.body /\ op'.left = op.left
    BY <1>1, <1>2 DEF WriteStaging, Operation
  <1>6. Follows(op.body, final[m]) /\ op.body.phase \in Phases
    BY <1>1, <1>2 DEF IInv, OpTells, OpPhases, OpRecords
  <1>7. final[m].phase \notin TerminalPhases \cup {"torn", "absent"}
    BY <1>6 DEF Follows, Predecessors, TerminalPhases
  <1>8. Claims(m)' \subseteq Claims(m)
    BY <1>2, <1>3, <1>4, <1>5 DEF Claims
  <1>9. RecordTells(m)'
    <2>1. RecordTells(m)
      BY DEF IInv, RecordsTell
    <2>2. \A f \in Files :
            /\ temp[m][f] # NoTemp =>
                 f \in Touches[m] /\ Exists(final[m]) /\ Claims(m)' \cap TerminalPhases = {}
            /\ temp[m][f].node = m => temp[m][f].bytes \in {before[m][f], "torn", m}
      BY <1>8, <2>1 DEF RecordTells
    <2>3. told[m] # "nothing" => Claims(m)' \subseteq TerminalPhases \cup {"absent"}
      BY <1>8, <2>1 DEF RecordTells
    <2>4. Planned(m)
      BY <1>2, <2>1 DEF RecordTells
    <2>5. Follows(staging'[m], final'[m]) /\ Exists(final'[m])
      BY <1>3, <1>4, <1>6, <1>7 DEF Exists, Follows
    <2>6. QED
      BY <1>3, <1>7, <2>2, <2>3, <2>4, <2>5 DEF RecordTells, Exists, Planned, Follows
  <1>10. RecordsTell'
    BY <1>3, <1>4, <1>5, <1>9, OtherRecords DEF IInv
  <1>11. OpTells'
    <2>1. OpPhases'
      BY <1>2, <1>5 DEF IInv, OpTells, OpPhases, Persisting, Loops
    <2>2. OpRecords'
      BY <1>3, <1>4, <1>5, <1>6 DEF OpRecords, Follows
    <2>3. OpTemps'
      BY <1>1, <1>2, <1>3, <1>5 DEF IInv, OpTells, OpTemps, ToSwap, Persisting, Rewritten
    <2>4. QED
      BY <2>1, <2>2, <2>3 DEF OpTells
  <1>12. HistoryTells'
    <2>1. \A n \in Mutations \ {m} : ~On(n)'
      BY <1>5 DEF On
    <2>2. ToSwap' = {}
      BY <1>5 DEF ToSwap
    <2>3. \A f \in Files : /\ MustBeNew(m, f)' => MustBeNew(m, f)
                           /\ MustBeSeen(m, f)' => MustBeSeen(m, f)
      BY <1>2, <1>3, <1>5, <1>8, <2>2 DEF MustBeNew, MustBeSeen
    <2>4. QED
      BY <1>3, <1>4, <2>1, <2>3, OpHistory DEF IInv
  <1>13. QED
    BY <1>10, <1>11, <1>12 DEF Tells

(* The staging record replaces the one in place.                           *)
LEMMA RenamedRecords ==
  ASSUME IInv, NEW m \in Mutations, On(m), op.pc = "rename",
         UNCHANGED <<temp, before>>,
         final' = [final EXCEPT ![m] = op.body], staging' = [staging EXCEPT ![m] = Absent],
         told' \in {told, Tell(op)},
         op'.pc = "idle" \/ op'.id = m,
         op'.pc # "idle" =>
           /\ op.body.phase \notin TerminalPhases
           /\ op'.body.phase \notin TerminalPhases \/ \A f \in Files : temp[m][f] = NoTemp
  PROVE  RecordsTell'
  <1>1. op \in Operation /\ m = op.id
    BY DEF IInv, TypeOK, On
  <1>2. Follows(op.body, final[m]) /\ op.body.phase \in Phases /\ RecordTells(m)
    BY <1>1 DEF IInv, OpTells, OpPhases, OpRecords, RecordsTell
  <1>3. final[m].phase \notin TerminalPhases \cup {"torn", "absent"}
    BY <1>2 DEF Follows, Predecessors, TerminalPhases
  <1>4. /\ final'[m] = op.body /\ staging'[m] = Absent
        /\ \A n \in Mutations \ {m} : final'[n] = final[n] /\ staging'[n] = staging[n]
    BY DEF IInv, TypeOK
  <1>5. told[m] = "nothing"
    BY <1>2, <1>3 DEF RecordTells, Claims
  <1>6. \A n \in Mutations \ {m} : told'[n] = told[n]
    BY <1>1 DEF Tell, IInv, TypeOK
  <1>7. told'[m] # "nothing" => op.body.phase \in TerminalPhases /\ op'.pc = "idle"
    BY <1>1, <1>5 DEF Tell
  <1>8. Claims(m)' \subseteq {op.body.phase, "absent"} \cup (IF On(m)' THEN {op'.body.phase} ELSE {})
    BY <1>4 DEF Claims, Absent
  <1>9. told'[m] # "nothing" => Claims(m)' \subseteq TerminalPhases \cup {"absent"}
    BY <1>7, <1>8 DEF On, Running
  <1>10. ASSUME NEW f \in Files, temp[m][f] # NoTemp
         PROVE  f \in Touches[m] /\ Claims(m)' \cap TerminalPhases = {}
    <2>1. f \in Touches[m] /\ Claims(m) \cap TerminalPhases = {} /\ op.body.phase \in Claims(m)
      BY <1>2, <1>10 DEF RecordTells, Claims
    <2>2. On(m)' => op'.body.phase \notin TerminalPhases
      BY <1>10 DEF On, Running
    <2>3. "absent" \notin TerminalPhases
      BY DEF TerminalPhases
    <2>4. QED
      BY <1>8, <2>1, <2>2, <2>3
  <1>11. Planned(m) /\ \A f \in Files : temp[m][f].node = m => temp[m][f].bytes \in {before[m][f], "torn", m}
    BY <1>2 DEF RecordTells
  <1>12. Exists(final'[m]) /\ ~Exists(staging'[m])
    <2>1. op.body.phase # "absent" /\ ~Exists(Absent)
      BY <1>2 DEF Phases, Unpublished, TerminalPhases, Exists, Absent
    <2>2. QED
      BY <1>4, <2>1 DEF Exists
  <1>13. RecordTells(m)'
    BY <1>9, <1>10, <1>11, <1>12 DEF RecordTells, Planned, Exists
  <1>14. QED
    BY <1>4, <1>6, <1>13, OtherRecords DEF IInv

LEMMA RenamedHistory ==
  ASSUME IInv, NEW m \in Mutations, On(m), op.pc = "rename",
         UNCHANGED <<active, before, edited>>,
         final' = [final EXCEPT ![m] = op.body], staging' = [staging EXCEPT ![m] = Absent],
         told' \in {told, Tell(op)},
         op'.pc = "idle" \/ op'.id = m,
         op'.pc # "idle" =>
           /\ op'.body.phase \in NoEffect => op.body.phase \in NoEffect
           /\ op'.body.phase \in {"published", "committed"} =>
                op.body.phase \in {"published", "committed"}
           /\ op'.mode = op.mode \/ \A f \in Files : MustBeNew(m, f) \/ f \notin Touches[m]
           /\ \A f \in ToSwap' : MustBeNew(m, f)
  PROVE  HistoryTells'
  <1>1. op \in Operation /\ m = op.id
    BY DEF IInv, TypeOK, On
  <1>2. op.body.phase \in Phases /\ op.body.phase \in Claims(m)
    BY <1>1 DEF IInv, OpTells, OpPhases, Claims
  <1>3. /\ final'[m] = op.body /\ staging'[m] = Absent
        /\ \A n \in Mutations \ {m} : final'[n] = final[n] /\ staging'[n] = staging[n]
    BY DEF IInv, TypeOK
  <1>4. \A n \in Mutations \ {m} : told'[n] = told[n] /\ ~On(n)'
    BY <1>1 DEF Tell, IInv, TypeOK, On, Running
  <1>5. \/ told'[m] = told[m]
        \/ told'[m] = "refused" /\ op.mode = "abort"
        \/ told'[m] = op.body.phase
    BY <1>1 DEF Tell, IInv, TypeOK
  <1>6. Claims(m)' = {op.body.phase, "absent"} \cup (IF On(m)' THEN {op'.body.phase} ELSE {})
    BY <1>3 DEF Claims, Absent
  <1>7. "absent" \notin NoEffect \cup {"published", "committed"}
    BY DEF NoEffect, Unpublished
  <1>8. ASSUME NEW f \in Files, MustBeNew(m, f)' PROVE MustBeNew(m, f) \/ f \notin Touches[m]
    <2>1. CASE op.body.phase \in NoEffect
      BY <1>2, <2>1 DEF MustBeNew
    <2>2. CASE op.body.phase \notin NoEffect
      <3>1. Claims(m)' \cap NoEffect = {}
        BY <1>6, <1>7, <2>2 DEF On, Running
      <3>2. CASE told'[m] \in {"aborted", "no_change", "refused"}
        BY <1>2, <1>5, <2>2, <3>2 DEF MustBeNew, NoEffect, Phases, Unpublished, TerminalPhases
      <3>3. CASE On(m)' /\ op'.mode = "abort"
        BY <3>3 DEF MustBeNew, On, Running
      <3>4. CASE On(m)' /\ f \in ToSwap'
        BY <3>4 DEF On, Running
      <3>5. \/ Claims(m)' \cap NoEffect # {}
            \/ told'[m] \in {"aborted", "no_change", "refused"}
            \/ On(m)' /\ op'.mode = "abort"
            \/ On(m)' /\ f \in ToSwap'
        BY <1>8 DEF MustBeNew
      <3>6. QED
        BY <3>1, <3>2, <3>3, <3>4, <3>5
    <2>3. QED
      BY <2>1, <2>2
  <1>9. ASSUME NEW f \in Files, MustBeSeen(m, f)' PROVE MustBeSeen(m, f)
    <2>1. told'[m] = "committed" => told[m] = "committed" \/ op.body.phase = "committed"
      BY <1>5
    <2>2. Claims(m)' \cap {"published", "committed"} # {} => op.body.phase \in {"published", "committed"}
      BY <1>6, <1>7 DEF On, Running
    <2>3. QED
      BY <1>2, <1>9, <2>1, <2>2 DEF MustBeSeen
  <1>10. ASSUME NEW f \in Files
         PROVE  final'[m].phase \in {"applying", "published", "committed", "absent"} \/ MustBeNew(m, f)
    BY <1>2, <1>3 DEF Phases, NoEffect, TerminalPhases, MustBeNew
  <1>11. QED
    BY <1>3, <1>4, <1>8, <1>9, <1>10, OpHistory DEF IInv

LEMMA RenameFailsTells == IInv /\ RenameFails => Tells'
  <1> SUFFICES ASSUME IInv, RenameFails PROVE Tells'
    OBVIOUS
  <1>1. PICK m \in Mutations : m = op.id
    BY DEF IInv, TypeOK, Operation
  <1>2. On(m) /\ op \in Operation /\ op.pc = "rename"
    BY <1>1 DEF IInv, TypeOK, RenameFails, On, Running
  <1>3. Follows(op.body, final[m]) /\ staging[m] = op.body /\ op.body.phase \in Phases
    BY <1>1, <1>2 DEF IInv, OpTells, OpPhases, OpRecords
  <1>4. /\ UNCHANGED <<active, temp, before, edited, told>>
        /\ final' = [final EXCEPT ![m] = op.body] /\ staging' = [staging EXCEPT ![m] = Absent]
    BY <1>1, <1>3 DEF RenameFails, worldVars
  <1>5. CASE op' = Idle
    <2>1. op'.pc = "idle"
      BY <1>5, IdleFields
    <2>2. RecordsTell'
      BY <1>2, <1>4, <2>1, RenamedRecords
    <2>3. HistoryTells'
      BY <1>2, <1>4, <2>1, RenamedHistory
    <2>4. QED
      BY <2>1, <2>2, <2>3, IdleTells DEF Tells
  <1>6. CASE op' # Idle
    <2>1. /\ BeforeEffect(op) /\ op'.pc = "inspect" /\ op'.mode = "abort"
          /\ op'.id = m /\ op'.body = op.body
      BY <1>1, <1>2, <1>6, FailedFields DEF RenameFails
    <2>2. /\ op.body.phase \in Undoable /\ final[m].phase \in Undoable
          /\ \A f \in Files : MustBeNew(m, f) \/ f \notin Touches[m]
      BY <1>2, <2>1, Undone
    <2>3. op.body.phase \notin TerminalPhases
      BY <2>2 DEF Undoable, TerminalPhases
    <2>4. ToSwap' = {}
      BY <2>1 DEF ToSwap
    <2>5. RecordsTell'
      BY <1>2, <1>4, <2>1, <2>3, RenamedRecords
    <2>6. HistoryTells'
      BY <1>2, <1>4, <2>1, <2>2, <2>4, RenamedHistory
    <2>7. final'[m] = op.body /\ staging'[m].phase = "absent"
      BY <1>4 DEF IInv, TypeOK, Absent
    <2>8. OpTells'
      BY <1>3, <2>1, <2>2, <2>4, <2>7
        DEF OpTells, OpRecords, OpPhases, OpTemps, Persisting, Loops
    <2>9. QED
      BY <2>5, <2>6, <2>8 DEF Tells
  <1>7. QED
    BY <1>5, <1>6

(* What the loop of a durable phase does next.                             *)
LoopMoves(p, o, pc, files) ==
  /\ p.id = o.id /\ p.mode = o.mode
  /\ \/ p.pc = pc /\ p.left = files /\ Remaining(files) /\ p.body = o.body
     \/ /\ p.pc = "load" /\ ~Remaining(files)
        /\ p.body.phase = PhaseAfter(pc, o.id)
        /\ p.body.staged = o.body.staged /\ p.body.source = o.body.source

LEMMA LoopMovesOn ==
  ASSUME NEW o \in Operation, NEW pc \in LoopPcs, pc # "swap", NEW files \in SUBSET Files
  PROVE  LoopMoves(Loop(o, pc, files), o, pc, files)
  <1>1. CASE files = {}
    BY <1>1, LoopEnds DEF Remaining, LoopMoves
  <1>2. CASE files # {}
    BY <1>2, LoopGoesOn DEF Remaining, LoopMoves
  <1>3. QED
    BY <1>1, <1>2

LEMMA PersistedNext ==
  ASSUME NEW o \in Operation, NEW touched \in SUBSET Files, NEW files \in SUBSET Files,
         touched = Touches[o.id], files = {f \in Touches[o.id] : temp[o.id][f] # NoTemp}
  PROVE  /\ o.body.phase = "scratch" => LoopMoves(Persisted(o), o, "truncate", touched)
         /\ o.body.phase = "staged" => Persisted(o) = [o EXCEPT !.pc = "recheck"]
         /\ o.body.phase = "applying" => Persisted(o) = Loop(o, "swap", touched)
         /\ o.body.phase = "published" =>
              IF o.mode = "commit" THEN LoopMoves(Persisted(o), o, "clean", touched)
              ELSE Persisted(o) = [o EXCEPT !.pc = "inspect"]
         /\ o.body.phase = "aborted_cleanup" => LoopMoves(Persisted(o), o, "discard", files)
         /\ o.body.phase \in TerminalPhases => Persisted(o) = Idle
  <1>1. "truncate" \in LoopPcs /\ "clean" \in LoopPcs /\ "discard" \in LoopPcs
    BY DEF LoopPcs
  <1>2. /\ LoopMoves(Loop(o, "truncate", touched), o, "truncate", touched)
        /\ LoopMoves(Loop(o, "clean", touched), o, "clean", touched)
        /\ LoopMoves(Loop(o, "discard", files), o, "discard", files)
    BY <1>1, LoopMovesOn
  <1>3. QED
    BY <1>2 DEF Persisted, TerminalPhases

(* After the rename the phase is durable and the operation goes on.        *)
LEMMA RenameTells == IInv /\ Rename => Tells'
  <1> SUFFICES ASSUME IInv, Rename PROVE Tells'
    OBVIOUS
  <1>1. PICK m \in Mutations, o \in Operation : m = op.id /\ o = op
    BY DEF IInv, TypeOK, Operation
  <1>2. On(m) /\ op.pc = "rename"
    BY <1>1 DEF IInv, TypeOK, Rename, On, Running
  <1>3. Follows(op.body, final[m]) /\ staging[m] = op.body /\ op.body.phase \in Phases
    BY <1>1, <1>2 DEF IInv, OpTells, OpPhases, OpRecords
  <1>4. /\ UNCHANGED <<active, temp, before, edited>>
        /\ final' = [final EXCEPT ![m] = op.body] /\ staging' = [staging EXCEPT ![m] = Absent]
        /\ told' = Tell(op) /\ op' = Persisted(op)
    BY <1>1, <1>3 DEF Rename, worldVars
  <1>5. final'[m] = op.body /\ staging'[m] = Absent
    BY <1>4 DEF IInv, TypeOK
  <1>6. ~Exists(staging'[m])
    BY <1>5 DEF Exists, Absent
  <1>7. PICK touched \in SUBSET Files, files \in SUBSET Files :
          touched = Touches[m] /\ files = {f \in Touches[m] : temp[m][f] # NoTemp}
    BY JournalAssumption
  <1>8. \A f \in Files : f \in files \/ temp[m][f] = NoTemp
    BY <1>7 DEF IInv, RecordsTell, RecordTells
  <1>9. /\ op.body.phase = "scratch" => LoopMoves(op', op, "truncate", touched)
        /\ op.body.phase = "staged" => op' = [op EXCEPT !.pc = "recheck"]
        /\ op.body.phase = "applying" => op' = Loop(o, "swap", touched)
        /\ op.body.phase = "published" =>
             IF op.mode = "commit" THEN LoopMoves(op', op, "clean", touched)
             ELSE op' = [op EXCEPT !.pc = "inspect"]
        /\ op.body.phase = "aborted_cleanup" => LoopMoves(op', op, "discard", files)
        /\ op.body.phase \in TerminalPhases => op' = Idle
    BY <1>1, <1>4, <1>7, PersistedNext
  <1>10. /\ op.body.phase \in {"scratch", "staged", "applying"} => op.mode = "commit"
         /\ op.body.phase \in {"published", "committed"} => op.mode # "abort"
         /\ op.body.phase \in {"staged", "applying"} => \A f \in Files : Rewritten(f)
    BY <1>2 DEF IInv, OpTells, OpPhases, OpTemps, Persisting
  <1>11. ASSUME op'.pc # "idle" => /\ op'.id = m /\ op'.mode = op.mode
                                   /\ op.body.phase \notin TerminalPhases
                                   /\ op'.body.phase = op.body.phase,
                \A f \in ToSwap' : MustBeNew(m, f)
         PROVE  RecordsTell' /\ HistoryTells'
    BY <1>2, <1>4, <1>11, RenamedRecords, RenamedHistory
  <1>12. CASE op.body.phase = "scratch"
    <2>1. /\ op'.id = m /\ op'.mode = "commit"
          /\ \/ /\ op'.pc = "truncate" /\ op'.left = touched /\ touched # {} /\ op'.body = op.body
             \/ op'.pc = "load" /\ touched = {} /\ op'.body.phase = "staged"
      BY <1>1, <1>9, <1>10, <1>12 DEF LoopMoves, Remaining, PhaseAfter
    <2>2. op'.body.phase \in {"scratch", "staged"} /\ ToSwap' = {}
      BY <1>12, <2>1 DEF ToSwap
    <2>3. RecordsTell'
      BY <1>2, <1>4, <1>12, <2>1, <2>2, RenamedRecords DEF TerminalPhases
    <2>4. HistoryTells'
      BY <1>2, <1>4, <1>10, <1>12, <2>1, <2>2, RenamedHistory DEF NoEffect, Unpublished
    <2>5. OpPhases'
      BY <1>7, <1>12, <2>1, <2>2 DEF OpPhases, Persisting, Loops, Phases, Unpublished
    <2>6. OpRecords'
      BY <1>5, <1>6, <1>12, <2>1 DEF OpRecords, Predecessors
    <2>7. \A f \in Files : f \in touched \/ temp'[m][f] = NoTemp
      BY <1>4, <1>7, <1>8
    <2>8. OpTemps'
      BY <2>1, <2>7 DEF OpTemps, ToSwap, Persisting, Rewritten
    <2>9. QED
      BY <2>3, <2>4, <2>5, <2>6, <2>8 DEF Tells, OpTells
  <1>13. CASE op.body.phase = "staged"
    <2>1. /\ op'.pc = "recheck" /\ op'.id = m /\ op'.mode = "commit"
          /\ op'.body = op.body
      BY <1>1, <1>9, <1>10, <1>13 DEF Operation
    <2>2. ToSwap' = {}
      BY <2>1 DEF ToSwap
    <2>3. RecordsTell' /\ HistoryTells'
      BY <1>10, <1>11, <1>13, <2>1, <2>2 DEF TerminalPhases
    <2>4. OpTells'
      BY <1>1, <1>4, <1>5, <1>10, <1>13, <2>1, <2>2
        DEF OpTells, OpPhases, OpRecords, OpTemps, Rewritten, Persisting, Loops, Phases, Unpublished
    <2>5. QED
      BY <2>3, <2>4 DEF Tells
  <1>14. CASE op.body.phase = "applying"
    <2>1. /\ op'.id = m /\ op'.mode = "commit" /\ op'.body = op.body
          /\ (op'.pc = "swap" /\ op'.left = touched /\ touched # {}) \/ op'.pc = "live"
      BY <1>1, <1>9, <1>10, <1>14, SwapNext DEF Remaining
    <2>2. \A f \in Files : MustBeNew(m, f)
      BY <1>3, <1>14 DEF Follows, Predecessors, MustBeNew, Claims, NoEffect, Unpublished
    <2>3. \A f \in ToSwap' : MustBeNew(m, f) /\ f \in Files
      BY <2>1, <2>2 DEF ToSwap
    <2>4. RecordsTell' /\ HistoryTells'
      BY <1>10, <1>11, <1>14, <2>1, <2>3 DEF TerminalPhases
    <2>5. OpPhases' /\ OpRecords'
      BY <1>5, <1>7, <1>14, <2>1
        DEF OpPhases, OpRecords, Persisting, Loops, Phases, Unpublished
    <2>6. OpTemps'
      BY <1>1, <1>4, <1>10, <1>14, <2>1, <2>3 DEF OpTemps, Rewritten, Persisting
    <2>7. QED
      BY <2>4, <2>5, <2>6 DEF Tells, OpTells
  <1>15. CASE op.body.phase = "published" /\ op.mode = "commit"
    <2>1. /\ op'.id = m /\ op'.mode = "commit"
          /\ \/ /\ op'.pc = "clean" /\ op'.left = touched /\ touched # {} /\ op'.body = op.body
             \/ op'.pc = "load" /\ touched = {} /\ op'.body.phase = "committed"
      BY <1>1, <1>9, <1>15 DEF LoopMoves, Remaining, PhaseAfter
    <2>2. op'.body.phase \in {"published", "committed"} /\ ToSwap' = {}
      BY <1>15, <2>1 DEF ToSwap
    <2>3. \A f \in Files : f \in touched \/ temp'[m][f] = NoTemp
      BY <1>4, <1>7, <1>8
    <2>4. op'.body.phase \notin TerminalPhases \/ \A f \in Files : temp[m][f] = NoTemp
      BY <1>4, <1>15, <2>1, <2>3 DEF TerminalPhases
    <2>5. RecordsTell'
      BY <1>2, <1>4, <1>15, <2>1, <2>4, RenamedRecords DEF TerminalPhases
    <2>6. HistoryTells'
      BY <1>2, <1>4, <1>15, <2>1, <2>2, RenamedHistory DEF NoEffect, Unpublished
    <2>7. OpPhases'
      BY <1>7, <1>15, <2>1, <2>2 DEF OpPhases, Persisting, Loops, Phases, TerminalPhases
    <2>8. OpRecords'
      BY <1>5, <1>6, <1>15, <2>1 DEF OpRecords, Predecessors
    <2>9. OpTemps'
      BY <2>1, <2>3 DEF OpTemps, ToSwap, Persisting
    <2>10. QED
      BY <2>5, <2>6, <2>7, <2>8, <2>9 DEF Tells, OpTells
  <1>16. CASE op.body.phase = "published" /\ op.mode # "commit"
    <2>1. /\ op'.pc = "inspect" /\ op'.id = m /\ op'.mode = "recover" /\ op.mode = "recover"
          /\ op'.body = op.body
      BY <1>1, <1>9, <1>10, <1>16 DEF Operation, Modes
    <2>2. ToSwap' = {}
      BY <2>1 DEF ToSwap
    <2>3. RecordsTell' /\ HistoryTells'
      BY <1>11, <1>16, <2>1, <2>2 DEF TerminalPhases
    <2>4. OpTells'
      BY <1>3, <1>5, <1>16, <2>1, <2>2
        DEF OpTells, OpPhases, OpRecords, OpTemps, Persisting, Loops
    <2>5. QED
      BY <2>3, <2>4 DEF Tells
  <1>17. CASE op.body.phase = "aborted_cleanup"
    <2>1. PICK phase \in {"aborted", "no_change"} : phase = PhaseAfter("discard", m)
      BY DEF PhaseAfter, UnchangedPhase
    <2>2. /\ op'.id = m /\ op'.mode = op.mode
          /\ \/ /\ op'.pc = "discard" /\ op'.left = files /\ files # {} /\ op'.body = op.body
             \/ op'.pc = "load" /\ files = {} /\ op'.body.phase = phase
      BY <1>1, <1>9, <1>17, <2>1 DEF LoopMoves, Remaining
    <2>3. op'.body.phase \in {"aborted_cleanup", "aborted", "no_change"} /\ ToSwap' = {}
      BY <1>17, <2>2 DEF ToSwap
    <2>4. op'.body.phase \notin TerminalPhases \/ \A f \in Files : temp[m][f] = NoTemp
      BY <1>8, <1>17, <2>2 DEF TerminalPhases
    <2>5. RecordsTell'
      BY <1>2, <1>4, <1>17, <2>2, <2>4, RenamedRecords DEF TerminalPhases
    <2>6. HistoryTells'
      BY <1>2, <1>4, <1>17, <2>2, <2>3, RenamedHistory DEF NoEffect, Unpublished
    <2>7. OpPhases'
      BY <1>7, <1>17, <2>2, <2>3 DEF OpPhases, Persisting, Loops, Phases, Unpublished, TerminalPhases
    <2>8. OpRecords'
      BY <1>5, <1>6, <1>17, <2>2 DEF OpRecords, Predecessors
    <2>9. OpTemps'
      BY <1>4, <1>8, <2>2 DEF OpTemps, ToSwap, Persisting
    <2>10. QED
      BY <2>5, <2>6, <2>7, <2>8, <2>9 DEF Tells, OpTells
  <1>18. CASE op.body.phase \in TerminalPhases
    <2>1. op'.pc = "idle"
      BY <1>9, <1>18, IdleFields
    <2>2. ToSwap' = {}
      BY <2>1 DEF ToSwap
    <2>3. QED
      BY <1>11, <2>1, <2>2, IdleTells DEF Tells
  <1>19. op.body.phase # "prepared"
    BY <1>3 DEF Follows, Predecessors
  <1>20. QED
    BY <1>3, <1>12, <1>13, <1>14, <1>15, <1>16, <1>17, <1>18, <1>19 DEF Phases, Unpublished

(* persist reads the pair of records before it writes.                     *)
LEMMA LoadTells == IInv /\ Load => Tells'
  <1> SUFFICES ASSUME IInv, Load PROVE Tells'
    OBVIOUS
  <1>1. PICK m \in Mutations, o \in Operation : m = op.id /\ o = op
    BY DEF IInv, TypeOK, Operation
  <1>2. On(m) /\ op.pc = "load"
    BY <1>1 DEF IInv, TypeOK, Load, On, Running
  <1>3. UNCHANGED <<active, temp, before, edited>>
    BY DEF Load, worldVars
  <1>4. /\ final[m].phase \in Predecessors(op.body.phase) /\ op.body.phase \in Phases
        /\ Exists(staging[m]) =>
             /\ op.mode = "abort" /\ op.body.phase = "aborted_cleanup"
             /\ staging[m].phase \in {"torn"} \cup Undoable
    BY <1>1, <1>2 DEF IInv, OpTells, OpPhases, OpRecords
  <1>5. RecordTells(m) /\ Planned(m)
    BY <1>2 DEF IInv, RecordsTell, RecordTells
  <1>6. PICK stored \in Body : stored = Stored(m)
    BY StoredType DEF IInv
  <1> DEFINE usable == /\ Readable(m) /\ Exists(stored)
                       /\ stored.staged \subseteq op.body.staged
                       /\ stored.source = op.body.source
             done == stored.phase = op.body.phase /\ stored.staged = op.body.staged
  <1>7. CASE ~usable
    <2>1. op' = Failed(op) /\ UNCHANGED <<final, staging, told>>
      BY <1>1, <1>6, <1>7 DEF Load
    <2>2. QED
      BY <1>2, <1>3, <2>1, FailedStep DEF Tells
  <1>8. CASE usable
    <2>1. /\ final' = [final EXCEPT ![m] = stored] /\ staging' = [staging EXCEPT ![m] = Absent]
          /\ IF done THEN told' = Tell(op) /\ op' = Persisted(op)
             ELSE told' = told /\ op' = [op EXCEPT !.pc = "write"]
      BY <1>1, <1>6, <1>8 DEF Load
    <2>2. /\ final'[m] = stored /\ staging'[m] = Absent
          /\ \A n \in Mutations \ {m} : final'[n] = final[n] /\ staging'[n] = staging[n]
      BY <2>1 DEF IInv, TypeOK
    <2>3. ~Exists(staging'[m]) /\ staging'[m].phase = "absent"
      BY <2>2 DEF Exists, Absent
    <2>4. stored.phase \in Predecessors(op.body.phase)
          /\ (Exists(staging[m]) => stored.phase \in Undoable)
          /\ (~Exists(staging[m]) => stored = final[m])
      <3>1. CASE Exists(staging[m])
        <4>1. stored = staging[m] /\ stored.phase # "torn"
          BY <1>6, <1>8, <3>1 DEF Stored, Readable
        <4>2. QED
          BY <1>4, <3>1, <4>1 DEF Undoable, Predecessors
      <3>2. CASE ~Exists(staging[m])
        BY <1>4, <1>6, <3>2 DEF Stored
      <3>3. QED
        BY <3>1, <3>2
    <2>5. stored.phase \notin TerminalPhases \cup {"absent", "torn"}
      BY <2>4 DEF Predecessors, TerminalPhases
    <2>6. stored.phase \in Claims(m)
      <3>1. stored = staging[m] \/ stored = final[m]
        BY <1>6 DEF Stored
      <3>2. QED
        BY <3>1 DEF Claims
    <2>7. told[m] = "nothing"
      BY <1>5, <2>5, <2>6 DEF RecordTells
    <2>8. \A f \in Files : MustBeNew(m, f) \/ stored.phase = final[m].phase \/ stored.phase = "applying"
      BY <2>4, <2>6 DEF MustBeNew, Undoable, NoEffect, Unpublished
    <2>9. \A f \in Files :
            temp[m][f] # NoTemp => f \in Touches[m] /\ Claims(m) \cap TerminalPhases = {}
      BY <1>5 DEF RecordTells
    <2>10. \A f \in Files : temp[m][f].node = m => temp[m][f].bytes \in {before[m][f], "torn", m}
      BY <1>5 DEF RecordTells
    <2>11. "absent" \notin TerminalPhases \cup NoEffect \cup {"published", "committed"}
      BY DEF TerminalPhases, NoEffect, Unpublished
    <2>12. CASE ~done
      <3>1. /\ op'.pc = "write" /\ op'.id = m /\ op'.mode = op.mode /\ op'.body = op.body
            /\ op'.left = op.left /\ told' = told
        BY <1>1, <2>1, <2>12 DEF Operation
      <3>2. Claims(m)' = {stored.phase, "absent", op.body.phase}
        BY <2>2, <2>3, <3>1 DEF Claims, On, Running
      <3>3. Claims(m)' \subseteq Claims(m) \cup {"absent"}
        BY <1>2, <2>6, <3>2 DEF Claims
      <3>4. RecordTells(m)'
        <4>1. \A f \in Files : temp[m][f] # NoTemp => Claims(m)' \cap TerminalPhases = {}
          BY <2>9, <2>11, <3>3
        <4>2. Exists(final'[m])
          BY <2>2, <2>5 DEF Exists
        <4>3. QED
          BY <1>3, <1>5, <2>3, <2>7, <2>9, <2>10, <3>1, <4>1, <4>2
            DEF RecordTells, Planned, Exists
      <3>5. RecordsTell'
        BY <1>3, <2>2, <3>1, <3>4, OtherRecords DEF IInv
      <3>6. OpTells'
        <4>1. OpPhases'
          BY <1>2, <3>1 DEF IInv, OpTells, OpPhases, Persisting, Loops
        <4>2. Follows(op.body, stored)
          BY <1>8, <2>4 DEF Follows
        <4>3. OpRecords'
          BY <2>2, <3>1, <4>2 DEF OpRecords, Follows
        <4>4. OpTemps'
          BY <1>1, <1>2, <1>3, <3>1 DEF IInv, OpTells, OpTemps, ToSwap, Persisting, Rewritten
        <4>5. QED
          BY <4>1, <4>3, <4>4 DEF OpTells
      <3>7. HistoryTells'
        <4>1. \A n \in Mutations \ {m} : ~On(n)' /\ told'[n] = told[n]
          BY <3>1 DEF On
        <4>2. ToSwap' = {}
          BY <3>1 DEF ToSwap
        <4>3. \A f \in Files : MustBeNew(m, f)' => MustBeNew(m, f)
          BY <1>2, <2>7, <2>11, <3>1, <3>3, <4>2 DEF MustBeNew
        <4>4. \A f \in Files : MustBeSeen(m, f)' => MustBeSeen(m, f)
          BY <2>7, <2>11, <3>1, <3>3 DEF MustBeSeen
        <4>5. QED
          BY <1>3, <2>2, <2>8, <4>1, <4>3, <4>4, OpHistory DEF IInv
      <3>8. QED
        BY <3>5, <3>6, <3>7 DEF Tells
    <2>13. CASE done
      <3>1. op.body.phase = "aborted_cleanup" /\ stored = final[m] /\ ~Exists(staging[m])
        <4>1. op.body.phase \in Predecessors(op.body.phase)
          BY <2>4, <2>13
        <4>2. op.body.phase = "aborted_cleanup"
          BY <1>4, <4>1 DEF Predecessors, Phases, Unpublished, TerminalPhases
        <4>3. QED
          BY <2>4, <2>13, <4>2 DEF Undoable
      <3>2. stored = op.body
        BY <1>1, <1>8, <2>13 DEF Operation, Body
      <3>3. told' = told /\ op' = Persisted(op)
        BY <2>1, <2>13, <3>1 DEF Tell, TerminalPhases
      <3>4. PICK touched \in SUBSET Files, files \in SUBSET Files :
              touched = Touches[m] /\ files = {f \in Touches[m] : temp[m][f] # NoTemp}
        BY JournalAssumption
      <3>5. LoopMoves(op', op, "discard", files)
        BY <1>1, <3>1, <3>3, <3>4, PersistedNext
      <3>6. PICK phase \in {"aborted", "no_change"} : phase = PhaseAfter("discard", m)
        BY DEF PhaseAfter, UnchangedPhase
      <3>7. /\ op'.id = m /\ op'.mode = op.mode
            /\ \/ /\ op'.pc = "discard" /\ op'.left = files /\ files # {} /\ op'.body = op.body
               \/ op'.pc = "load" /\ files = {} /\ op'.body.phase = phase
        BY <1>1, <3>5, <3>6 DEF LoopMoves, Remaining
      <3>8. op'.body.phase \in {"aborted_cleanup", "aborted", "no_change"} /\ ToSwap' = {}
        BY <3>1, <3>7 DEF ToSwap
      <3>9. \A f \in Files : f \in files \/ temp[m][f] = NoTemp
        BY <2>9, <3>4
      <3>10. op'.body.phase \notin TerminalPhases \/ \A f \in Files : temp[m][f] = NoTemp
        BY <3>1, <3>7, <3>9 DEF TerminalPhases
      <3>11. Claims(m)' = {"aborted_cleanup", "absent", op'.body.phase}
        BY <2>2, <2>3, <3>1, <3>2, <3>7 DEF Claims, On, Running
      <3>12. RecordTells(m)'
        <4>1. \A f \in Files : temp[m][f] # NoTemp => Claims(m)' \cap TerminalPhases = {}
          BY <2>11, <3>10, <3>11 DEF TerminalPhases
        <4>2. Exists(final'[m])
          BY <2>2, <2>5 DEF Exists
        <4>3. QED
          BY <1>3, <1>5, <2>3, <2>7, <2>9, <2>10, <3>3, <4>1, <4>2
            DEF RecordTells, Planned, Exists
      <3>13. RecordsTell'
        BY <1>3, <2>2, <3>3, <3>7, <3>12, OtherRecords DEF IInv
      <3>14. OpTells'
        <4>1. OpPhases'
          BY <3>1, <3>4, <3>7, <3>8 DEF OpPhases, Persisting, Loops, Phases, Unpublished, TerminalPhases
        <4>2. OpRecords'
          BY <2>2, <2>3, <3>1, <3>2, <3>7 DEF OpRecords, Predecessors
        <4>3. OpTemps'
          BY <1>3, <3>7, <3>9 DEF OpTemps, ToSwap, Persisting
        <4>4. QED
          BY <4>1, <4>2, <4>3 DEF OpTells
      <3>15. HistoryTells'
        <4>1. \A n \in Mutations \ {m} : ~On(n)' /\ told'[n] = told[n]
          BY <3>3, <3>7 DEF On
        <4>2. \A f \in Files : MustBeNew(m, f)
          BY <1>2, <3>1 DEF MustBeNew, Claims, NoEffect, Unpublished
        <4>3. \A f \in Files : ~MustBeSeen(m, f)'
          BY <2>7, <3>3, <3>8, <3>11 DEF MustBeSeen
        <4>4. QED
          BY <1>3, <2>2, <4>1, <4>2, <4>3, OpHistory DEF IInv
      <3>16. QED
        BY <3>13, <3>14, <3>15 DEF Tells
    <2>14. QED
      BY <2>12, <2>13
  <1>9. QED
    BY <1>7, <1>8

-----------------------------------------------------------------------------
(* The exchange: the file's content joins its past.                        *)

LEMMA SwapFile ==
  ASSUME IInv, NEW m \in Mutations, On(m), NEW f \in Files, f \in Touches[m], f \in ToSwap,
         active'[f] = New(m), UNCHANGED <<before, edited, final, staging, told>>,
         final[m].phase = "applying", told[m] = "nothing",
         ~MustBeNew(m, f)', \A n \in Mutations \ {m} : ~On(n)'
  PROVE  \E past \in SUBSET Contents : Explains(past, f)'
  <1>1. PICK past \in SUBSET Contents : Explains(past, f)
    BY DEF IInv, HistoryTells
  <1>2. PICK seen \in SUBSET Contents : seen = past \cup {active[f].bytes}
    BY DEF IInv, TypeOK, FileState
  <1>3. m \notin seen /\ active'[f].bytes = m /\ active'[f].node = m
    BY <1>1, <1>2 DEF Explains, MustBeNew, New
  <1>4. before[m][f] \in seen
    <2>1. before[m][f] \in seen \cup {"none"}
      BY <1>1, <1>2 DEF Explains
    <2>2. RecordTells(m)
      BY DEF IInv, RecordsTell
    <2>3. QED
      BY <2>1, <2>2 DEF RecordTells, Planned
  <1>5. ASSUME NEW n \in Mutations
        PROVE  /\ before'[n][f] \in seen \cup {m} \cup {"none"}
               /\ n \in seen \cup {m} =>
                    /\ f \in Touches[n] /\ before'[n][f] \in seen
                    /\ final'[n].phase \in {"applying", "published", "committed", "absent"}
                    /\ ~MustBeNew(n, f)'
               /\ MustBeSeen(n, f)' => n \in seen \cup {m}
    <2>1. CASE n = m
      BY <1>4, <2>1
    <2>2. CASE n # m
      <3>1. /\ MustBeNew(n, f)' => MustBeNew(n, f)
            /\ MustBeSeen(n, f)' => MustBeSeen(n, f)
        BY <2>2, QuietHistory
      <3>2. /\ before[n][f] \in seen \cup {"none"}
            /\ n \in seen => /\ f \in Touches[n] /\ before[n][f] \in past
                             /\ final[n].phase \in {"applying", "published", "committed", "absent"}
                             /\ ~MustBeNew(n, f)
            /\ MustBeSeen(n, f) => n \in seen
        BY <1>1, <1>2 DEF Explains
      <3>3. past \subseteq seen
        BY <1>2
      <3>4. QED
        BY <2>2, <3>1, <3>2, <3>3
    <2>3. QED
      BY <2>1, <2>2
  <1>6. "user" \in seen \cup {m} => f \in edited'
    BY <1>1, <1>2, JournalAssumption DEF Explains
  <1>7. Explains(seen, f)'
    BY <1>3, <1>5, <1>6 DEF Explains
  <1>8. QED
    BY <1>7

LEMMA SwapTells == IInv /\ Swap => Tells'
  <1> SUFFICES ASSUME IInv, Swap PROVE Tells'
    OBVIOUS
  <1>1. PICK m \in Mutations, f \in Files :
          m = op.id /\ f = First(op.left) /\ f \in Touches[m] /\ f \in op.left
    BY LoopFile DEF IInv, OpTells, Swap, Loops
  <1>2. On(m) /\ op \in Operation /\ op.pc = "swap"
    BY <1>1 DEF IInv, TypeOK, Swap, On, Running
  <1>3. UNCHANGED <<final, staging, before, edited, told>>
    BY DEF Swap, worldVars
  <1>4. /\ op.body.phase = "applying" /\ op.mode # "abort" /\ staging[m] = Absent /\ final[m] = op.body
        /\ op.left \subseteq Touches[m] /\ \A g \in op.left : Rewritten(g)
    BY <1>1, <1>2 DEF IInv, OpTells, OpPhases, OpRecords, OpTemps, ToSwap, Loops
  <1>5. ToSwap = op.left
    BY <1>2 DEF ToSwap
  <1>6. CASE temp[m][f] = NoTemp
    <2>1. op' = Failed(op) /\ UNCHANGED <<active, temp>>
      BY <1>1, <1>6 DEF Swap
    <2>2. QED
      BY <1>2, <1>3, <2>1, FailedStep DEF Tells
  <1>7. CASE temp[m][f] # NoTemp
    <2>1. temp[m][f] = New(m)
      BY <1>1, <1>4, <1>7 DEF Rewritten
    <2>2. /\ active' = [active EXCEPT ![f] = New(m)] /\ temp' = [temp EXCEPT ![m][f] = active[f]]
          /\ op' = [op EXCEPT !.pc = "verify"]
      BY <1>1, <1>7, <2>1 DEF Swap
    <2>3. /\ active'[f] = New(m) /\ \A g \in Files : g # f => active'[g] = active[g]
          /\ temp'[m][f] = active[f] /\ \A g \in Files : temp'[m][g] = temp[m][g] \/ g = f
          /\ \A n \in Mutations \ {m} : temp'[n] = temp[n]
      BY <2>2 DEF IInv, TypeOK
    <2>4. /\ op'.pc = "verify" /\ op'.id = m /\ op'.mode = op.mode
          /\ op'.body = op.body /\ op'.left = op.left
      BY <1>1, <1>2, <2>2 DEF Operation
    <2>5. Claims(m) = {"applying", "absent"} /\ Claims(m)' = {"applying", "absent"}
      BY <1>2, <1>3, <1>4, <2>4 DEF Claims, On, Running, Absent
    <2>6. Claims(m) \cap TerminalPhases = {} /\ Claims(m) \cap NoEffect = {}
      BY <2>5 DEF TerminalPhases, NoEffect, Unpublished
    <2>7. told[m] = "nothing"
      BY <2>5 DEF IInv, RecordsTell, RecordTells, TerminalPhases
    <2>8. active[f].node # m
      <3>1. PICK past \in SUBSET Contents : Explains(past, f)
        BY DEF IInv, HistoryTells
      <3>2. MustBeNew(m, f)
        BY <1>1, <1>2, <1>5 DEF MustBeNew
      <3>3. QED
        BY <3>1, <3>2 DEF Explains
    <2>9. RecordsTell'
      <3>1. Exists(final[m]) /\ op'.body.phase \notin TerminalPhases
        BY <1>4, <2>4 DEF Exists, TerminalPhases
      <3>2. QED
        BY <1>1, <1>2, <1>3, <2>3, <2>4, <2>6, <2>8, <3>1, StepRecords DEF IInv, OpTells
    <2>10. OpTells'
      <3>1. OpPhases' /\ OpRecords'
        BY <1>1, <1>3, <1>4, <2>4
          DEF OpPhases, OpRecords, Loops, Persisting, Phases, Unpublished, Absent, Exists
      <3>2. \A g \in op.left \ {f} : g \in Files /\ temp'[m][g] = temp[m][g] /\ Rewritten(g)
        BY <1>4, <2>3, JournalAssumption
      <3>3. OpTemps'
        BY <1>1, <2>4, <3>2 DEF OpTemps, ToSwap, Rewritten, Persisting
      <3>4. QED
        BY <3>1, <3>3 DEF OpTells
    <2>11. HistoryTells'
      <3>1. \A n \in Mutations \ {m} : ~On(n)'
        BY <2>4 DEF On
      <3>2. ToSwap' = op.left \ {f}
        BY <1>1, <2>4 DEF ToSwap
      <3>3. ~MustBeNew(m, f)'
        BY <1>3, <1>4, <2>4, <2>5, <2>6, <2>7, <3>2 DEF MustBeNew
      <3>4. ASSUME NEW g \in Files, g # f PROVE \E past \in SUBSET Contents : Explains(past, g)'
        <4>1. /\ MustBeNew(m, g)' => MustBeNew(m, g)
              /\ MustBeSeen(m, g)' => MustBeSeen(m, g)
          BY <1>2, <1>3, <1>5, <2>4, <2>5, <3>2 DEF MustBeNew, MustBeSeen
        <4>2. \A n \in Mutations \ {m} : /\ MustBeNew(n, g)' => MustBeNew(n, g)
                                         /\ MustBeSeen(n, g)' => MustBeSeen(n, g)
          BY <1>3, <3>1, QuietHistory
        <4>3. \A n \in Mutations : /\ MustBeNew(n, g)' => MustBeNew(n, g)
                                   /\ MustBeSeen(n, g)' => MustBeSeen(n, g)
          BY <4>1, <4>2
        <4>4. QED
          BY <1>3, <2>3, <3>4, <4>3, FileStep DEF IInv
      <3>5. \E past \in SUBSET Contents : Explains(past, f)'
        BY <1>1, <1>2, <1>3, <1>4, <1>5, <2>3, <2>7, <3>1, <3>3, SwapFile
      <3>6. QED
        BY <3>4, <3>5 DEF HistoryTells
    <2>12. QED
      BY <2>9, <2>10, <2>11 DEF Tells
  <1>8. QED
    BY <1>6, <1>7

-----------------------------------------------------------------------------
(* Crashes and errors.                                                     *)

LEMMA CrashTells == IInv /\ (Crash \/ StepFails \/ CloneFails) => Tells'
  <1> SUFFICES ASSUME IInv, Crash \/ StepFails \/ CloneFails PROVE Tells'
    OBVIOUS
  <1>1. PICK m \in Mutations : m = op.id
    BY DEF IInv, TypeOK, Operation
  <1>2. On(m)
    BY <1>1 DEF Crash, StepFails, CloneFails, Fault, On
  <1>3. UNCHANGED <<active, final, staging, before, edited, told>>
    BY DEF Crash, StepFails, CloneFails, diskVars, worldVars
  <1>4. CASE Crash \/ StepFails
    <2>1. temp' = temp /\ op' \in {Idle, Failed(op)}
      BY <1>4 DEF Crash, StepFails, diskVars
    <2>2. QED
      BY <1>2, <1>3, <2>1, FailedStep DEF Tells
  <1>5. CASE CloneFails
    <2>1. PICK f \in Files : f = First(op.left) /\ f \in Touches[m]
      BY <1>1, <1>5, LoopFile DEF IInv, OpTells, CloneFails, Loops
    <2>2. temp' = [temp EXCEPT ![m][f] = [bytes |-> before[m][f], node |-> m]] /\ op' = Failed(op)
      BY <1>1, <1>5, <2>1 DEF CloneFails
    <2>3. /\ op.body.phase = "prepared" /\ op.mode = "commit" /\ staging[m] = Absent
          /\ final[m].phase = "prepared"
      BY <1>1, <1>5 DEF CloneFails, IInv, OpTells, OpPhases, OpRecords, TypeOK, Operation, Body
    <2>4. Exists(final[m]) /\ Claims(m) \cap TerminalPhases = {}
      BY <1>2, <2>3 DEF Exists, Claims, TerminalPhases, Absent
    <2>5. BeforeEffect(op)
      BY <1>5, <2>3 DEF CloneFails, BeforeEffect
    <2>6. /\ temp'[m][f].bytes = before[m][f] /\ \A g \in Files : temp'[m][g] = temp[m][g] \/ g = f
          /\ \A n \in Mutations \ {m} : temp'[n] = temp[n]
      BY <2>2 DEF IInv, TypeOK
    <2>7. QED
      BY <1>2, <1>3, <2>1, <2>2, <2>4, <2>5, <2>6, FailedStep DEF Tells
  <1>6. QED
    BY <1>4, <1>5

(* A torn record.                                                          *)
LEMMA ShortWriteTells == IInv /\ ShortWrite => Tells'
  <1> SUFFICES ASSUME IInv, ShortWrite PROVE Tells'
    OBVIOUS
  <1>1. PICK m \in Mutations, o \in Operation : m = op.id /\ o = op
    BY DEF IInv, TypeOK, Operation
  <1>2. On(m) /\ UNCHANGED <<active, temp, before, edited, told>> /\ op' \in {Idle, Failed(op)}
    BY <1>1 DEF ShortWrite, worldVars, On, Fault
  <1>3. RecordTells(m) /\ Planned(m)
    BY <1>2 DEF IInv, RecordsTell, RecordTells
  <1>4. "torn" \notin TerminalPhases \cup NoEffect \cup {"absent", "published", "committed"}
    BY DEF TerminalPhases, NoEffect, Unpublished
  <1>5. \/ op'.pc = "idle"
        \/ /\ BeforeEffect(op) /\ op'.pc = "inspect" /\ op'.mode = "abort"
           /\ op'.id = m /\ op'.body = op.body
    BY <1>1, <1>2, FailedFields, IdleFields
  <1>6. Claims(m)' \subseteq {final'[m].phase, staging'[m].phase, op.body.phase}
        /\ (op'.pc = "idle" => Claims(m)' = {final'[m].phase, staging'[m].phase})
    BY <1>5 DEF Claims, On, Running
  <1>7. Claims(m) = {final[m].phase, staging[m].phase, op.body.phase}
    BY <1>2 DEF Claims
  <1>8. CASE op.pc = "prepare"
    <2>1. /\ op.body.phase = "prepared" /\ staging[m] = Absent /\ final[m] = Absent
      BY <1>1, <1>8 DEF IInv, OpTells, OpPhases, OpRecords
    <2>2. op'.pc = "idle"
      BY <1>5, <1>8, <2>1 DEF BeforeEffect
    <2>3. final' = [final EXCEPT ![m] = Torn] /\ staging' = staging
      BY <1>1, <1>8 DEF ShortWrite
    <2>4. /\ final'[m].phase = "torn" /\ staging'[m].phase = "absent"
          /\ final[m].phase = "absent" /\ staging[m].phase = "absent"
          /\ \A n \in Mutations \ {m} : final'[n] = final[n] /\ staging'[n] = staging[n]
      BY <2>1, <2>3 DEF IInv, TypeOK, Torn, Absent
    <2>5. told[m] = "nothing" /\ \A f \in Files : temp[m][f] = NoTemp
      BY <1>3, <1>7, <2>1, <2>4 DEF RecordTells, TerminalPhases, Exists
    <2>6. RecordTells(m)'
      BY <1>2, <1>3, <2>4, <2>5, JournalAssumption DEF RecordTells, Exists, Planned, NoTemp
    <2>7. RecordsTell'
      BY <1>2, <2>2, <2>4, <2>6, OtherRecords DEF IInv
    <2>8. HistoryTells'
      <3>1. \A n \in Mutations \ {m} : ~On(n)'
        BY <2>2 DEF On, Running
      <3>2. \A f \in Files : MustBeNew(m, f)
        BY <1>7, <2>1 DEF MustBeNew, NoEffect, Unpublished
      <3>3. \A f \in Files : ~MustBeSeen(m, f)'
        BY <1>2, <1>6, <2>2, <2>4, <2>5 DEF MustBeSeen
      <3>4. QED
        BY <1>2, <2>4, <3>1, <3>2, <3>3, OpHistory DEF IInv
    <2>9. QED
      BY <2>2, <2>7, <2>8, IdleTells DEF Tells
  <1>9. CASE op.pc = "write"
    <2>1. Follows(op.body, final[m]) /\ staging[m] = Absent
      BY <1>1, <1>9 DEF IInv, OpTells, OpRecords
    <2>2. final[m].phase \notin TerminalPhases \cup {"torn", "absent"}
      BY <2>1 DEF Follows, Predecessors, TerminalPhases
    <2>3. staging' = [staging EXCEPT ![m] = Torn] /\ final' = final
      BY <1>1, <1>9 DEF ShortWrite
    <2>4. /\ staging'[m].phase = "torn" /\ staging[m].phase = "absent"
          /\ \A n \in Mutations \ {m} : final'[n] = final[n] /\ staging'[n] = staging[n]
      BY <2>1, <2>3 DEF IInv, TypeOK, Torn, Absent
    <2>5. Claims(m)' \subseteq Claims(m) \cup {"torn"}
      BY <1>6, <1>7, <2>3, <2>4
    <2>6. told[m] = "nothing"
      BY <1>3, <1>7, <2>2 DEF RecordTells
    <2>7. RecordTells(m)'
      <3>1. \A f \in Files : temp[m][f] # NoTemp =>
               f \in Touches[m] /\ Exists(final[m]) /\ Claims(m)' \cap TerminalPhases = {}
        BY <1>3, <1>4, <2>5 DEF RecordTells
      <3>2. \A f \in Files : temp[m][f].node = m => temp[m][f].bytes \in {before[m][f], "torn", m}
        BY <1>3 DEF RecordTells
      <3>3. QED
        BY <1>2, <1>3, <2>2, <2>3, <2>4, <2>6, <3>1, <3>2 DEF RecordTells, Exists, Planned
    <2>8. RecordsTell'
      BY <1>2, <1>5, <2>3, <2>4, <2>7, OtherRecords DEF IInv
    <2>9. OpTells'
      <3>1. CASE op'.pc = "idle"
        BY <3>1, IdleTells
      <3>2. CASE op'.pc # "idle"
        <4>1. op.body.phase \in Undoable /\ final[m].phase \in Undoable
          BY <1>2, <1>5, <3>2, Undone
        <4>2. QED
          BY <1>5, <2>3, <2>4, <3>2, <4>1
            DEF OpTells, OpRecords, OpPhases, OpTemps, ToSwap, Persisting, Loops,
                Undoable, Phases, Unpublished
      <3>3. QED
        BY <3>1, <3>2
    <2>10. HistoryTells'
      <3>1. \A n \in Mutations \ {m} : ~On(n)'
        BY <1>5 DEF On, Running
      <3>2. ASSUME NEW f \in Files, MustBeNew(m, f)' PROVE MustBeNew(m, f) \/ f \notin Touches[m]
        <4>1. CASE op'.pc = "idle"
          BY <1>2, <1>4, <2>5, <3>2, <4>1 DEF MustBeNew, On, Running
        <4>2. CASE op'.pc # "idle"
          BY <1>2, <1>5, <4>2, Undone
        <4>3. QED
          BY <4>1, <4>2
      <3>3. \A f \in Files : MustBeSeen(m, f)' => MustBeSeen(m, f)
        BY <1>2, <1>4, <2>5 DEF MustBeSeen
      <3>4. QED
        BY <1>2, <2>3, <2>4, <3>1, <3>2, <3>3, OpHistory DEF IInv
    <2>11. QED
      BY <2>8, <2>9, <2>10 DEF Tells
  <1>10. QED
    BY <1>8, <1>9 DEF ShortWrite

-----------------------------------------------------------------------------
(* Requests.                                                               *)

LEMMA BeginCommitTells == ASSUME NEW m \in Mutations, IInv, BeginCommit(m) PROVE Tells'
  <1>1. /\ UNCHANGED <<active, temp, final, staging, before, edited>>
        /\ ~Exists(final[m]) /\ ~Exists(staging[m]) /\ before[m] # NoPlan
        /\ told' = [told EXCEPT ![m] = "nothing"] /\ temp[m] = [f \in Files |-> NoTemp]
        /\ \A f \in Files : active[f].bytes = before[m][f]
    BY DEF BeginCommit, LiveIs, diskVars, worldVars
  <1>2. /\ op'.pc = "prepare" /\ op'.mode = "commit" /\ op'.id = m /\ op'.left = {}
        /\ op'.body.phase = "prepared" /\ op'.body.staged = {}
    BY DEF BeginCommit
  <1>3. /\ final[m] = Absent /\ staging[m] = Absent
        /\ final[m].phase = "absent" /\ staging[m].phase = "absent"
    BY <1>1 DEF IInv, AbsentTells, Exists
  <1>4. told'[m] = "nothing" /\ \A n \in Mutations \ {m} : told'[n] = told[n]
    BY <1>1 DEF IInv, TypeOK
  <1>5. Claims(m)' = {"absent", "prepared"}
    BY <1>1, <1>2, <1>3 DEF Claims, On, Running
  <1>6. Planned(m)
    <2>1. PICK f \in Files : before[m][f] # "none"
      <3>1. before[m] \in [Files -> Contents \cup {"none"}]
        BY DEF IInv, TypeOK
      <3>2. (\A f \in Files : before[m][f] = "none") => before[m] = [f \in Files |-> "none"]
        BY <3>1
      <3>3. QED
        BY <1>1, <3>2 DEF NoPlan
    <2>2. RecordTells(m)
      BY DEF IInv, RecordsTell
    <2>3. QED
      BY <2>1, <2>2 DEF RecordTells
  <1>7. \A f \in Files : temp[m][f] = NoTemp
    BY <1>1
  <1>8. RecordTells(m)'
    BY <1>1, <1>3, <1>4, <1>6, <1>7, JournalAssumption DEF RecordTells, Exists, Planned, NoTemp
  <1>9. RecordsTell'
    BY <1>1, <1>2, <1>4, <1>8, OtherRecords DEF IInv
  <1>10. OpTells'
    <2>1. OpPhases'
      BY <1>2 DEF OpPhases, Persisting, Loops, Phases, Unpublished
    <2>2. OpRecords'
      BY <1>1, <1>2, <1>3 DEF OpRecords
    <2>3. OpTemps'
      BY <1>2 DEF OpTemps, ToSwap, Persisting
    <2>4. QED
      BY <2>1, <2>2, <2>3 DEF OpTells
  <1>11. HistoryTells'
    <2>1. \A n \in Mutations \ {m} : ~On(n)'
      BY <1>2 DEF On
    <2>2. \A f \in Files : ~MustBeSeen(m, f)'
      BY <1>4, <1>5 DEF MustBeSeen
    <2>3. QED
      BY <1>1, <1>4, <2>1, <2>2, OpHistory DEF IInv
  <1>12. QED
    BY <1>9, <1>10, <1>11 DEF Tells

LEMMA BeginRecoverTells == ASSUME NEW m \in Mutations, IInv, BeginRecover(m) PROVE Tells'
  <1>1. PICK stored \in Body : stored = Stored(m)
    BY StoredType DEF IInv
  <1>2. /\ UNCHANGED <<active, temp, before, edited, told>>
        /\ final' = [final EXCEPT ![m] = stored] /\ staging' = [staging EXCEPT ![m] = Absent]
        /\ ~Running /\ Readable(m) /\ Exists(stored)
    BY <1>1 DEF BeginRecover, worldVars
  <1>3. /\ op'.pc = "inspect" /\ op'.mode = "recover" /\ op'.id = m /\ op'.left = {}
        /\ op'.body = stored
    BY <1>1 DEF BeginRecover
  <1>4. /\ final'[m] = stored /\ staging'[m] = Absent /\ staging'[m].phase = "absent"
        /\ \A n \in Mutations \ {m} : final'[n] = final[n] /\ staging'[n] = staging[n]
    BY <1>2 DEF IInv, TypeOK, Absent
  <1>5. stored \in {final[m], staging[m]} /\ stored.phase \in Claims(m)
    BY <1>1 DEF Stored, Claims
  <1>6. stored.phase \in Phases
    BY <1>2, <1>5 DEF Exists, Readable, Body
  <1>7. Claims(m)' = {stored.phase, "absent"}
    BY <1>3, <1>4 DEF Claims
  <1>8. RecordTells(m)
    BY DEF IInv, RecordsTell
  <1>9. Exists(final[m]) /\ Planned(m)
    <2>1. Exists(final[m])
      BY <1>2, <1>5, <1>8 DEF RecordTells
    <2>2. QED
      BY <1>8, <2>1 DEF RecordTells
  <1>10. "absent" \notin TerminalPhases \cup NoEffect \cup {"published", "committed"}
    BY DEF TerminalPhases, NoEffect, Unpublished
  <1>11. RecordTells(m)'
    <2>1. \A f \in Files : temp[m][f] # NoTemp =>
            f \in Touches[m] /\ Claims(m)' \cap TerminalPhases = {}
      BY <1>5, <1>7, <1>8, <1>10 DEF RecordTells
    <2>2. \A f \in Files : temp[m][f].node = m => temp[m][f].bytes \in {before[m][f], "torn", m}
      BY <1>8 DEF RecordTells
    <2>3. told[m] # "nothing" => Claims(m)' \subseteq TerminalPhases \cup {"absent"}
      BY <1>5, <1>7, <1>8 DEF RecordTells
    <2>4. QED
      BY <1>2, <1>4, <1>9, <2>1, <2>2, <2>3 DEF RecordTells, Exists, Planned
  <1>12. RecordsTell'
    BY <1>2, <1>3, <1>4, <1>11, OtherRecords DEF IInv
  <1>13. OpTells'
    <2>1. OpPhases'
      BY <1>3, <1>6 DEF OpPhases, Persisting, Loops
    <2>2. OpRecords'
      BY <1>3, <1>4 DEF OpRecords
    <2>3. OpTemps'
      BY <1>3 DEF OpTemps, ToSwap, Persisting
    <2>4. QED
      BY <2>1, <2>2, <2>3 DEF OpTells
  <1>14. HistoryTells'
    <2>1. ToSwap' = {} /\ \A n \in Mutations \ {m} : ~On(n)'
      BY <1>3 DEF ToSwap, On
    <2>2. \A f \in Files : MustBeNew(m, f)' => MustBeNew(m, f)
      BY <1>2, <1>3, <1>5, <1>7, <1>10, <2>1 DEF MustBeNew
    <2>3. \A f \in Files : MustBeSeen(m, f)' => MustBeSeen(m, f)
      BY <1>2, <1>5, <1>7, <1>10 DEF MustBeSeen
    <2>4. \A f \in Files :
            MustBeNew(m, f) \/ stored.phase \in {"applying", "published", "committed", "absent"}
      BY <1>5, <1>6 DEF MustBeNew, Phases, NoEffect, TerminalPhases
    <2>5. QED
      BY <1>2, <1>4, <2>1, <2>2, <2>3, <2>4, OpHistory DEF IInv
  <1>15. QED
    BY <1>12, <1>13, <1>14 DEF Tells

LEMMA ReceiptTells == ASSUME NEW m \in Mutations, IInv, Receipt(m) PROVE Tells'
  <1>1. /\ UNCHANGED <<active, temp, final, staging, before, edited, op>>
        /\ ~Running /\ ~Exists(staging[m]) /\ final[m].phase \in TerminalPhases
        /\ told' = [told EXCEPT ![m] = final[m].phase]
    BY DEF Receipt, diskVars, worldVars
  <1>2. told'[m] = final[m].phase /\ \A n \in Mutations \ {m} : told'[n] = told[n]
    BY <1>1 DEF IInv, TypeOK
  <1>3. op'.pc = "idle" /\ \A n \in Mutations : ~On(n)'
    BY <1>1 DEF On, Running
  <1>4. Claims(m) = {final[m].phase, "absent"} /\ Claims(m)' = {final[m].phase, "absent"}
    BY <1>1, <1>3 DEF Claims, Exists, On
  <1>5. RecordTells(m)'
    <2>1. RecordTells(m)
      BY DEF IInv, RecordsTell
    <2>2. told'[m] # "nothing" => Claims(m)' \subseteq TerminalPhases \cup {"absent"}
      BY <1>1, <1>4
    <2>3. QED
      BY <1>1, <1>3, <1>4, <2>1, <2>2 DEF RecordTells, Exists, Follows, Planned
  <1>6. RecordsTell'
    BY <1>1, <1>2, <1>3, <1>5, OtherRecords DEF IInv
  <1>7. HistoryTells'
    <2>1. \A f \in Files : MustBeNew(m, f)' => MustBeNew(m, f)
      BY <1>1, <1>2, <1>3, <1>4 DEF MustBeNew, NoEffect, TerminalPhases
    <2>2. \A f \in Files : MustBeSeen(m, f)' => MustBeSeen(m, f)
      BY <1>2, <1>4 DEF MustBeSeen
    <2>3. QED
      BY <1>1, <1>2, <1>3, <2>1, <2>2, OpHistory DEF IInv
  <1>8. QED
    BY <1>3, <1>6, <1>7, IdleTells DEF Tells

LEMMA PruneTells == ASSUME NEW m \in Mutations, IInv, Prune(m) PROVE Tells'
  <1>1. /\ UNCHANGED <<active, temp, staging, before, edited, op, told>>
        /\ ~Running /\ ~Exists(staging[m]) /\ final[m].phase \in TerminalPhases
        /\ final' = [final EXCEPT ![m] = Absent]
    BY DEF Prune, worldVars
  <1>2. final'[m].phase = "absent" /\ \A n \in Mutations \ {m} : final'[n] = final[n]
    BY <1>1 DEF IInv, TypeOK, Absent
  <1>3. op'.pc = "idle" /\ \A n \in Mutations : ~On(n)'
    BY <1>1 DEF On, Running
  <1>4. Claims(m)' = {"absent"} /\ final[m].phase \in Claims(m) /\ final[m].phase # "absent"
    BY <1>1, <1>2, <1>3 DEF Claims, Exists, TerminalPhases
  <1>5. RecordTells(m)'
    <2>1. RecordTells(m)
      BY DEF IInv, RecordsTell
    <2>2. Planned(m) /\ \A f \in Files : temp[m][f] = NoTemp
      BY <1>1, <1>4, <2>1 DEF RecordTells, Exists
    <2>3. QED
      BY <1>1, <1>3, <1>4, <2>2, JournalAssumption DEF RecordTells, Exists, Planned, NoTemp
  <1>6. RecordsTell'
    BY <1>1, <1>2, <1>3, <1>5, OtherRecords DEF IInv
  <1>7. HistoryTells'
    <2>1. "absent" \notin NoEffect \cup {"published", "committed"}
      BY DEF NoEffect, Unpublished
    <2>2. \A f \in Files : /\ MustBeNew(m, f)' => MustBeNew(m, f)
                           /\ MustBeSeen(m, f)' => MustBeSeen(m, f)
      BY <1>1, <1>3, <1>4, <2>1 DEF MustBeNew, MustBeSeen
    <2>3. QED
      BY <1>1, <1>2, <1>3, <2>2, OpHistory DEF IInv
  <1>8. QED
    BY <1>3, <1>6, <1>7, IdleTells DEF Tells

-----------------------------------------------------------------------------
(* What nobody controls.                                                   *)

LEMMA SameRecords ==
  ASSUME RecordsTell, UNCHANGED <<final, staging, op, told>>,
         NEW n \in Mutations, before'[n] = before[n],
         \A f \in Files : temp'[n][f] \in {temp[n][f], NoTemp}
  PROVE  RecordTells(n)'
  <1>1. Claims(n)' = Claims(n) /\ On(n)' = On(n) /\ RecordTells(n)
    BY DEF Claims, On, Running, RecordsTell
  <1>2. NoTemp.node # n
    BY JournalAssumption DEF NoTemp
  <1>3. QED
    BY <1>1, <1>2 DEF RecordTells, Exists, Follows, Planned

LEMMA SameOp ==
  ASSUME OpTells, UNCHANGED <<final, staging, op>>,
         \A n \in Mutations, f \in Files : temp'[n][f] \in {temp[n][f], NoTemp}, TypeOK
  PROVE  OpTells'
  <1>1. PICK m \in Mutations : m = op.id
    BY DEF TypeOK, Operation
  <1>2. OpPhases' /\ OpRecords'
    BY DEF OpTells, OpPhases, OpRecords
  <1>3. ToSwap' = ToSwap
    BY DEF ToSwap
  <1>4. \A f \in Files : temp'[m][f] \in {temp[m][f], NoTemp}
    OBVIOUS
  <1>5. op.pc \in Loops => First(op.left) \in Files /\ op.left \subseteq Files
    BY LoopFile, JournalAssumption DEF OpTells, OpPhases, TypeOK, Operation
  <1>6. ToSwap \subseteq Files
    BY <1>5 DEF ToSwap, Loops
  <1>7. \A f \in Files : Rewritten(f) => Rewritten(f)'
    BY <1>1, <1>4 DEF Rewritten
  <1>8. OpTemps'
    <2>1. (\A f \in ToSwap : Rewritten(f)) /\ (\A f \in ToSwap' : Rewritten(f)')
      BY <1>3, <1>6, <1>7 DEF OpTells, OpTemps
    <2>2. op.pc \in {"clean", "discard"} => \A f \in Files \ op.left : temp'[m][f] = NoTemp
      BY <1>1, <1>4 DEF OpTells, OpTemps
    <2>3. op.pc = "rewrite" =>
            temp'[m][First(op.left)] \in {NoTemp, [bytes |-> "torn", node |-> m]}
      BY <1>1, <1>4, <1>5 DEF OpTells, OpTemps, Loops
    <2>4. op.pc \in {"truncate", "rewrite"} => \A f \in Files \ op.left : Rewritten(f)'
      BY <1>7 DEF OpTells, OpTemps
    <2>5. op.pc = "recheck" \/ (op.pc \in Persisting /\ op.body.phase \in {"staged", "applying"}) =>
            \A f \in Files : Rewritten(f)'
      BY <1>7 DEF OpTells, OpTemps
    <2>6. QED
      BY <1>1, <2>1, <2>2, <2>3, <2>4, <2>5 DEF OpTemps
  <1>9. QED
    BY <1>2, <1>8 DEF OpTells

LEMMA SameClaims ==
  ASSUME UNCHANGED <<final, staging, op, told>>, NEW n \in Mutations, NEW f \in Files
  PROVE  MustBeNew(n, f)' = MustBeNew(n, f) /\ MustBeSeen(n, f)' = MustBeSeen(n, f)
  BY DEF MustBeNew, MustBeSeen, Claims, On, Running, ToSwap

LEMMA VanishTells ==
  ASSUME IInv, UNCHANGED vars \/ \E n \in Mutations, g \in Files : TempVanishes(n, g)
  PROVE  Tells'
  <1>1. UNCHANGED <<active, final, staging, before, op, told, edited>>
    BY DEF TempVanishes, vars, worldVars
  <1>2. \A n \in Mutations, f \in Files : temp'[n][f] \in {temp[n][f], NoTemp}
    BY DEF TempVanishes, vars, IInv, TypeOK
  <1>3. RecordsTell'
    BY <1>1, <1>2, SameRecords DEF IInv, RecordsTell
  <1>4. OpTells'
    BY <1>1, <1>2, SameOp DEF IInv
  <1>5. HistoryTells'
    BY <1>1, SameClaims, HistoryStep DEF IInv
  <1>6. QED
    BY <1>3, <1>4, <1>5 DEF Tells

LEMMA EditTells == ASSUME IInv, NEW e \in Files, Edit(e) PROVE Tells'
  <1>1. UNCHANGED <<temp, final, staging, before, op, told>> /\ e \notin edited /\ edited' = edited \cup {e}
    BY DEF Edit
  <1>2. /\ active'[e].bytes = "user" /\ active'[e].node \in {active[e].node, "ext"}
        /\ \A f \in Files : f # e => active'[f] = active[f]
    BY DEF Edit, IInv, TypeOK, FileState
  <1>3. RecordsTell' /\ OpTells'
    BY <1>1, SameRecords, SameOp DEF IInv, RecordsTell
  <1>4. ASSUME NEW f \in Files, f # e PROVE \E past \in SUBSET Contents : Explains(past, f)'
    BY <1>1, <1>2, <1>4, SameClaims, FileStep DEF IInv
  <1>5. \E past \in SUBSET Contents : Explains(past, e)'
    <2>1. PICK past \in SUBSET Contents : Explains(past, e)
      BY DEF IInv, HistoryTells
    <2>2. PICK seen \in SUBSET Contents : seen = past \cup {active[e].bytes}
      BY DEF IInv, TypeOK, FileState
    <2>3. "user" \notin seen /\ "user" \notin Mutations /\ "ext" \notin Mutations
      BY <1>1, <2>1, <2>2, JournalAssumption DEF Explains
    <2>4. active'[e].node \in Mutations => active'[e].node \in seen
      BY <1>2, <2>1, <2>2, <2>3 DEF Explains
    <2>5. ASSUME NEW n \in Mutations
          PROVE  /\ before'[n][e] \in seen \cup {"user"} \cup {"none"}
                 /\ n \in seen \cup {"user"} =>
                      /\ e \in Touches[n] /\ before'[n][e] \in seen
                      /\ final'[n].phase \in {"applying", "published", "committed", "absent"}
                      /\ ~MustBeNew(n, e)'
                 /\ MustBeSeen(n, e)' => n \in seen \cup {"user"}
      <3>1. MustBeNew(n, e)' = MustBeNew(n, e) /\ MustBeSeen(n, e)' = MustBeSeen(n, e)
        BY <1>1, SameClaims
      <3>2. /\ before[n][e] \in seen \cup {"none"}
            /\ n \in seen => /\ e \in Touches[n] /\ before[n][e] \in past
                             /\ final[n].phase \in {"applying", "published", "committed", "absent"}
                             /\ ~MustBeNew(n, e)
            /\ MustBeSeen(n, e) => n \in seen
        BY <2>1, <2>2 DEF Explains
      <3>3. n # "user" /\ past \subseteq seen
        BY <2>2, <2>3
      <3>4. QED
        BY <1>1, <3>1, <3>2, <3>3
    <2>6. Explains(seen, e)'
      BY <1>1, <1>2, <2>3, <2>4, <2>5 DEF Explains
    <2>7. QED
      BY <2>6
  <1>6. HistoryTells'
    BY <1>4, <1>5 DEF HistoryTells
  <1>7. QED
    BY <1>3, <1>6 DEF Tells

LEMMA PlanTells == ASSUME IInv, NEW m \in Mutations, Plan(m) PROVE Tells'
  <1>1. /\ UNCHANGED <<active, temp, final, staging, op, told, edited>> /\ before[m] = NoPlan
        /\ before' = [before EXCEPT ![m] = [f \in Files |-> active[f].bytes]]
    BY DEF Plan, diskVars
  <1>2. /\ \A f \in Files : before'[m][f] = active[f].bytes /\ before[m][f] = "none"
        /\ \A n \in Mutations \ {m} : before'[n] = before[n]
    BY <1>1 DEF IInv, TypeOK, NoPlan
  <1>3. "none" \notin Contents
    BY JournalAssumption DEF Contents
  <1>4. \A f \in Files : active[f].bytes \in Contents
    BY DEF IInv, TypeOK, FileState
  <1>5. RecordTells(m)'
    <2>1. RecordTells(m)
      BY DEF IInv, RecordsTell
    <2>2. Claims(m)' = Claims(m) /\ On(m)' = On(m)
      BY <1>1 DEF Claims, On, Running
    <2>3. Planned(m)'
      BY <1>2, <1>3, <1>4 DEF Planned
    <2>4. \A f \in Files : temp[m][f] = NoTemp
      BY DEF Plan
    <2>5. QED
      BY <1>1, <2>1, <2>2, <2>3, <2>4, JournalAssumption DEF RecordTells, Exists, Follows, NoTemp
  <1>6. RecordsTell'
    BY <1>1, <1>2, <1>5, SameRecords DEF IInv, RecordsTell
  <1>7. OpTells'
    BY <1>1, SameOp DEF IInv
  <1>8. ASSUME NEW f \in Files PROVE \E past \in SUBSET Contents : Explains(past, f)'
    <2>1. PICK past \in SUBSET Contents : Explains(past, f)
      BY DEF IInv, HistoryTells
    <2>2. m \notin past \cup {active[f].bytes}
      BY <1>2, <1>3, <2>1 DEF Explains
    <2>3. \A n \in Mutations : MustBeNew(n, f)' = MustBeNew(n, f) /\ MustBeSeen(n, f)' = MustBeSeen(n, f)
      BY <1>1, SameClaims
    <2>4. Explains(past, f)'
      BY <1>1, <1>2, <2>1, <2>2, <2>3 DEF Explains
    <2>5. QED
      BY <2>4
  <1>9. HistoryTells'
    BY <1>8 DEF HistoryTells
  <1>10. QED
    BY <1>6, <1>7, <1>9 DEF Tells

-----------------------------------------------------------------------------
(* The invariant.                                                          *)

(* The steps that write a record write one that exists, a torn one, or     *)
(* none.                                                                   *)
LEMMA AbsentStep == IInv /\ [Next]_vars => AbsentTells'
  <1> SUFFICES ASSUME IInv, [Next]_vars PROVE AbsentTells'
    OBVIOUS
  <1> DEFINE Whole(r) == ~Exists(r) => r = Absent
  <1>1. Whole(Absent) /\ Whole(Torn) /\ (Running => Whole(op.body)) /\ op.id \in Mutations
        /\ \A n \in Mutations : Whole(final[n]) /\ Whole(staging[n]) /\ Whole(Stored(n))
    <2>1. Whole(Absent) /\ Whole(Torn)
      BY DEF Exists, Torn, Absent
    <2>2. Running => op.body.phase # "absent"
      BY DEF Running, IInv, OpTells, OpPhases, Phases, Unpublished, TerminalPhases
    <2>3. op.id \in Mutations
      BY DEF IInv, TypeOK, Operation
    <2>4. \A n \in Mutations : Whole(final[n]) /\ Whole(staging[n])
      BY DEF IInv, AbsentTells
    <2>5. QED
      BY <2>1, <2>2, <2>3, <2>4 DEF Stored, Exists
  <1> HIDE DEF Whole
  <1>2. ASSUME \A n \in Mutations : Whole(final'[n]) /\ Whole(staging'[n]) PROVE AbsentTells'
    BY <1>2 DEF AbsentTells, Whole, Exists
  <1>3. CASE UNCHANGED <<final, staging>>
    BY <1>1, <1>2, <1>3
  <1>4. ASSUME NEW m \in Mutations, NEW r, NEW s, Whole(r), Whole(s),
               final' \in {final, [final EXCEPT ![m] = r]},
               staging' \in {staging, [staging EXCEPT ![m] = s]}
        PROVE  AbsentTells'
    <2>1. \A n \in Mutations : final'[n] \in {final[n], r} /\ staging'[n] \in {staging[n], s}
      BY <1>4 DEF IInv, TypeOK
    <2>2. QED
      BY <1>1, <1>2, <1>4, <2>1
  <1>5. CASE Prepare \/ WriteStaging
    BY <1>1, <1>4, <1>5 DEF Prepare, WriteStaging, Running
  <1>6. CASE Load \/ \E m \in Mutations : BeginRecover(m)
    BY <1>1, <1>4, <1>6 DEF Load, BeginRecover
  <1>7. CASE Rename \/ RenameFails \/ ShortWrite \/ \E m \in Mutations : Prune(m)
    BY <1>1, <1>4, <1>7 DEF Rename, RenameFails, ShortWrite, Prune
  <1>8. CASE Clone \/ Truncate \/ Rewrite \/ Recheck \/ Swap \/ Verify \/ CheckLive \/ Clean
             \/ Discard \/ CancelRequest \/ InspectUnpublished \/ InspectApplying
             \/ InspectPublished \/ InspectTerminal
    BY <1>3, <1>8 DEF Clone, Truncate, Rewrite, Recheck, Swap, Verify, CheckLive, Clean, Discard,
      CancelRequest, InspectUnpublished, InspectApplying, InspectPublished, InspectTerminal, diskVars
  <1>9. CASE \/ Crash \/ StepFails \/ CloneFails
             \/ \E m \in Mutations : Plan(m) \/ BeginCommit(m) \/ Receipt(m)
             \/ \E f \in Files : Edit(f) \/ \E m \in Mutations : TempVanishes(m, f)
             \/ UNCHANGED vars
    BY <1>3, <1>9 DEF Crash, StepFails, CloneFails, Plan, BeginCommit, Receipt, Edit,
      TempVanishes, diskVars, vars
  <1>10. QED
    BY <1>5, <1>6, <1>7, <1>8, <1>9 DEF Next, Step

LEMMA InitIInv == Init => IInv
  <1> SUFFICES ASSUME Init PROVE IInv
    OBVIOUS
  <1>1. TypeOK
    BY InitTypeOK
  <1>2. /\ \A m \in Mutations : /\ final[m] = Absent /\ staging[m] = Absent /\ before[m] = NoPlan
                                /\ told[m] = "nothing" /\ \A f \in Files : temp[m][f] = NoTemp
        /\ \A f \in Files : active[f].bytes = "base" /\ active[f].node = "orig"
        /\ op.pc = "idle"
    BY IdleFields DEF Init
  <1>3. \A m \in Mutations : final[m].phase = "absent" /\ staging[m].phase = "absent" /\ ~On(m)
    BY <1>2 DEF Absent, On, Running
  <1>4. RecordsTell
    BY <1>2, <1>3, JournalAssumption DEF RecordsTell, RecordTells, Exists, NoPlan, NoTemp
  <1>5. AbsentTells
    BY <1>2 DEF AbsentTells
  <1>6. OpTells
    BY <1>2 DEF OpTells, OpRecords, OpPhases, OpTemps, ToSwap, Persisting, Loops
  <1>7. ASSUME NEW f \in Files PROVE Explains({}, f)
    <2>1. \A m \in Mutations : Claims(m) = {"absent"}
      BY <1>3 DEF Claims
    <2>2. \A m \in Mutations : ~MustBeSeen(m, f)
      BY <1>2, <2>1 DEF MustBeSeen
    <2>3. "base" \notin Mutations /\ "orig" \notin Mutations
      BY JournalAssumption
    <2>4. QED
      BY <1>2, <2>2, <2>3 DEF Explains, NoPlan
  <1>8. HistoryTells
    BY <1>7 DEF HistoryTells
  <1>9. QED
    BY <1>1, <1>4, <1>5, <1>6, <1>8 DEF IInv

LEMMA StepTells == IInv /\ [Next]_vars => Tells'
  <1> SUFFICES ASSUME IInv, [Next]_vars PROVE Tells'
    OBVIOUS
  <1>1. CASE Step
    BY <1>1, PrepareTells, CloneTells, TruncateTells, RewriteTells, RecheckTells, LoadTells,
      WriteStagingTells, RenameTells, SwapTells, VerifyTells, CheckLiveTells, RemoveTells,
      InspectUnpublishedTells, InspectApplyingTells, InspectPublishedTells, InspectTerminalTells
      DEF Step
  <1>2. CASE \E m \in Mutations : Plan(m) \/ BeginCommit(m) \/ BeginRecover(m)
                                  \/ Receipt(m) \/ Prune(m)
    BY <1>2, PlanTells, BeginCommitTells, BeginRecoverTells, ReceiptTells, PruneTells
  <1>3. CASE CancelRequest \/ Crash \/ StepFails \/ CloneFails \/ ShortWrite \/ RenameFails
    BY <1>3, RecheckTells, CrashTells, ShortWriteTells, RenameFailsTells
  <1>4. CASE \E f \in Files : Edit(f)
    BY <1>4, EditTells
  <1>5. CASE UNCHANGED vars \/ \E m \in Mutations, f \in Files : TempVanishes(m, f)
    BY <1>5, VanishTells
  <1>6. QED
    BY <1>1, <1>2, <1>3, <1>4, <1>5 DEF Next

(* The journal keeps its invariant, whatever happens to it.                *)
THEOREM JournalInvariant == Spec => []IInv
  <1>1. Init => IInv
    BY InitIInv
  <1>2. IInv /\ [Next]_vars => IInv'
    BY NextTypeOK, AbsentStep, StepTells DEF IInv, OpTells, Tells
  <1>3. QED
    BY <1>1, <1>2, PTL DEF Spec

(* Every variable of the journal keeps its type.                           *)
THEOREM JournalTypeOK == Spec => []TypeOK
  <1>1. IInv => TypeOK
    BY DEF IInv
  <1>2. QED
    BY <1>1, JournalInvariant, PTL

-----------------------------------------------------------------------------
(* What the history of a file says of a mutation.                          *)

LEMMA HistoryShows ==
  ASSUME IInv, NEW m \in Mutations, NEW f \in Files
  PROVE  /\ Swapped(m, f) \/ Applied(m, f) =>
              final[m].phase \in {"applying", "published", "committed", "absent"}
         /\ MustBeNew(m, f) => ~Applied(m, f)
         /\ MustBeSeen(m, f) => active[f].bytes # before[m][f]
  <1>1. PICK past \in SUBSET Contents : Explains(past, f)
    BY DEF IInv, HistoryTells
  <1>2. QED
    BY <1>1 DEF Explains, Swapped, Applied

(* commit_checked, persist: no temporary without an unfinished record, no  *)
(* exchanged file without a durable Applying, across every crash and every *)
(* torn record.                                                            *)
THEOREM RecordBeforeEffect == Spec => []WriteAhead
  <1>1. IInv => WriteAhead
    <2> SUFFICES ASSUME IInv, NEW m \in Mutations, NEW f \in Files
                 PROVE  /\ temp[m][f] # NoTemp => Exists(final[m]) /\ final[m].phase \notin TerminalPhases
                        /\ Swapped(m, f) =>
                             final[m].phase \in {"applying", "published", "committed", "absent"}
      BY DEF WriteAhead
    <2>1. RecordTells(m)
      BY DEF IInv, RecordsTell
    <2>2. QED
      BY <2>1, HistoryShows DEF RecordTells, Claims
  <1>2. QED
    BY <1>1, JournalInvariant, PTL

(* A terminal record speaks for every file of its mutation.                *)
THEOREM TerminalIsWhole == Spec => []OutcomeIsWhole
  <1>1. IInv => OutcomeIsWhole
    <2> SUFFICES ASSUME IInv, NEW m \in Mutations, NEW f \in Touches[m]
                 PROVE  /\ final[m].phase \in TerminalPhases => temp[m][f] = NoTemp
                        /\ final[m].phase = "committed" => active[f].bytes # before[m][f]
                        /\ final[m].phase \in {"aborted", "no_change"} => ~Applied(m, f)
      BY DEF OutcomeIsWhole
    <2>1. RecordTells(m) /\ f \in Files /\ final[m].phase \in Claims(m)
      BY JournalAssumption DEF IInv, RecordsTell, Claims
    <2>2. final[m].phase = "committed" => MustBeSeen(m, f)
      BY <2>1 DEF MustBeSeen
    <2>3. final[m].phase \in {"aborted", "no_change"} => MustBeNew(m, f)
      BY <2>1 DEF MustBeNew, NoEffect
    <2>4. QED
      BY <2>1, <2>2, <2>3, HistoryShows DEF RecordTells
  <1>2. QED
    BY <1>1, JournalInvariant, PTL

(* make_receipt, abort_before_effect: what a caller was told stays true of *)
(* the workspace, whatever later mutations, edits and prunes do.           *)
THEOREM ReceiptsStayTrue == Spec => []ReceiptsAreTrue
  <1>1. IInv => ReceiptsAreTrue
    <2> SUFFICES ASSUME IInv, NEW m \in Mutations, NEW f \in Touches[m]
                 PROVE  /\ told[m] = "committed" => active[f].bytes # before[m][f]
                        /\ told[m] \in {"aborted", "no_change", "refused"} =>
                             ~Applied(m, f) /\ temp[m][f] = NoTemp
      BY DEF ReceiptsAreTrue
    <2>1. RecordTells(m) /\ f \in Files /\ final[m].phase \in Claims(m)
      BY JournalAssumption DEF IInv, RecordsTell, Claims
    <2>2. told[m] = "committed" => MustBeSeen(m, f)
      BY DEF MustBeSeen
    <2>3. told[m] \in {"aborted", "no_change", "refused"} => MustBeNew(m, f)
      BY DEF MustBeNew
    <2>4. told[m] # "nothing" => temp[m][f] = NoTemp
      BY <2>1 DEF RecordTells, Exists
    <2>5. QED
      BY <2>1, <2>2, <2>3, <2>4, HistoryShows
  <1>2. QED
    BY <1>1, JournalInvariant, PTL

(* require_newer_staging accepts every pair of complete records the writer *)
(* can leave behind.                                                       *)
THEOREM OwnRecordsAreRead == Spec => []PairReadable
  <1>1. ASSUME NEW new, NEW old, Follows(new, old) PROVE Continues(new, old)
    BY <1>1 DEF Follows, Continues, Predecessors, Rank
  <1>2. IInv => PairReadable
    <2> SUFFICES ASSUME IInv, NEW m \in Mutations, final[m].phase # "torn", staging[m].phase # "torn"
                 PROVE  Readable(m)
      BY DEF PairReadable
    <2>1. Exists(staging[m]) => Follows(staging[m], final[m])
      BY DEF IInv, RecordsTell, RecordTells, Exists
    <2>2. QED
      BY <1>1, <2>1 DEF Readable
  <1>3. QED
    BY <1>2, JournalInvariant, PTL

(* A terminal record is never rewritten, by a recovery, a retry or a late  *)
(* step of an operation.                                                   *)
THEOREM TerminalIsFinal == Spec => OutcomeIsFinal
  <1>1. ASSUME IInv, [Next]_vars, NEW m \in Mutations, final[m].phase \in TerminalPhases
        PROVE  final'[m] \in {final[m], Absent} /\ ~Exists(staging'[m])
    <2>1. ~Exists(staging[m]) /\ Exists(final[m]) /\ ~Exists(Absent) /\ Stored(m) = final[m]
      BY <1>1 DEF IInv, RecordsTell, RecordTells, Exists, Absent, TerminalPhases, Stored
    <2>2. op.pc \in {"prepare", "write", "rename"} => op.id # m
      <3>1. op.pc = "prepare" => final[op.id].phase = "absent"
        BY <1>1 DEF IInv, OpTells, OpRecords, Absent
      <3>2. op.pc \in {"write", "rename"} => final[op.id].phase \notin TerminalPhases
        BY <1>1 DEF IInv, OpTells, OpRecords, Follows, Predecessors, TerminalPhases
      <3>3. QED
        BY <1>1, <3>1, <3>2 DEF TerminalPhases
    <2>3. op.id \in Mutations
      BY <1>1 DEF IInv, TypeOK, Operation
    <2>4. ASSUME final'[m] \in {final[m], Absent}, staging'[m] \in {staging[m], Absent}
          PROVE  final'[m] \in {final[m], Absent} /\ ~Exists(staging'[m])
      BY <2>1, <2>4
    <2>5. ASSUME NEW n \in Mutations, BeginRecover(n) \/ Prune(n)
          PROVE  final'[m] \in {final[m], Absent} /\ staging'[m] \in {staging[m], Absent}
      BY <1>1, <2>1, <2>5 DEF BeginRecover, Prune, IInv, TypeOK
    <2>6. CASE Load
      BY <1>1, <2>1, <2>3, <2>4, <2>6 DEF Load, IInv, TypeOK
    <2>7. CASE Prepare \/ WriteStaging \/ Rename \/ ShortWrite \/ RenameFails
      BY <1>1, <2>2, <2>3, <2>4, <2>7
        DEF Prepare, WriteStaging, Rename, ShortWrite, RenameFails, IInv, TypeOK
    <2>8. CASE UNCHANGED <<final, staging>>
      BY <2>4, <2>8
    <2>9. CASE Clone \/ Truncate \/ Rewrite \/ Recheck \/ Swap \/ Verify \/ CheckLive \/ Clean
               \/ Discard \/ CancelRequest \/ InspectUnpublished \/ InspectApplying
               \/ InspectPublished \/ InspectTerminal
      BY <2>8, <2>9 DEF Clone, Truncate, Rewrite, Recheck, Swap, Verify, CheckLive, Clean, Discard,
        CancelRequest, InspectUnpublished, InspectApplying, InspectPublished, InspectTerminal,
        diskVars
    <2>10. CASE \/ Crash \/ StepFails \/ CloneFails
                \/ \E n \in Mutations : Plan(n) \/ BeginCommit(n) \/ Receipt(n)
                \/ \E f \in Files : Edit(f) \/ \E n \in Mutations : TempVanishes(n, f)
                \/ UNCHANGED vars
      BY <2>8, <2>10 DEF Crash, StepFails, CloneFails, Plan, BeginCommit, Receipt, Edit,
        TempVanishes, diskVars, vars
    <2>11. QED
      BY <1>1, <2>4, <2>5, <2>6, <2>7, <2>9, <2>10 DEF Next, Step
  <1>2. IInv /\ [Next]_vars =>
          [\A m \in Mutations :
             final[m].phase \in TerminalPhases =>
               final'[m] \in {final[m], Absent} /\ ~Exists(staging'[m])]_vars
    BY <1>1
  <1>3. QED
    BY <1>2, JournalInvariant, PTL DEF Spec, OutcomeIsFinal

-----------------------------------------------------------------------------
(* Edits.                                                                  *)

Kept(f) ==
  \/ active[f].bytes = "user"
  \/ \E m \in Mutations : temp[m][f].bytes = "user"
  \/ \E m \in Mutations : f \in Touches[m] /\ before[m][f] = "user"

(* What a step that leaves the file alone may do to its temporaries.       *)
LEMMA KeptAlone ==
  ASSUME NEW f \in Files, Kept(f), active'[f] = active[f],
         \A m \in Mutations :
           /\ before'[m][f] = before[m][f] \/ before[m][f] = "none"
           /\ \/ temp'[m][f] = temp[m][f]
              \/ temp[m][f].bytes # "user"
              \/ f \in Touches[m] /\ before[m][f] = "user"
  PROVE  Kept(f)'
  <1>1. CASE \E m \in Mutations : temp[m][f].bytes = "user"
    BY <1>1 DEF Kept
  <1>2. CASE \E m \in Mutations : f \in Touches[m] /\ before[m][f] = "user"
    BY <1>2 DEF Kept
  <1>3. QED
    BY <1>1, <1>2 DEF Kept

(* The temporary an operation works on: the loop's file of its mutation.   *)
LEMMA KeptByLoop ==
  ASSUME IInv, NEW f \in Files, Kept(f), NEW m \in Mutations, NEW e \in Touches[m], NEW t,
         temp' \in {temp, [temp EXCEPT ![m][e] = t]}, UNCHANGED <<active, before>>,
         temp[m][e].bytes # "user" \/ temp[m][e].node = m \/ temp[m][e].bytes = before[m][e]
         \/ temp' = temp
  PROVE  Kept(f)'
  <1>1. e \in Files /\ m # "user" /\ RecordTells(m)
    BY JournalAssumption DEF IInv, RecordsTell
  <1>2. temp[m][e].bytes # "user" \/ before[m][e] = "user" \/ temp' = temp
    BY <1>1 DEF RecordTells
  <1>3. \A n \in Mutations, g \in Files : temp'[n][g] = temp[n][g] \/ (n = m /\ g = e)
    BY <1>1 DEF IInv, TypeOK
  <1>4. QED
    BY <1>2, <1>3, KeptAlone

LEMMA KeptStep ==
  ASSUME IInv, [Next]_vars, ~TempsMayVanish, NEW f \in Files, Kept(f)
  PROVE  Kept(f)'
  <1>1. PICK m \in Mutations, e \in {First(op.left)} : m = op.id /\ (op.pc \in Loops => e \in Touches[m])
    BY LoopFile DEF IInv, OpTells, TypeOK, Operation
  <1>3. CASE UNCHANGED <<active, temp, before>>
    BY <1>3, KeptAlone
  <1>4. CASE Clone \/ CloneFails
    <2>1. e \in Touches[m] /\ UNCHANGED <<active, before>>
      BY <1>1, <1>4 DEF Clone, CloneFails, Loops, worldVars
    <2>2. PICK t \in {[bytes |-> before[m][e], node |-> m]} : t = [bytes |-> before[m][e], node |-> m]
      OBVIOUS
    <2>3. \/ temp' = temp
          \/ temp[m][e] = NoTemp /\ temp' = [temp EXCEPT ![m][e] = t]
      BY <1>1, <1>4, <2>2 DEF Clone, CloneFails
    <2>4. QED
      BY <2>1, <2>3, KeptByLoop DEF NoTemp
  <1>5. CASE Truncate
    <2>1. e \in Touches[m] /\ UNCHANGED <<active, before>>
      BY <1>1, <1>5 DEF Truncate, Loops, worldVars
    <2>2. PICK t \in {[temp[m][e] EXCEPT !.bytes = "torn"]} : t = [temp[m][e] EXCEPT !.bytes = "torn"]
      OBVIOUS
    <2>3. temp' = temp \/ (temp[m][e].bytes = before[m][e] /\ temp' = [temp EXCEPT ![m][e].bytes = "torn"])
      BY <1>1, <1>5 DEF Truncate
    <2>4. temp' \in {temp, [temp EXCEPT ![m][e] = t]}
      BY <2>1, <2>2, <2>3, JournalAssumption DEF IInv, TypeOK
    <2>5. QED
      BY <2>1, <2>3, <2>4, KeptByLoop
  <1>6. CASE Rewrite
    <2>1. e \in Touches[m] /\ UNCHANGED <<active, before>>
      BY <1>1, <1>6 DEF Rewrite, Loops, worldVars
    <2>2. PICK t \in {[temp[m][e] EXCEPT !.bytes = m]} : t = [temp[m][e] EXCEPT !.bytes = m]
      OBVIOUS
    <2>3. temp' \in {temp, [temp EXCEPT ![m][e].bytes = m]}
      BY <1>1, <1>6 DEF Rewrite
    <2>4. temp' \in {temp, [temp EXCEPT ![m][e] = t]}
      BY <2>1, <2>2, <2>3, JournalAssumption DEF IInv, TypeOK
    <2>5. temp[m][e] \in {NoTemp, [bytes |-> "torn", node |-> m]}
      BY <1>1, <1>6 DEF Rewrite, IInv, OpTells, OpTemps
    <2>6. temp[m][e].bytes # "user"
      BY <2>5 DEF NoTemp
    <2>7. QED
      BY <2>1, <2>4, <2>6, KeptByLoop
  <1>7. CASE Clean \/ Discard
    <2>1. e \in Touches[m] /\ UNCHANGED <<active, before>>
      BY <1>1, <1>7 DEF Clean, Discard, Loops, worldVars
    <2>2. PICK t \in {NoTemp} : t = NoTemp
      OBVIOUS
    <2>3. temp' \in {temp, [temp EXCEPT ![m][e] = t]}
      BY <1>1, <1>7, <2>2 DEF Clean, Discard
    <2>4. temp' = temp \/ temp[m][e] = NoTemp \/ temp[m][e].node = m \/ temp[m][e].bytes = before[m][e]
      BY <1>1, <1>7 DEF Clean, Discard, Published
    <2>5. QED
      BY <2>1, <2>3, <2>4, KeptByLoop DEF NoTemp
  <1>8. CASE Swap
    <2>1. e \in Touches[m] /\ e \in Files /\ UNCHANGED before
      BY <1>1, <1>8, JournalAssumption DEF Swap, Loops, worldVars
    <2>2. CASE temp[m][e] = NoTemp
      BY <1>1, <1>3, <1>8, <2>2 DEF Swap, worldVars
    <2>3. CASE temp[m][e] # NoTemp
      <3>1. active' = [active EXCEPT ![e] = temp[m][e]] /\ temp' = [temp EXCEPT ![m][e] = active[e]]
        BY <1>1, <1>8, <2>3 DEF Swap
      <3>2. temp[m][e].bytes # "user"
        <4>1. e \in op.left
          BY <1>1, <1>8, LoopFile DEF Swap, Loops, IInv, OpTells
        <4>2. Rewritten(e)
          BY <1>8, <4>1 DEF Swap, IInv, OpTells, OpTemps, ToSwap
        <4>3. QED
          BY <1>1, <2>3, <4>2, JournalAssumption DEF Rewritten, New
      <3>3. /\ temp'[m][e] = active[e]
            /\ \A g \in Files : g # e => active'[g] = active[g]
            /\ \A n \in Mutations, g \in Files : temp'[n][g] = temp[n][g] \/ (n = m /\ g = e)
        BY <2>1, <3>1 DEF IInv, TypeOK
      <3>4. CASE f = e /\ active[f].bytes = "user"
        BY <3>3, <3>4 DEF Kept
      <3>5. CASE f = e /\ active[f].bytes # "user"
        BY <2>1, <3>2, <3>3, <3>5 DEF Kept
      <3>6. CASE f # e
        BY <2>1, <3>3, <3>6, KeptAlone
      <3>7. QED
        BY <3>4, <3>5, <3>6
    <2>4. QED
      BY <2>2, <2>3
  <1>9. CASE \E g \in Files : Edit(g)
    <2>1. PICK g \in Files : Edit(g)
      BY <1>9
    <2>2. UNCHANGED <<temp, before>> /\ (active'[f] = active[f] \/ active'[f].bytes = "user")
      BY <2>1 DEF Edit, IInv, TypeOK, FileState
    <2>3. CASE active'[f].bytes = "user"
      BY <2>3 DEF Kept
    <2>4. QED
      BY <2>2, <2>3, KeptAlone
  <1>10. CASE \E n \in Mutations : Plan(n)
    <2>1. /\ UNCHANGED <<active, temp>>
          /\ \A n \in Mutations : before'[n][f] = before[n][f] \/ before[n][f] = "none"
      BY <1>10 DEF Plan, diskVars, NoPlan, IInv, TypeOK
    <2>2. QED
      BY <2>1, KeptAlone
  <1>11. CASE Prepare \/ WriteStaging \/ Load \/ Rename \/ Recheck \/ Verify \/ CheckLive
              \/ CancelRequest \/ InspectUnpublished \/ InspectApplying
              \/ InspectPublished \/ InspectTerminal
    BY <1>3, <1>11 DEF Prepare, WriteStaging, Load, Rename, Recheck, Verify, CheckLive,
      CancelRequest, InspectUnpublished, InspectApplying, InspectPublished, InspectTerminal,
      diskVars, worldVars
  <1>12. CASE \/ Crash \/ StepFails \/ ShortWrite \/ RenameFails
              \/ \E n \in Mutations : BeginCommit(n) \/ BeginRecover(n) \/ Receipt(n) \/ Prune(n)
              \/ UNCHANGED vars
    BY <1>3, <1>12 DEF Crash, StepFails, ShortWrite, RenameFails, BeginCommit, BeginRecover,
      Receipt, Prune, diskVars, worldVars, vars
  <1>13. ~ \E g \in Files, n \in Mutations : TempVanishes(n, g)
    BY DEF TempVanishes
  <1>14. QED
    BY <1>4, <1>5, <1>6, <1>7, <1>8, <1>9, <1>10, <1>11, <1>12, <1>13 DEF Next, Step

(* cleanup_temp, cleanup_unpublished_temp: as long as nobody else removes  *)
(* temporaries, no exchange, cleanup or recovery destroys bytes an editor  *)
(* saved and no plan was reviewed on.                                      *)
THEOREM EditsAreKept ==
  ASSUME ~TempsMayVanish
  PROVE  Spec => []NoLostEdit
  <1> DEFINE AllKept == \A f \in edited : f \in Files /\ Kept(f)
  <1>1. Init => AllKept
    BY DEF Init
  <1>2. IInv /\ [Next]_vars /\ AllKept => AllKept'
    <2> SUFFICES ASSUME IInv, [Next]_vars, AllKept, NEW f \in edited'
                 PROVE  f \in Files /\ Kept(f)'
      OBVIOUS
    <2>1. CASE f \in edited
      BY <2>1, KeptStep
    <2>2. CASE f \notin edited
      <3>1. Edit(f) /\ f \in Files
        BY <2>2 DEF Next, Step, Prepare, Clone, Truncate, Rewrite, Recheck, Load, WriteStaging,
          Rename, Swap, Verify, CheckLive, Clean, InspectUnpublished, InspectApplying,
          InspectPublished, InspectTerminal, Discard, Plan, BeginCommit, BeginRecover, Receipt,
          Prune, CancelRequest, Edit, TempVanishes, Crash, StepFails, CloneFails, ShortWrite,
          RenameFails, vars, worldVars
      <3>2. active'[f].bytes = "user"
        BY <3>1 DEF Edit, IInv, TypeOK, FileState
      <3>3. QED
        BY <3>1, <3>2 DEF Kept
    <2>3. QED
      BY <2>1, <2>2
  <1>3. AllKept => NoLostEdit
    BY DEF NoLostEdit, Kept
  <1> HIDE DEF AllKept
  <1>4. QED
    BY <1>1, <1>2, <1>3, JournalInvariant, PTL DEF Spec

-----------------------------------------------------------------------------
(* The refinement of AtomicWorkspace.  Without an editor one mutation is   *)
(* under way at a time, over files that hold its bytes where it exchanged  *)
(* them and the bytes it was reviewed against everywhere else.             *)

Fits(m, phase) ==
  /\ phase = "no_change" => Touches[m] = {}
  /\ phase \in {"scratch", "staged", "applying", "published", "committed", "aborted"} =>
       Touches[m] # {}
PhasesFit ==
  /\ \A m \in Mutations : Fits(m, final[m].phase) /\ Fits(m, staging[m].phase)
  /\ Running => Fits(op.id, op.body.phase)

Starting(m) == op.pc = "prepare" /\ op.id = m
UnderWay(m) == Open(m) \/ Starting(m)
OneUnderWay == \A m, n \in Mutations : UnderWay(m) /\ UnderWay(n) => m = n

Reviewed(m) ==
  /\ before[m] # NoPlan
  /\ \A f \in Files : active[f].bytes = IF Swapped(m, f) THEN m ELSE before[m][f]
UnderReview == \A m \in Mutations : UnderWay(m) => Reviewed(m)

WholeBytes == \A f \in Files : active[f].bytes \in Mutations \cup {"base"}

AInv == PhasesFit /\ OneUnderWay /\ UnderReview /\ WholeBytes

(* How an operation goes on: with a phase that fits its mutation.          *)
GoesOn(o, p) == p.pc # "prepare" /\ p.id = o.id /\ Fits(o.id, p.body.phase)

LEMMA LoopFits ==
  ASSUME NEW o \in Operation, NEW pc \in LoopPcs, NEW files \in SUBSET Files,
         Fits(o.id, o.body.phase), Touches[o.id] # {} \/ pc = "discard"
  PROVE  GoesOn(o, Loop(o, pc, files))
  <1>1. Fits(o.id, PhaseAfter(pc, o.id)) \/ pc = "swap"
    BY DEF Fits, PhaseAfter, UnchangedPhase, LoopPcs
  <1>2. "prepare" \notin LoopPcs
    BY DEF LoopPcs
  <1> DEFINE p == Loop(o, pc, files)
  <1>3. CASE files # {}
    <2>1. p.pc = pc /\ p.id = o.id /\ p.body = o.body
      BY <1>3, LoopGoesOn
    <2>2. QED
      BY <1>2, <2>1 DEF GoesOn
  <1>4. CASE files = {} /\ pc = "swap"
    <2>1. p.pc = "live" /\ p.id = o.id /\ p.body = o.body
      BY <1>4, SwapEnds
    <2>2. QED
      BY <2>1 DEF GoesOn
  <1>5. CASE files = {} /\ pc # "swap"
    <2>1. p.pc = "load" /\ p.id = o.id /\ p.body.phase = PhaseAfter(pc, o.id)
      BY <1>5, LoopEnds
    <2>2. QED
      BY <1>1, <1>5, <2>1 DEF GoesOn
  <1>6. QED
    BY <1>3, <1>4, <1>5

LEMMA FailedFits ==
  ASSUME NEW o \in Operation, Fits(o.id, o.body.phase)
  PROVE  Failed(o).pc = "idle" \/ GoesOn(o, Failed(o))
  BY FailedFields, IdleFields DEF GoesOn

LEMMA PersistFits ==
  ASSUME NEW o \in Operation, NEW phase \in Phases, Fits(o.id, phase)
  PROVE  GoesOn(o, Persist(o, phase))
  BY PersistFields DEF GoesOn

LEMMA PersistedFits ==
  ASSUME NEW o \in Operation, o.body.phase \in Phases, Fits(o.id, o.body.phase)
  PROVE  Persisted(o).pc = "idle" \/ GoesOn(o, Persisted(o))
  <1> DEFINE touched == Touches[o.id]
             files == {f \in Touches[o.id] : temp[o.id][f] # NoTemp}
  <1>1. touched \in SUBSET Files /\ files \in SUBSET Files
    BY JournalAssumption DEF Operation
  <1>2. {"truncate", "swap", "clean", "discard"} \subseteq LoopPcs
    BY DEF LoopPcs
  <1>3. GoesOn(o, Loop(o, "discard", files))
    BY <1>1, <1>2, LoopFits
  <1>4. o.body.phase \in {"scratch", "applying", "published"} =>
          /\ GoesOn(o, Loop(o, "truncate", touched)) /\ GoesOn(o, Loop(o, "swap", touched))
          /\ GoesOn(o, Loop(o, "clean", touched))
    BY <1>1, <1>2, LoopFits DEF Fits
  <1>5. GoesOn(o, [o EXCEPT !.pc = "recheck"]) /\ GoesOn(o, [o EXCEPT !.pc = "inspect"])
    BY DEF GoesOn, Operation
  <1>6. Idle.pc = "idle"
    BY IdleFields
  <1>7. QED
    BY <1>3, <1>4, <1>5, <1>6 DEF Persisted

-----------------------------------------------------------------------------
(* The operation keeps to phases that fit, and starts only by a commit.    *)

LEMMA CallFits ==
  ASSUME IInv, Running, Fits(op.id, op.body.phase),
         Prepare \/ Clone \/ Truncate \/ Rewrite \/ Recheck \/ CancelRequest
  PROVE  op'.pc = "idle" \/ GoesOn(op, op')
  <1> DEFINE left == Touches[op.id]
  <1>1. op \in Operation /\ left \in SUBSET Files /\ {"clone", "truncate"} \subseteq LoopPcs
    BY JournalAssumption DEF IInv, TypeOK, Operation, LoopPcs
  <1>2. Failed(op).pc = "idle" \/ GoesOn(op, Failed(op))
    BY <1>1, FailedFits
  <1>3. op.pc \in Loops => left # {} /\ op.left \subseteq left
    BY DEF IInv, OpTells, OpPhases
  <1>4. CASE Prepare
    <2>1. CASE left = {}
      <3>1. Fits(op.id, "no_change") /\ "no_change" \in Phases
        BY <2>1 DEF Fits, Phases, TerminalPhases
      <3>2. QED
        BY <1>1, <1>4, <2>1, <3>1, PersistFits DEF Prepare
    <2>2. CASE left # {}
      BY <1>1, <1>4, <2>2, LoopFits DEF Prepare
    <2>3. QED
      BY <2>1, <2>2
  <1>5. CASE Clone
    <2> DEFINE bound == [op EXCEPT !.body.staged = @ \cup {First(op.left)}]
    <2>1. op.pc = "clone" /\ left # {} /\ op.left \in SUBSET Files
      BY <1>1, <1>3, <1>5 DEF Clone, Loops
    <2>2. First(op.left) \in Files /\ op.left \ {First(op.left)} \in SUBSET Files
      BY <1>1, <2>1, LoopFile DEF IInv, OpTells, OpPhases, Loops
    <2>3. bound \in Operation /\ bound.id = op.id /\ bound.body.phase = op.body.phase
      BY <1>1, <2>2 DEF Operation, Body
    <2>4. GoesOn(bound, Loop(bound, "clone", op.left \ {First(op.left)}))
      <3> HIDE DEF bound
      <3>1. QED
        BY <1>1, <2>1, <2>2, <2>3, LoopFits
    <2>5. op' = Failed(op) \/ op' = Loop(bound, "clone", op.left \ {First(op.left)})
      BY <1>5 DEF Clone
    <2>6. QED
      BY <1>2, <2>3, <2>4, <2>5 DEF GoesOn
  <1>6. CASE Truncate
    <2>1. GoesOn(op, [op EXCEPT !.pc = "rewrite"])
      BY <1>1 DEF GoesOn, Operation
    <2>2. QED
      BY <1>2, <1>6, <2>1 DEF Truncate
  <1>7. CASE Rewrite
    <2>1. left # {} /\ op.left \ {First(op.left)} \in SUBSET Files
      BY <1>1, <1>3, <1>7 DEF Rewrite, Loops
    <2>2. GoesOn(op, Loop(op, "truncate", op.left \ {First(op.left)}))
      BY <1>1, <2>1, LoopFits
    <2>3. QED
      BY <1>2, <1>7, <2>2 DEF Rewrite
  <1>8. CASE Recheck
    <2>1. Fits(op.id, "applying") /\ "applying" \in Phases
      BY <1>8 DEF IInv, OpTells, OpPhases, Recheck, Fits, Phases
    <2>2. QED
      BY <1>1, <1>2, <1>8, <2>1, PersistFits DEF Recheck
  <1>9. CASE CancelRequest
    BY <1>2, <1>9 DEF CancelRequest
  <1>10. QED
    BY <1>4, <1>5, <1>6, <1>7, <1>8, <1>9

LEMMA RecordFits ==
  ASSUME IInv, Running, Fits(op.id, op.body.phase), Load \/ WriteStaging \/ Rename
  PROVE  op'.pc = "idle" \/ GoesOn(op, op')
  <1>1. op \in Operation /\ op.body.phase \in Phases
    BY DEF IInv, TypeOK, OpTells, OpPhases, Running
  <1>2. Failed(op).pc = "idle" \/ GoesOn(op, Failed(op))
    BY <1>1, FailedFits
  <1>3. Persisted(op).pc = "idle" \/ GoesOn(op, Persisted(op))
    BY <1>1, PersistedFits
  <1>4. GoesOn(op, [op EXCEPT !.pc = "write"]) /\ GoesOn(op, [op EXCEPT !.pc = "rename"])
    BY <1>1 DEF GoesOn, Operation
  <1>5. op' \in {Failed(op), Persisted(op), [op EXCEPT !.pc = "write"], [op EXCEPT !.pc = "rename"]}
    BY DEF Load, WriteStaging, Rename
  <1>6. QED
    BY <1>2, <1>3, <1>4, <1>5

LEMMA FileFits ==
  ASSUME IInv, Running, Fits(op.id, op.body.phase),
         Swap \/ Verify \/ CheckLive \/ Clean \/ Discard
  PROVE  op'.pc = "idle" \/ GoesOn(op, op')
  <1>1. op \in Operation /\ op.body.phase \in Phases /\ {"swap", "clean", "discard"} \subseteq LoopPcs
    BY DEF IInv, TypeOK, OpTells, OpPhases, Running, LoopPcs
  <1>2. Failed(op).pc = "idle" \/ GoesOn(op, Failed(op))
    BY <1>1, FailedFits
  <1>3. CASE Swap
    <2>1. GoesOn(op, [op EXCEPT !.pc = "verify"])
      BY <1>1 DEF GoesOn, Operation
    <2>2. QED
      BY <1>2, <1>3, <2>1 DEF Swap
  <1>4. CASE Verify \/ Clean \/ Discard
    <2>1. op.left \ {First(op.left)} \in SUBSET Files /\ Touches[op.id] # {}
      BY <1>4, LoopFile DEF IInv, OpTells, OpPhases, Loops, Verify, Clean, Discard
    <2>2. \A pc \in {"swap", "clean", "discard"} :
            GoesOn(op, Loop(op, pc, op.left \ {First(op.left)}))
      BY <1>1, <2>1, LoopFits
    <2>3. QED
      BY <1>2, <1>4, <2>2 DEF Verify, Clean, Discard
  <1>5. CASE CheckLive
    <2>1. Fits(op.id, "published") /\ "published" \in Phases
      BY <1>5 DEF IInv, OpTells, OpPhases, CheckLive, Fits, Phases
    <2>2. QED
      BY <1>1, <1>2, <1>5, <2>1, PersistFits DEF CheckLive
  <1>6. QED
    BY <1>3, <1>4, <1>5

LEMMA InspectFits ==
  ASSUME IInv, Running, Fits(op.id, op.body.phase),
         InspectUnpublished \/ InspectApplying \/ InspectPublished \/ InspectTerminal
  PROVE  op'.pc = "idle" \/ GoesOn(op, op')
  <1>1. op \in Operation /\ {"swap", "clean"} \subseteq LoopPcs /\ Idle.pc = "idle"
        /\ "aborted_cleanup" \in Phases /\ Fits(op.id, "aborted_cleanup")
    BY IdleFields DEF IInv, TypeOK, LoopPcs, Phases, Unpublished, Fits
  <1>2. CASE InspectUnpublished
    <2>1. PICK found \in SUBSET Files :
            op' = Idle \/ op' = Persist([op EXCEPT !.body.staged = @ \cup found], "aborted_cleanup")
      <3> DEFINE found == IF op.body.phase = "prepared" THEN {f \in Touches[op.id] : temp[op.id][f] # NoTemp}
                          ELSE {}
      <3>1. found \in SUBSET Files
        BY <1>1, JournalAssumption DEF Operation
      <3>2. QED
        BY <1>2, <3>1 DEF InspectUnpublished
    <2> DEFINE bound == [op EXCEPT !.body.staged = @ \cup found]
    <2>2. bound \in Operation /\ bound.id = op.id
      BY <1>1 DEF Operation, Body
    <2>3. GoesOn(bound, Persist(bound, "aborted_cleanup"))
      <3> HIDE DEF bound
      <3>1. QED
        BY <1>1, <2>2, PersistFits
    <2>4. QED
      BY <1>1, <2>1, <2>2, <2>3 DEF GoesOn
  <1>3. CASE InspectApplying
    <2>1. Touches[op.id] # {} /\ \A done : Touches[op.id] \ done \in SUBSET Files
      BY <1>1, <1>3, JournalAssumption DEF InspectApplying, Fits, Operation
    <2>2. \A done : GoesOn(op, Loop(op, "swap", Touches[op.id] \ done))
      BY <1>1, <2>1, LoopFits
    <2>3. GoesOn(op, Persist(op, "aborted_cleanup"))
      BY <1>1, PersistFits
    <2>4. QED
      BY <1>1, <1>3, <2>2, <2>3 DEF InspectApplying
  <1>4. CASE InspectPublished
    <2> DEFINE present == {f \in Touches[op.id] : temp[op.id][f] # NoTemp}
    <2>1. Touches[op.id] # {} /\ present \in SUBSET Files
      BY <1>1, <1>4, JournalAssumption DEF InspectPublished, Fits, Operation
    <2>2. GoesOn(op, Loop(op, "clean", present))
      BY <1>1, <2>1, LoopFits
    <2>3. QED
      BY <1>1, <1>4, <2>2 DEF InspectPublished
  <1>5. CASE InspectTerminal
    BY <1>1, <1>5 DEF InspectTerminal
  <1>6. QED
    BY <1>2, <1>3, <1>4, <1>5

LEMMA OpStep ==
  ASSUME IInv, PhasesFit, [Next]_vars
  PROVE  \/ op' = op
         \/ op'.pc = "idle"
         \/ Running /\ GoesOn(op, op')
         \/ \E m \in Mutations : BeginCommit(m) \/ BeginRecover(m)
  <1>1. Running => Fits(op.id, op.body.phase)
    BY DEF PhasesFit
  <1>2. CASE Step
    <2>1. Running
      BY <1>2 DEF Step, Running, Prepare, Clone, Truncate, Rewrite, Recheck, Load, WriteStaging,
        Rename, Swap, Verify, CheckLive, Clean, InspectUnpublished, InspectApplying,
        InspectPublished, InspectTerminal, Discard
    <2>2. QED
      BY <1>1, <1>2, <2>1, CallFits, RecordFits, FileFits, InspectFits DEF Step
  <1>3. CASE CancelRequest
    BY <1>1, <1>3, CallFits DEF CancelRequest, Running
  <1>4. CASE Crash \/ StepFails \/ CloneFails \/ ShortWrite \/ RenameFails
    <2>1. Running /\ op' \in {Idle, Failed(op)}
      BY <1>4 DEF Crash, StepFails, CloneFails, ShortWrite, RenameFails, Fault
    <2>2. op \in Operation
      BY DEF IInv, TypeOK
    <2>3. QED
      BY <1>1, <2>1, <2>2, IdleFields, FailedFits
  <1>5. CASE \/ UNCHANGED vars
             \/ \E m \in Mutations : Plan(m) \/ Receipt(m) \/ Prune(m)
             \/ \E f \in Files : Edit(f) \/ \E m \in Mutations : TempVanishes(m, f)
    BY <1>5 DEF vars, Plan, Receipt, Prune, Edit, TempVanishes
  <1>6. QED
    BY <1>2, <1>3, <1>4, <1>5 DEF Next

(* What a step writes to a record.                                         *)
LEMMA RecordStep ==
  ASSUME IInv, [Next]_vars, NEW m \in Mutations
  PROVE  /\ \/ final'[m] \in {final[m], staging[m], Absent, Torn}
            \/ Running /\ op.id = m /\ final'[m] = op.body
         /\ \/ staging'[m] \in {staging[m], Absent, Torn}
            \/ Running /\ op.id = m /\ staging'[m] = op.body
  <1>1. /\ final \in [Mutations -> Body] /\ staging \in [Mutations -> Body]
        /\ op.id \in Mutations
    BY DEF IInv, TypeOK, Operation
  <1>2. CASE UNCHANGED <<final, staging>>
    BY <1>2
  <1>3. CASE Prepare \/ WriteStaging
    BY <1>1, <1>3 DEF Prepare, WriteStaging, Running
  <1>4. CASE Load \/ Rename \/ RenameFails
    BY <1>1, <1>4 DEF Load, Rename, RenameFails, Stored
  <1>5. CASE ShortWrite
    BY <1>1, <1>5 DEF ShortWrite
  <1>6. CASE \E n \in Mutations : BeginRecover(n) \/ Prune(n)
    BY <1>1, <1>6 DEF BeginRecover, Prune, Stored
  <1>7. CASE Clone \/ Truncate \/ Rewrite \/ Recheck \/ Swap \/ Verify \/ CheckLive \/ Clean
             \/ Discard \/ CancelRequest \/ InspectUnpublished \/ InspectApplying
             \/ InspectPublished \/ InspectTerminal
    BY <1>2, <1>7 DEF Clone, Truncate, Rewrite, Recheck, Swap, Verify, CheckLive, Clean, Discard,
      CancelRequest, InspectUnpublished, InspectApplying, InspectPublished, InspectTerminal,
      diskVars
  <1>8. CASE \/ Crash \/ StepFails \/ CloneFails
             \/ \E n \in Mutations : Plan(n) \/ BeginCommit(n) \/ Receipt(n)
             \/ \E f \in Files : Edit(f) \/ \E n \in Mutations : TempVanishes(n, f)
             \/ UNCHANGED vars
    BY <1>2, <1>8 DEF Crash, StepFails, CloneFails, Plan, BeginCommit, Receipt, Edit,
      TempVanishes, diskVars, vars
  <1>9. QED
    BY <1>3, <1>4, <1>5, <1>6, <1>7, <1>8 DEF Next, Step

LEMMA PhasesFitStep == IInv /\ PhasesFit /\ [Next]_vars => PhasesFit'
  <1> SUFFICES ASSUME IInv, PhasesFit, [Next]_vars PROVE PhasesFit'
    OBVIOUS
  <1>1. ASSUME NEW m \in Mutations PROVE Fits(m, final'[m].phase) /\ Fits(m, staging'[m].phase)
    <2>1. Fits(m, Absent.phase) /\ Fits(m, Torn.phase)
      BY DEF Fits, Absent, Torn
    <2>2. Fits(m, final[m].phase) /\ Fits(m, staging[m].phase)
          /\ (Running /\ op.id = m => Fits(m, op.body.phase))
      BY DEF PhasesFit
    <2>3. QED
      BY <2>1, <2>2, RecordStep
  <1>2. ASSUME Running' PROVE Fits(op'.id, op'.body.phase)
    <2>1. CASE op' = op \/ op'.pc = "idle"
      BY <1>2, <2>1 DEF PhasesFit, Running
    <2>2. CASE Running /\ GoesOn(op, op')
      BY <2>2 DEF GoesOn
    <2>3. CASE \E m \in Mutations : BeginCommit(m)
      BY <2>3 DEF BeginCommit, Fits
    <2>4. CASE \E m \in Mutations : BeginRecover(m)
      BY <2>4 DEF BeginRecover, Stored, PhasesFit
    <2>5. QED
      BY <2>1, <2>2, <2>3, <2>4, OpStep
  <1>3. (\A m \in Mutations : Fits(m, final[m].phase) /\ Fits(m, staging[m].phase))'
    BY <1>1 DEF Fits
  <1>4. (Running => Fits(op.id, op.body.phase))'
    BY <1>2 DEF Fits
  <1>5. QED
    BY <1>3, <1>4 DEF PhasesFit

-----------------------------------------------------------------------------
(* One mutation at a time, over reviewed bytes.                            *)

LEMMA PersistingIsOpen == IInv /\ op.pc \in Persisting => Open(op.id)
  <1> SUFFICES ASSUME IInv, op.pc \in Persisting PROVE Open(op.id)
    OBVIOUS
  <1>1. \E phase : final[op.id].phase \in Predecessors(phase)
    BY DEF IInv, OpTells, OpRecords, Persisting, Follows
  <1>2. final[op.id].phase \notin TerminalPhases \cup {"absent"}
    BY <1>1 DEF Predecessors, TerminalPhases
  <1>3. QED
    BY <1>2 DEF Open, Absent

LEMMA UnderWayStep ==
  ASSUME IInv, PhasesFit, [Next]_vars, NEW m \in Mutations, UnderWay(m)'
  PROVE  UnderWay(m) \/ BeginCommit(m)
  <1>1. CASE Starting(m)'
    <2>1. op'.pc = "prepare" /\ op'.id = m
      BY <1>1 DEF Starting
    <2>2. CASE op' = op
      BY <2>1, <2>2 DEF UnderWay, Starting
    <2>3. CASE \E n \in Mutations : BeginCommit(n) \/ BeginRecover(n)
      BY <2>1, <2>3 DEF BeginCommit, BeginRecover
    <2>4. QED
      BY <2>1, <2>2, <2>3, OpStep DEF GoesOn
  <1>2. CASE Open(m)'
    <2>1. /\ final \in [Mutations -> Body] /\ staging \in [Mutations -> Body]
          /\ op.id \in Mutations
      BY DEF IInv, TypeOK, Operation
    <2>2. ASSUME \/ final'[m] = final[m] /\ staging'[m] = staging[m]
                 \/ m = op.id /\ op.pc \in Persisting \cup {"prepare"}
                 \/ staging[m] # Absent
          PROVE  UnderWay(m)
      BY <1>2, <2>2, PersistingIsOpen DEF UnderWay, Open, Starting
    <2>3. CASE Prepare \/ Load \/ WriteStaging \/ Rename \/ ShortWrite \/ RenameFails
      BY <2>1, <2>2, <2>3
        DEF Prepare, Load, WriteStaging, Rename, ShortWrite, RenameFails, Persisting
    <2>4. CASE \E n \in Mutations : BeginRecover(n)
      <3>1. final'[m] = final[m] \/ staging[m] # Absent
        BY <2>1, <2>4 DEF BeginRecover, Stored, Exists, Absent
      <3>2. staging'[m] \in {staging[m], Absent}
        BY <2>1, <2>4 DEF BeginRecover
      <3>3. QED
        BY <2>2, <3>1, <3>2
    <2>5. CASE \E n \in Mutations : Prune(n)
      <3>1. final'[m] \in {final[m], Absent} /\ staging'[m] = staging[m]
        BY <2>1, <2>5 DEF Prune
      <3>2. QED
        BY <1>2, <2>2, <3>1 DEF Open
    <2>6. CASE UNCHANGED <<final, staging>>
      BY <2>2, <2>6
    <2>7. CASE Clone \/ Truncate \/ Rewrite \/ Recheck \/ Swap \/ Verify \/ CheckLive \/ Clean
               \/ Discard \/ CancelRequest \/ InspectUnpublished \/ InspectApplying
               \/ InspectPublished \/ InspectTerminal
      BY <2>6, <2>7 DEF Clone, Truncate, Rewrite, Recheck, Swap, Verify, CheckLive, Clean, Discard,
        CancelRequest, InspectUnpublished, InspectApplying, InspectPublished, InspectTerminal,
        diskVars
    <2>8. CASE \/ Crash \/ StepFails \/ CloneFails
               \/ \E n \in Mutations : Plan(n) \/ BeginCommit(n) \/ Receipt(n)
               \/ \E f \in Files : Edit(f) \/ \E n \in Mutations : TempVanishes(n, f)
               \/ UNCHANGED vars
      BY <2>6, <2>8 DEF Crash, StepFails, CloneFails, Plan, BeginCommit, Receipt, Edit,
        TempVanishes, diskVars, vars
    <2>9. QED
      BY <2>3, <2>4, <2>5, <2>7, <2>8 DEF Next, Step
  <1>3. QED
    BY <1>1, <1>2 DEF UnderWay

(* A commit begins over the bytes it was reviewed against, while nothing   *)
(* else is under way, and none of the files is its own yet.                *)
LEMMA CommitStarts ==
  ASSUME IInv, NEW m \in Mutations, BeginCommit(m)
  PROVE  /\ \A n \in Mutations : ~UnderWay(n)
         /\ before[m] # NoPlan /\ before' = before /\ active' = active
         /\ \A f \in Files : active[f].bytes = before[m][f] /\ ~Swapped(m, f)
  <1>1. op.pc = "idle"
    BY DEF BeginCommit, Running
  <1>2. ASSUME NEW n \in Mutations PROVE ~UnderWay(n)
    <2>1. ~Exists(staging[n]) /\ (Exists(final[n]) => final[n].phase \in TerminalPhases)
      BY DEF BeginCommit, Unfinished
    <2>2. QED
      BY <1>1, <2>1 DEF UnderWay, Starting, Open, Exists, IInv, AbsentTells
  <1>3. ASSUME NEW f \in Files PROVE active[f].bytes = before[m][f] /\ ~Swapped(m, f)
    <2>1. active[f].bytes = before[m][f]
      BY DEF BeginCommit, LiveIs
    <2>2. PICK past \in SUBSET Contents : Explains(past, f)
      BY DEF IInv, HistoryTells
    <2>3. QED
      BY <2>1, <2>2 DEF Explains, Swapped
  <1>4. QED
    BY <1>2, <1>3 DEF BeginCommit, diskVars, worldVars

(* Only an exchange changes a file, and it puts the new bytes there.       *)
LEMMA FilesStep ==
  ASSUME Editable = {}, IInv, [Next]_vars
  PROVE  \/ active' = active
         \/ /\ op.pc = "swap" /\ Open(op.id) /\ op.id \in Mutations
            /\ UNCHANGED <<final, staging, before>>
            /\ \E f \in Touches[op.id] : active' = [active EXCEPT ![f] = New(op.id)]
  <1>1. CASE Swap
    <2> DEFINE f == First(op.left)
    <2>1. op.pc = "swap" /\ op.id \in Mutations /\ f \in op.left /\ f \in Touches[op.id]
      BY <1>1, LoopFile DEF IInv, OpTells, Swap, Loops
    <2>2. Rewritten(f)
      BY <2>1 DEF IInv, OpTells, OpTemps, ToSwap
    <2>3. final[op.id].phase = "applying"
      BY <2>1 DEF IInv, OpTells, OpRecords, OpPhases
    <2>4. Open(op.id)
      BY <2>3 DEF Open, Absent, TerminalPhases
    <2>5. QED
      BY <1>1, <2>1, <2>2, <2>4 DEF Swap, Rewritten, worldVars
  <1>2. CASE Step /\ ~Swap
    BY <1>2 DEF Step, Prepare, Clone, Truncate, Rewrite, Recheck, Load, WriteStaging,
      Rename, Verify, CheckLive, Clean, InspectUnpublished, InspectApplying,
      InspectPublished, InspectTerminal, Discard, diskVars
  <1>3. ~ \E f \in Files : Edit(f)
    BY DEF Edit
  <1>4. CASE \/ Crash \/ StepFails \/ CloneFails \/ ShortWrite \/ RenameFails \/ CancelRequest
             \/ \E n \in Mutations : Plan(n) \/ BeginCommit(n) \/ BeginRecover(n)
                                     \/ Receipt(n) \/ Prune(n)
             \/ \E f \in Files, n \in Mutations : TempVanishes(n, f)
             \/ UNCHANGED vars
    BY <1>4 DEF Crash, StepFails, CloneFails, ShortWrite, RenameFails, CancelRequest, Plan,
      BeginCommit, BeginRecover, Receipt, Prune, TempVanishes, diskVars, vars
  <1>5. QED
    BY <1>1, <1>2, <1>3, <1>4 DEF Next

LEMMA PlansStep ==
  ASSUME IInv, [Next]_vars, NEW m \in Mutations, before[m] # NoPlan
  PROVE  before'[m] = before[m]
  <1>1. CASE \E n \in Mutations : Plan(n)
    BY <1>1 DEF Plan, IInv, TypeOK
  <1>2. CASE Step
    BY <1>2 DEF Step, Prepare, Clone, Truncate, Rewrite, Recheck, Load, WriteStaging,
      Rename, Swap, Verify, CheckLive, Clean, InspectUnpublished, InspectApplying,
      InspectPublished, InspectTerminal, Discard, worldVars
  <1>3. CASE \/ Crash \/ StepFails \/ CloneFails \/ ShortWrite \/ RenameFails \/ CancelRequest
             \/ \E n \in Mutations : BeginCommit(n) \/ BeginRecover(n) \/ Receipt(n) \/ Prune(n)
             \/ \E f \in Files : Edit(f) \/ \E n \in Mutations : TempVanishes(n, f)
             \/ UNCHANGED vars
    BY <1>3 DEF Crash, StepFails, CloneFails, ShortWrite, RenameFails, CancelRequest,
      BeginCommit, BeginRecover, Receipt, Prune, Edit, TempVanishes, vars, worldVars
  <1>4. QED
    BY <1>1, <1>2, <1>3 DEF Next

LEMMA AInvStep ==
  ASSUME Editable = {}, IInv, AInv, [Next]_vars
  PROVE  AInv'
  <1>1. PhasesFit'
    BY PhasesFitStep DEF AInv
  <1>2. OneUnderWay'
    <2> SUFFICES ASSUME NEW m \in Mutations, NEW n \in Mutations, UnderWay(m)', UnderWay(n)'
                 PROVE  m = n
      BY DEF OneUnderWay
    <2>1. /\ UnderWay(m) \/ BeginCommit(m)
          /\ UnderWay(n) \/ BeginCommit(n)
      BY UnderWayStep DEF AInv
    <2>2. BeginCommit(m) /\ BeginCommit(n) => m = n
      BY DEF BeginCommit
    <2>3. QED
      BY <2>1, <2>2, CommitStarts DEF AInv, OneUnderWay
  <1>3. UnderReview'
    <2> SUFFICES ASSUME NEW m \in Mutations, UnderWay(m)' PROVE Reviewed(m)'
      BY DEF UnderReview
    <2>1. CASE BeginCommit(m)
      BY <2>1, CommitStarts DEF Reviewed, Swapped
    <2>2. CASE UnderWay(m)
      <3>1. Reviewed(m) /\ before'[m] = before[m]
        BY <2>2, PlansStep DEF AInv, UnderReview, Reviewed
      <3>2. CASE active' = active
        BY <3>1, <3>2 DEF Reviewed, Swapped
      <3>3. CASE active' # active
        <4>1. PICK f \in Touches[op.id] : active' = [active EXCEPT ![f] = New(op.id)]
          BY <3>3, FilesStep
        <4>2. op.id = m
          BY <2>2, <3>3, FilesStep DEF AInv, OneUnderWay, UnderWay
        <4>3. /\ active'[f] = New(m)
              /\ \A g \in Files \ {f} : active'[g] = active[g]
          BY <4>1, <4>2, JournalAssumption DEF IInv, TypeOK
        <4>4. QED
          BY <3>1, <4>3 DEF Reviewed, Swapped, New
      <3>4. QED
        BY <3>2, <3>3
    <2>3. QED
      BY <2>1, <2>2, UnderWayStep DEF AInv
  <1>4. WholeBytes'
    <2>1. CASE active' = active
      BY <2>1 DEF AInv, WholeBytes
    <2>2. CASE active' # active
      <3>1. PICK f \in Touches[op.id] : active' = [active EXCEPT ![f] = New(op.id)]
        BY <2>2, FilesStep
      <3>2. op.id \in Mutations
        BY <2>2, FilesStep
      <3>3. QED
        BY <3>1, <3>2 DEF AInv, WholeBytes, IInv, TypeOK, New
    <2>3. QED
      BY <2>1, <2>2
  <1>5. QED
    BY <1>1, <1>2, <1>3, <1>4 DEF AInv

LEMMA AInvInit == Init => AInv
  <1> SUFFICES ASSUME Init PROVE AInv
    OBVIOUS
  <1>1. \A m \in Mutations : final[m] = Absent /\ staging[m] = Absent
    BY DEF Init
  <1>2. op.pc = "idle"
    BY IdleFields DEF Init
  <1>3. \A m \in Mutations : ~UnderWay(m)
    BY <1>1, <1>2 DEF UnderWay, Starting, Open
  <1>4. PhasesFit
    BY <1>1, <1>2 DEF PhasesFit, Fits, Absent, Running
  <1>5. WholeBytes
    BY DEF WholeBytes, Init
  <1>6. QED
    BY <1>3, <1>4, <1>5 DEF AInv, OneUnderWay, UnderReview

-----------------------------------------------------------------------------
(* Each step is one of AtomicWorkspace or none.                            *)

LEMMA OutcomeIs ==
  ASSUME NEW m \in Mutations
  PROVE  /\ Outcome(m) = "applied" <=> Open(m) /\ \E f \in Touches[m] : Swapped(m, f)
         /\ Outcome(m) \in {"pending", "applied"} <=> Open(m)
         /\ ~Open(m) => Outcome(m) = IF final[m] = Absent THEN "none" ELSE final[m].phase
  <1>1. ~Open(m) => final[m] = Absent \/ final[m].phase \in TerminalPhases
    BY DEF Open
  <1>2. QED
    BY <1>1 DEF Outcome, TerminalPhases

LEMMA HalfwayIs ==
  ASSUME OneUnderWay
  PROVE  /\ \A m \in Mutations : Outcome(m) = "applied" => Halfway = {m}
         /\ (\A m \in Mutations : Outcome(m) # "applied") => Halfway = {}
  BY OutcomeIs DEF Halfway, OneUnderWay, UnderWay

world == [f \in Files |-> World(f)]
outcomes == [m \in Mutations |-> Outcome(m)]
view == <<world, before, outcomes>>

(* The records, the operation and the temporaries may change unseen.       *)
LEMMA Unseen ==
  ASSUME UNCHANGED <<active, before>>, \A m \in Mutations : Outcome(m)' = Outcome(m)
  PROVE  UNCHANGED view
  <1>1. outcomes' = outcomes /\ Halfway' = Halfway
    BY DEF outcomes, Halfway
  <1>2. world' = world
    BY <1>1 DEF world, World, After
  <1>3. QED
    BY <1>1, <1>2 DEF view

LEMMA OutcomeKept ==
  ASSUME NEW m \in Mutations, active' = active,
         \/ final'[m] = final[m] /\ staging'[m] = staging[m]
         \/ Open(m) /\ Open(m)'
  PROVE  Outcome(m)' = Outcome(m)
  BY DEF Outcome, Open, Swapped

(* What a claim of an open mutation says of its files.                     *)
LEMMA ClaimShows ==
  ASSUME IInv, AInv, NEW m \in Mutations, NEW f \in Files
  PROVE  /\ Swapped(m, f) => f \in Touches[m]
         /\ Claims(m) \cap NoEffect # {} => ~Swapped(m, f)
         /\ f \in Touches[m] /\ Open(m) /\ "committed" \in Claims(m) => Swapped(m, f)
         /\ Open(m) => active[f].bytes = IF Swapped(m, f) THEN m ELSE before[m][f]
  <1>1. PICK past \in SUBSET Contents : Explains(past, f)
    BY DEF IInv, HistoryTells
  <1>2. Swapped(m, f) => f \in Touches[m] /\ ~MustBeNew(m, f)
    BY <1>1 DEF Explains, Swapped
  <1>3. Open(m) => active[f].bytes = IF Swapped(m, f) THEN m ELSE before[m][f]
    BY DEF AInv, UnderReview, UnderWay, Reviewed
  <1>4. MustBeSeen(m, f) => active[f].bytes # before[m][f]
    BY HistoryShows
  <1>5. QED
    BY <1>2, <1>3, <1>4 DEF MustBeNew, MustBeSeen

LEMMA ApplyView ==
  ASSUME Editable = {}, IInv, AInv, [Next]_vars, active' # active
  PROVE  UNCHANGED view \/ \E m \in Mutations : Atomic!Apply(m)
  <1>1. PICK m \in Mutations : m = op.id
    BY FilesStep
  <1>2. Open(m) /\ UNCHANGED <<final, staging, before>>
    BY <1>1, FilesStep
  <1>3. PICK f \in Touches[m] : active' = [active EXCEPT ![f] = New(m)]
    BY <1>1, FilesStep
  <1>4. /\ f \in Files /\ active'[f] = New(m)
        /\ \A g \in Files \ {f} : active'[g] = active[g]
        /\ Touches[m] \subseteq Files
    BY <1>3, JournalAssumption DEF IInv, TypeOK
  <1>5. Open(m)' /\ Swapped(m, f)' /\ \A g \in Files : Swapped(m, g) => Swapped(m, g)'
    BY <1>2, <1>4 DEF Open, Swapped, New
  <1>6. Outcome(m)' = "applied"
    BY <1>5 DEF Outcome
  <1>7. ASSUME NEW n \in Mutations \ {m} PROVE Outcome(n)' = Outcome(n) /\ Outcome(n) # "applied"
    <2>1. ~Open(n)
      BY <1>2 DEF AInv, OneUnderWay, UnderWay
    <2>2. QED
      BY <1>2, <2>1, OutcomeIs DEF Outcome, Open
  <1>8. Halfway' = {m}
    BY <1>6, <1>7 DEF Halfway
  <1>9. world' = [g \in Files |-> After(m, g)]
    BY <1>2, <1>8 DEF world, World, After
  <1>10. CASE Outcome(m) = "applied"
    <2>1. outcomes' = outcomes /\ Halfway = {m}
      BY <1>6, <1>7, <1>10 DEF outcomes, Halfway
    <2>2. world = [g \in Files |-> After(m, g)]
      BY <2>1 DEF world, World
    <2>3. QED
      BY <1>2, <1>9, <2>1, <2>2 DEF view
  <1>11. CASE Outcome(m) # "applied"
    <2>1. Outcome(m) = "pending" /\ \A g \in Files : ~Swapped(m, g)
      BY <1>2, <1>11, OutcomeIs, ClaimShows
    <2>2. Halfway = {}
      BY <1>7, <1>11 DEF Halfway
    <2>3. \A g \in Files : World(g) = before[m][g]
      BY <1>2, <2>1, <2>2, ClaimShows DEF World
    <2>4. before[m] = [g \in Files |-> before[m][g]]
      BY DEF IInv, TypeOK
    <2>5. world = before[m]
      BY <2>3, <2>4 DEF world
    <2>6. world' = Atomic!Result(m)
      BY <1>9 DEF After, Atomic!Result, Files
    <2>7. outcomes' = [outcomes EXCEPT ![m] = "applied"] /\ outcomes[m] = "pending"
      BY <1>6, <1>7, <2>1 DEF outcomes
    <2>8. Atomic!Apply(m)
      BY <1>2, <2>5, <2>6, <2>7 DEF Atomic!Apply, world, outcomes
    <2>9. QED
      BY <2>8
  <1>12. QED
    BY <1>10, <1>11

(* The records of one mutation change, no file does.                       *)
OnlyRecordOf(m) ==
  /\ UNCHANGED <<active, before>>
  /\ \A n \in Mutations \ {m} : final'[n] = final[n] /\ staging'[n] = staging[n]

LEMMA OthersKept ==
  ASSUME NEW m \in Mutations, OnlyRecordOf(m)
  PROVE  \A n \in Mutations \ {m} : Outcome(n)' = Outcome(n)
  BY OutcomeKept DEF OnlyRecordOf

LEMMA SettleView ==
  ASSUME IInv, AInv, NEW m \in Mutations, OnlyRecordOf(m), Open(m),
         final'[m].phase \in Claims(m) \cap TerminalPhases, staging'[m] = Absent
  PROVE  Atomic!Settle(m)
  <1> DEFINE phase == final'[m].phase
  <1>1. \A n \in Mutations \ {m} : Outcome(n)' = Outcome(n) /\ Outcome(n) # "applied"
    <2>1. \A n \in Mutations \ {m} : ~Open(n)
      BY DEF AInv, OneUnderWay, UnderWay
    <2>2. QED
      BY <2>1, OthersKept, OutcomeIs
  <1>2. final'[m] # Absent /\ ~Open(m)'
    BY DEF TerminalPhases, Absent, Open
  <1>3. Outcome(m)' = phase /\ phase # "applied"
    BY <1>2 DEF Outcome, TerminalPhases
  <1>4. Halfway' = {}
    BY <1>1, <1>3 DEF Halfway
  <1>5. world' = [f \in Files |-> active[f].bytes]
    BY <1>4 DEF world, World, OnlyRecordOf
  <1>6. outcomes' = [outcomes EXCEPT ![m] = phase] /\ outcomes[m] = Outcome(m)
    BY <1>1, <1>3 DEF outcomes
  <1>7. Fits(m, phase) /\ Touches[m] \subseteq Files
    BY JournalAssumption DEF AInv, PhasesFit, Claims, On
  <1>8. CASE phase = "committed"
    <2>1. \A f \in Files : Swapped(m, f) <=> f \in Touches[m]
      BY <1>8, ClaimShows
    <2>2. \E f \in Touches[m] : Swapped(m, f)
      BY <1>7, <1>8, <2>1 DEF Fits
    <2>3. Outcome(m) = "applied"
      BY <2>2 DEF Outcome
    <2>4. Halfway = {m}
      BY <1>1, <2>3 DEF Halfway
    <2>5. \A f \in Files : World(f) = active[f].bytes
      BY <2>1, <2>4, ClaimShows DEF World, After
    <2>6. world' = world
      BY <1>5, <2>5 DEF world
    <2>7. QED
      BY <1>6, <1>8, <2>3, <2>6 DEF Atomic!Settle, world, outcomes, OnlyRecordOf
  <1>9. CASE phase \in {"aborted", "no_change"}
    <2>1. \A f \in Files : ~Swapped(m, f)
      BY <1>9, ClaimShows DEF NoEffect
    <2>2. Outcome(m) = "pending"
      BY <1>7, <2>1 DEF Outcome
    <2>3. Halfway = {}
      BY <1>1, <2>2 DEF Halfway
    <2>4. world' = world
      BY <1>5, <2>3 DEF world, World
    <2>5. phase = IF Touches[m] = {} THEN "no_change" ELSE "aborted"
      BY <1>7, <1>9 DEF Fits
    <2>6. QED
      BY <1>6, <2>2, <2>4, <2>5 DEF Atomic!Settle, world, outcomes, OnlyRecordOf
  <1>10. QED
    BY <1>8, <1>9 DEF TerminalPhases

LEMMA BeginView ==
  ASSUME IInv, AInv, NEW m \in Mutations, Starting(m), OnlyRecordOf(m),
         final'[m].phase \notin TerminalPhases \cup {"absent"}
  PROVE  Atomic!Begin(m)
  <1>1. \A n \in Mutations \ {m} : ~Open(n)
    BY DEF AInv, OneUnderWay, UnderWay
  <1>2. final[m] = Absent /\ staging[m] = Absent /\ op.body.phase = "prepared"
    BY DEF Starting, IInv, OpTells, OpRecords, OpPhases
  <1>3. ~Open(m) /\ Outcome(m) = "none"
    BY <1>2 DEF Open, Outcome
  <1>4. \A f \in Files : ~Swapped(m, f)
    <2>1. Claims(m) \cap NoEffect # {}
      BY <1>2 DEF Claims, On, Running, Starting, NoEffect, Unpublished
    <2>2. QED
      BY <2>1, ClaimShows
  <1>5. Open(m)' /\ \A f \in Touches[m] : ~Swapped(m, f)'
    BY <1>4, JournalAssumption DEF Open, Absent, Swapped, OnlyRecordOf
  <1>6. Outcome(m)' = "pending"
    BY <1>5 DEF Outcome
  <1>7. outcomes' = [outcomes EXCEPT ![m] = "pending"] /\ outcomes[m] = "none"
    BY <1>3, <1>6, OthersKept DEF outcomes
  <1>8. \A n \in Mutations : outcomes[n] \notin {"pending", "applied"}
    BY <1>1, <1>3, OutcomeIs DEF outcomes
  <1>9. Halfway = {} /\ Halfway' = {}
    BY <1>3, <1>6, <1>8, OthersKept DEF Halfway, outcomes
  <1>10. world' = world
    BY <1>9 DEF world, World, OnlyRecordOf
  <1>11. before[m] # NoPlan
    BY DEF AInv, UnderReview, UnderWay, Reviewed
  <1>12. QED
    BY <1>7, <1>8, <1>10, <1>11
      DEF Atomic!Begin, Atomic!NoPlan, NoPlan, Files, world, outcomes, OnlyRecordOf

LEMMA ForgetView ==
  ASSUME IInv, AInv, NEW m \in Mutations, Prune(m)
  PROVE  Atomic!Forget(m)
  <1>1. OnlyRecordOf(m) /\ final'[m] = Absent /\ staging'[m] = staging[m]
    BY DEF Prune, OnlyRecordOf, worldVars, IInv, TypeOK
  <1>2. staging[m] = Absent /\ final[m].phase \in TerminalPhases /\ final[m] # Absent
    <2>1. final[m].phase \in TerminalPhases /\ staging[m] = Absent
      BY DEF Prune, IInv, AbsentTells
    <2>2. QED
      BY <2>1 DEF Absent, TerminalPhases
  <1>3. Outcome(m) = final[m].phase /\ Outcome(m)' = "none"
    BY <1>1, <1>2 DEF Outcome, Open
  <1>4. outcomes' = [outcomes EXCEPT ![m] = "none"] /\ outcomes[m] = final[m].phase
    BY <1>1, <1>3, OthersKept DEF outcomes
  <1>5. Halfway' = Halfway
    BY <1>1, <1>2, <1>3, OthersKept DEF Halfway, TerminalPhases
  <1>6. world' = world
    BY <1>1, <1>5 DEF world, World, After, OnlyRecordOf
  <1>7. QED
    BY <1>1, <1>2, <1>4, <1>6 DEF Atomic!Forget, TerminalPhases, world, outcomes, OnlyRecordOf

LEMMA ReviewView ==
  ASSUME IInv, AInv, NEW m \in Mutations, Plan(m)
  PROVE  Atomic!Review(m)
  <1>1. /\ before[m] = NoPlan /\ UNCHANGED <<active, final, staging>>
        /\ before' = [before EXCEPT ![m] = [f \in Files |-> active[f].bytes]]
    BY DEF Plan, diskVars
  <1>2. outcomes' = outcomes /\ Halfway' = Halfway
    BY <1>1, OutcomeKept DEF outcomes, Halfway
  <1>3. world' = world
    <2>1. CASE Halfway = {}
      BY <1>1, <1>2, <2>1 DEF world, World
    <2>2. CASE Halfway # {}
      <3>1. PICK n \in Mutations : Halfway = {n} /\ Open(n)
        BY <2>2, HalfwayIs, OutcomeIs DEF Halfway, AInv
      <3>2. before'[n] = before[n]
        BY <1>1, <3>1 DEF AInv, UnderReview, UnderWay, Reviewed, IInv, TypeOK
      <3>3. QED
        BY <1>2, <3>1, <3>2 DEF world, World, After
    <2>3. QED
      BY <2>1, <2>2
  <1>4. [f \in Files |-> active[f].bytes] \in [1 .. FileCount -> Atomic!Bytes]
    BY DEF AInv, WholeBytes, Files, Atomic!Bytes
  <1>5. QED
    BY <1>1, <1>2, <1>3, <1>4
      DEF Atomic!Review, Atomic!NoPlan, NoPlan, Files, world, outcomes

LEMMA RecoverView ==
  ASSUME IInv, AInv, NEW m \in Mutations, BeginRecover(m)
  PROVE  UNCHANGED view \/ Atomic!Settle(m)
  <1>1. OnlyRecordOf(m) /\ final'[m] = Stored(m) /\ staging'[m] = Absent
    BY DEF BeginRecover, OnlyRecordOf, worldVars, IInv, TypeOK
  <1>2. CASE ~Exists(staging[m])
    <2>1. staging[m] = Absent /\ final'[m] = final[m]
      BY <1>1, <1>2 DEF Stored, IInv, AbsentTells
    <2>2. QED
      BY <1>1, <2>1, OutcomeKept, OthersKept, Unseen DEF OnlyRecordOf
  <1>3. CASE Exists(staging[m])
    <2>1. final'[m] = staging[m] /\ Open(m) /\ staging[m].phase \in Claims(m)
      BY <1>1, <1>3 DEF Stored, Open, Exists, Absent, Claims
    <2>2. CASE staging[m].phase \in TerminalPhases
      BY <1>1, <2>1, <2>2, SettleView
    <2>3. CASE staging[m].phase \notin TerminalPhases
      <3>1. Open(m)'
        BY <1>3, <2>1, <2>3 DEF Open, Exists, Absent
      <3>2. QED
        BY <1>1, <2>1, <3>1, OutcomeKept, OthersKept, Unseen DEF OnlyRecordOf
    <2>4. QED
      BY <2>2, <2>3
  <1>4. QED
    BY <1>2, <1>3

(* persist: an operation on its record settles the mutation with a         *)
(* terminal phase, and keeps it under way otherwise.                       *)
LEMMA PersistView ==
  ASSUME IInv, AInv, Load \/ WriteStaging \/ Rename \/ RenameFails
  PROVE  UNCHANGED view \/ Atomic!Settle(op.id)
  <1>0. PICK m \in Mutations : m = op.id
    BY DEF IInv, TypeOK, Operation
  <1>1. m = op.id /\ final \in [Mutations -> Body] /\ staging \in [Mutations -> Body]
    BY <1>0 DEF IInv, TypeOK
  <1>2. op.pc \in Persisting /\ OnlyRecordOf(m)
    BY <1>1 DEF Load, WriteStaging, Rename, RenameFails, Persisting, OnlyRecordOf, worldVars
  <1>3. Open(m)
    BY <1>0, <1>2, PersistingIsOpen
  <1>4. op.body.phase \in Phases /\ op.body.phase \in Claims(m)
    BY <1>0, <1>2 DEF IInv, OpTells, OpPhases, Persisting, Claims, On, Running
  <1>5. ASSUME Open(m)' PROVE UNCHANGED view
    BY <1>1, <1>2, <1>3, <1>5, OutcomeKept, OthersKept, Unseen DEF OnlyRecordOf
  <1>6. CASE Load
    <2>1. CASE ~Exists(staging[m])
      <3>1. staging[m] = Absent /\ Stored(m) = final[m]
        BY <1>1, <2>1 DEF Stored, IInv, AbsentTells
      <3>2. final'[m] = final[m] /\ staging'[m] = staging[m]
        BY <1>1, <1>6, <3>1 DEF Load
      <3>3. QED
        BY <1>3, <1>5, <3>2 DEF Open
    <2>2. CASE Exists(staging[m])
      <3>1. staging[m].phase \in {"torn"} \cup Undoable
        BY <1>0, <1>6, <2>2 DEF IInv, OpTells, OpRecords, Load
      <3>2. \/ final'[m] = final[m] /\ staging'[m] = staging[m]
            \/ final'[m] = staging[m]
        BY <1>1, <1>6, <2>2 DEF Load, Stored
      <3>3. Open(m)'
        BY <1>3, <3>1, <3>2 DEF Open, Undoable, TerminalPhases, Absent
      <3>4. QED
        BY <1>5, <3>3
    <2>3. QED
      BY <2>1, <2>2
  <1>7. CASE WriteStaging
    <2>1. staging'[m] = op.body /\ op.body # Absent
      BY <1>1, <1>4, <1>7 DEF WriteStaging, Phases, Unpublished, TerminalPhases, Absent
    <2>2. QED
      BY <1>5, <2>1 DEF Open
  <1>8. CASE Rename \/ RenameFails
    <2>1. final'[m] = op.body /\ staging'[m] = Absent
      BY <1>1, <1>8 DEF Rename, RenameFails, IInv, OpTells, OpRecords
    <2>2. CASE op.body.phase \in TerminalPhases
      BY <1>1, <1>2, <1>3, <1>4, <2>1, <2>2, SettleView
    <2>3. CASE op.body.phase \notin TerminalPhases
      <3>1. Open(m)'
        BY <1>4, <2>1, <2>3 DEF Open, Phases, Unpublished, Absent
      <3>2. QED
        BY <1>5, <3>1
    <2>4. QED
      BY <2>2, <2>3
  <1>9. QED
    BY <1>6, <1>7, <1>8

(* The first record, whole or torn, puts the mutation under way.           *)
LEMMA PrepareView ==
  ASSUME IInv, AInv, Prepare \/ ShortWrite
  PROVE  UNCHANGED view \/ Atomic!Begin(op.id)
  <1>0. PICK m \in Mutations : m = op.id
    BY DEF IInv, TypeOK, Operation
  <1>1. m = op.id /\ final \in [Mutations -> Body] /\ staging \in [Mutations -> Body]
    BY <1>0 DEF IInv, TypeOK
  <1>2. OnlyRecordOf(m)
    BY <1>1 DEF Prepare, ShortWrite, OnlyRecordOf, worldVars
  <1>3. CASE op.pc = "prepare"
    <2>1. op.body.phase = "prepared"
      BY <1>3 DEF IInv, OpTells, OpPhases
    <2>2. final'[m] \in {op.body, Torn}
      BY <1>1, <1>3 DEF Prepare, ShortWrite
    <2>3. final'[m].phase \notin TerminalPhases \cup {"absent"}
      BY <2>1, <2>2 DEF TerminalPhases, Torn, Absent
    <2>4. Starting(m)
      BY <1>0, <1>3 DEF Starting
    <2>5. QED
      BY <1>1, <1>2, <2>3, <2>4, BeginView
  <1>4. CASE op.pc # "prepare"
    <2>1. op.pc = "write" /\ staging'[m] = Torn
      BY <1>1, <1>4 DEF Prepare, ShortWrite
    <2>2. Open(m) /\ Open(m)'
      BY <1>0, <2>1, PersistingIsOpen DEF Persisting, Open, Torn, Absent
    <2>3. QED
      BY <1>2, <2>2, OutcomeKept, OthersKept, Unseen DEF OnlyRecordOf
  <1>5. QED
    BY <1>3, <1>4

LEMMA ViewStep ==
  ASSUME Editable = {}, IInv, AInv, [Next]_vars
  PROVE  UNCHANGED view \/ Atomic!Next
  <1>1. op.id \in Mutations
    BY DEF IInv, TypeOK, Operation
  <1>2. ASSUME UNCHANGED <<active, before, final, staging>> PROVE UNCHANGED view
    BY <1>2, OutcomeKept, Unseen
  <1>3. CASE active' # active
    BY <1>3, ApplyView DEF Atomic!Next
  <1>4. CASE \E m \in Mutations : Plan(m) \/ Prune(m) \/ BeginRecover(m)
    BY <1>4, ReviewView, ForgetView, RecoverView DEF Atomic!Next
  <1>5. CASE Load \/ WriteStaging \/ Rename \/ RenameFails
    BY <1>1, <1>5, PersistView DEF Atomic!Next
  <1>6. CASE Prepare \/ ShortWrite
    BY <1>1, <1>6, PrepareView DEF Atomic!Next
  <1>7. CASE active' = active /\ Step /\ ~(Load \/ WriteStaging \/ Rename \/ Prepare)
    BY <1>2, <1>7 DEF Step, Clone, Truncate, Rewrite, Recheck, Swap, Verify, CheckLive, Clean,
      InspectUnpublished, InspectApplying, InspectPublished, InspectTerminal, Discard,
      diskVars, worldVars
  <1>8. CASE \/ Crash \/ StepFails \/ CloneFails \/ CancelRequest
             \/ \E m \in Mutations : BeginCommit(m) \/ Receipt(m)
             \/ \E f \in Files, m \in Mutations : TempVanishes(m, f)
             \/ UNCHANGED vars
    BY <1>2, <1>8 DEF Crash, StepFails, CloneFails, CancelRequest, BeginCommit, Receipt,
      TempVanishes, diskVars, worldVars, vars
  <1>9. ~ \E f \in Files : Edit(f)
    BY DEF Edit
  <1>10. QED
    BY <1>3, <1>4, <1>5, <1>6, <1>7, <1>8, <1>9 DEF Next

LEMMA ViewInit == Init => Atomic!Init
  <1> SUFFICES ASSUME Init PROVE Atomic!Init
    OBVIOUS
  <1>1. \A m \in Mutations : Outcome(m) = "none"
    BY DEF Init, Outcome, Open
  <1>2. outcomes = [m \in Mutations |-> "none"] /\ Halfway = {}
    BY <1>1 DEF outcomes, Halfway
  <1>3. world = [f \in Files |-> "base"]
    BY <1>2 DEF world, World, Init
  <1>4. QED
    BY <1>2, <1>3 DEF Atomic!Init, Atomic!NoPlan, NoPlan, Init, Files, world, outcomes

(* reject_new_commit, recheck: without an editor one mutation is under way *)
(* at a time, over files that hold its bytes where it exchanged them and   *)
(* exactly the bytes it was reviewed against everywhere else.              *)
THEOREM OneMutationUnderWay ==
  ASSUME Editable = {}
  PROVE  Spec => []AInv
  <1>1. IInv /\ AInv /\ [Next]_vars => AInv'
    BY AInvStep
  <1>2. QED
    BY <1>1, AInvInit, JournalInvariant, PTL DEF Spec

(* commit_checked, recover_locked_checked: without an editor the journal   *)
(* implements mutations that apply to all their files in one step or to    *)
(* none, one at a time, and only to the bytes they were reviewed against:  *)
(* for any files, any mutations, any crash, torn record or lost temporary. *)
THEOREM JournalImplementsAtomic ==
  ASSUME Editable = {}
  PROVE  Spec => ImplementsAtomic
  <1>1. IInv /\ AInv /\ [Next]_vars => [Atomic!Next]_view
    BY ViewStep
  <1>2. [Atomic!Next]_view <=> [Atomic!Next]_<<world, before, outcomes>>
    BY DEF view
  <1>3. QED
    BY <1>1, <1>2, ViewInit, JournalInvariant, OneMutationUnderWay, PTL
      DEF Spec, ImplementsAtomic, Atomic!Spec, world, outcomes
=============================================================================
