--------------------------- MODULE MutationJournal ---------------------------
(***************************************************************************)
(* The mutation writer of the project adapter: a reviewed plan of file     *)
(* replacements is applied to a workspace with a journal record per        *)
(* mutation, a temporary per file, an exchange of each file with its       *)
(* temporary, and a recovery that finishes or discards what a crash or an  *)
(* error left behind.                                                      *)
(*                                                                         *)
(* One operation runs at a time: commit, recover and replay hold the       *)
(* exclusive lock of the store and of the workspace, and a second          *)
(* operation fails at once.  Between two changes to the disk the process   *)
(* may die, and an editor, which no lock excludes, may save a file.        *)
(* Bytes are abstract: the original ones, those a mutation writes, those   *)
(* of the editor, and the torn bytes of an interrupted write.              *)
(***************************************************************************)
EXTENDS Naturals, FiniteSets

CONSTANTS
  Mutations,       (* mutation ids                                          *)
  FileCount,       (* the workspace has the files 1 .. FileCount, in order  *)
  Touches,         (* the files whose bytes a mutation changes              *)
  Manifest,        (* mutations of the kind manifest_patch                  *)
  Editable,        (* files the editor may save, once each                  *)
  TempsMayVanish,  (* may somebody remove a temporary                       *)
  MaxFaults        (* crashes and I/O errors in one behaviour               *)

Files == 1 .. FileCount

ASSUME JournalAssumption ==
  /\ Mutations # {}
  /\ Mutations \cap {"base", "user", "torn", "orig", "ext", "none"} = {}
  /\ FileCount \in Nat
  /\ Touches \in [Mutations -> SUBSET Files]
  /\ Manifest \subseteq Mutations
  /\ Editable \subseteq Files
  /\ TempsMayVanish \in BOOLEAN
  /\ MaxFaults \in Nat

VARIABLES
  active,          (* the file under its own name: bytes and inode          *)
  temp,            (* the temporary of a mutation for a file                *)
  final,           (* journal-<id>.json                                     *)
  staging,         (* .journal-<id>.json.staging                            *)
  before,          (* the bytes a mutation's candidate was reviewed against *)
  op,              (* the operation that holds the locks                    *)
  told,            (* the last outcome a caller was given for a mutation    *)
  edited,          (* files the editor has saved                            *)
  faults

diskVars == <<active, temp, final, staging>>
worldVars == <<before, edited>>
vars == <<active, temp, final, staging, before, op, told, edited, faults>>

-----------------------------------------------------------------------------
(* Data.                                                                   *)

Contents == Mutations \cup {"base", "user", "torn"}
Nodes == Mutations \cup {"orig", "ext"}
FileState == [bytes : Contents, node : Nodes]
NoTemp == [bytes |-> "none", node |-> "none"]

Unpublished == {"prepared", "scratch", "staged", "aborted_cleanup"}
TerminalPhases == {"committed", "no_change", "aborted"}
Phases == Unpublished \cup {"applying", "published"} \cup TerminalPhases

(* Fault: an undo ranks below the phases it undoes.                        *)
RankUndoLow(phase) ==
  CASE phase \in {"prepared", "aborted_cleanup", "aborted", "no_change"} -> 0
    [] phase = "scratch"  -> 1
    [] phase = "staged"   -> 2
    [] phase = "applying" -> 3
    [] OTHER              -> 4

(* JournalPhase::rank, the order a staging record must respect.            *)
Rank(phase) ==
  CASE phase = "prepared" -> 0
    [] phase = "scratch"  -> 1
    [] phase = "staged"   -> 2
    [] phase = "applying" -> 3
    [] OTHER              -> 4

(* A record: its phase, the files whose temporary is bound to an inode     *)
(* (the inode a mutation clones carries its id) and the inode of each file *)
(* when the commit began.  A record that does not decode is torn.          *)
Body == [phase : Phases \cup {"absent", "torn"}, staged : SUBSET Files,
         source : [Files -> Nodes]]
Absent == [phase |-> "absent", staged |-> {}, source |-> [f \in Files |-> "orig"]]
Torn == [Absent EXCEPT !.phase = "torn"]

Exists(r) == r.phase # "absent"
NoPlan == [f \in Files |-> "none"]

(* read_pair: both records decode, and a staging record continues the      *)
(* final one (require_newer_staging, same_binding).                        *)
Continues(new, old) ==
  /\ Rank(new.phase) >= Rank(old.phase)
  /\ old.staged \subseteq new.staged
  /\ old.source = new.source
Readable(m) ==
  /\ final[m].phase # "torn"
  /\ staging[m].phase # "torn"
  /\ Exists(final[m]) /\ Exists(staging[m]) => Continues(staging[m], final[m])

(* What load_repair finds: the staging record wins.                        *)
Stored(m) == IF Exists(staging[m]) THEN staging[m] ELSE final[m]

(* reject_new_commit: a record that keeps other mutations out.             *)
Unfinished(m) ==
  \/ Exists(staging[m])
  \/ Exists(final[m]) /\ final[m].phase \notin TerminalPhases

After(m, f) == IF f \in Touches[m] THEN m ELSE before[m][f]
UnchangedPhase(m) == IF Touches[m] = {} THEN "no_change" ELSE "aborted"

Pristine(b, m, f) == active[f] = [bytes |-> before[m][f], node |-> b.source[f]]

(* Fault: the displaced bytes are not compared.                            *)
PublishedAnyDisplaced(b, m, f) ==
  /\ active[f] = [bytes |-> m, node |-> m]
  /\ temp[m][f].node = b.source[f]

(* verify_swap, cleanup_temp and the recovery of a prefix share this test: *)
(* the new bytes are in place, the displaced file is the reviewed one.     *)
Published(b, m, f) ==
  /\ active[f] = [bytes |-> m, node |-> m]
  /\ temp[m][f] = [bytes |-> before[m][f], node |-> b.source[f]]
Pending(b, m, f) ==
  /\ Pristine(b, m, f)
  /\ temp[m][f] = [bytes |-> m, node |-> m]

(* The bundle source_excluding captures: every file, the temporaries that  *)
(* are not excluded as files of their own.                                 *)
ForeignTemps(m) == {n \in Mutations \ {m} : \E f \in Files : temp[n][f] # NoTemp}
LiveIs(m, bundle) ==
  /\ ForeignTemps(m) = {}
  /\ \A f \in Files : active[f].bytes = bundle[f]

Mixed(m, prefix) == [f \in Files |-> IF f \in prefix THEN After(m, f) ELSE before[m][f]]

-----------------------------------------------------------------------------
(* The operation in progress and where it goes next.  `left` holds the     *)
(* files the current loop has not reached; persist writes body.phase.      *)

Pcs == {"idle", "prepare", "clone", "load", "write", "rename", "truncate",
        "rewrite", "recheck", "swap", "verify", "live", "clean", "inspect",
        "discard"}
Modes == {"commit", "abort", "recover"}
Operation == [pc : Pcs, mode : Modes, id : Mutations, body : Body, left : SUBSET Files]
Idle == [pc |-> "idle", mode |-> "recover", id |-> CHOOSE m \in Mutations : TRUE,
         body |-> Absent, left |-> {}]

Running == op.pc # "idle"
First(files) == CHOOSE f \in files : \A g \in files : f <= g

Persist(o, phase) == [o EXCEPT !.pc = "load", !.body.phase = phase, !.left = {}]

AfterLoop(o) ==
  CASE o.pc = "clone"    -> Persist(o, "scratch")
    [] o.pc = "truncate" -> Persist(o, "staged")
    [] o.pc = "swap"     -> [o EXCEPT !.pc = "live"]
    [] o.pc = "clean"    -> Persist(o, "committed")
    [] o.pc = "discard"  -> Persist(o, UnchangedPhase(o.id))
Loop(o, pc, files) ==
  LET next == [o EXCEPT !.pc = pc, !.left = files]
  IN  IF files = {} THEN AfterLoop(next) ELSE next

(* Fault: the undone mutation is recorded before its temporaries are gone. *)
PersistedNoDiscard(o) ==
  LET phase == o.body.phase
  IN  CASE phase = "scratch"         -> Loop(o, "truncate", Touches[o.id])
        [] phase = "staged"          -> [o EXCEPT !.pc = "recheck"]
        [] phase = "applying"        -> Loop(o, "swap", Touches[o.id])
        [] phase = "published"       -> IF o.mode = "commit"
                                        THEN Loop(o, "clean", Touches[o.id])
                                        ELSE [o EXCEPT !.pc = "inspect"]
        [] phase = "aborted_cleanup" -> Persist(o, UnchangedPhase(o.id))
        [] OTHER                     -> Idle

(* The step after a phase is durable; a terminal phase ends the operation. *)
Persisted(o) ==
  LET phase == o.body.phase
      files == {f \in Touches[o.id] : temp[o.id][f] # NoTemp}
  IN  CASE phase = "scratch"         -> Loop(o, "truncate", Touches[o.id])
        [] phase = "staged"          -> [o EXCEPT !.pc = "recheck"]
        [] phase = "applying"        -> Loop(o, "swap", Touches[o.id])
        [] phase = "published"       -> IF o.mode = "commit"
                                        THEN Loop(o, "clean", Touches[o.id])
                                        ELSE [o EXCEPT !.pc = "inspect"]
        [] phase = "aborted_cleanup" -> Loop(o, "discard", files)
        [] OTHER                     -> Idle

(* Fault: the original error is returned before the undo is complete.      *)
TellEarly(o) ==
  IF o.body.phase \notin TerminalPhases /\ o.mode # "abort" THEN told
  ELSE [told EXCEPT ![o.id] = IF o.mode = "abort" THEN "refused" ELSE o.body.phase]

(* The receipt of an operation that ends with a terminal phase; a commit   *)
(* that was undone returns its original error.                             *)
Tell(o) ==
  IF o.body.phase \notin TerminalPhases THEN told
  ELSE [told EXCEPT ![o.id] = IF o.mode = "abort" THEN "refused" ELSE o.body.phase]

(* An error before the first exchange of a commit is followed by its undo  *)
(* (abort_before_effect, on the body in memory); any other error ends the  *)
(* operation and leaves the rest to a later recovery.                      *)
BeforeEffect(o) ==
  /\ o.mode = "commit"
  /\ \/ o.pc \in {"clone", "truncate", "rewrite", "recheck"}
     \/ o.pc \in {"load", "write", "rename"}
        /\ o.body.phase \in {"scratch", "staged", "applying"}
     \/ o.pc = "swap" /\ o.left = Touches[o.id]
Failed(o) ==
  IF BeforeEffect(o) THEN [o EXCEPT !.mode = "abort", !.pc = "inspect", !.left = {}]
  ELSE Idle

-----------------------------------------------------------------------------
(* Types.                                                                  *)

TypeOK ==
  /\ active \in [Files -> FileState]
  /\ temp \in [Mutations -> [Files -> FileState \cup {NoTemp}]]
  /\ final \in [Mutations -> Body]
  /\ staging \in [Mutations -> Body]
  /\ before \in [Mutations -> [Files -> Contents \cup {"none"}]]
  /\ op \in Operation
  /\ told \in [Mutations -> {"nothing", "refused"} \cup TerminalPhases]
  /\ edited \subseteq Files
  /\ faults \in 0 .. MaxFaults

Init ==
  /\ active = [f \in Files |-> [bytes |-> "base", node |-> "orig"]]
  /\ temp = [m \in Mutations |-> [f \in Files |-> NoTemp]]
  /\ final = [m \in Mutations |-> Absent]
  /\ staging = [m \in Mutations |-> Absent]
  /\ before = [m \in Mutations |-> NoPlan]
  /\ op = Idle
  /\ told = [m \in Mutations |-> "nothing"]
  /\ edited = {}
  /\ faults = 0

-----------------------------------------------------------------------------
(* A commit, up to the exchange.                                           *)

(* A preview captures the workspace.  One taken while temporaries exist    *)
(* would carry them as files, and could only be committed against them.    *)
Plan(m) ==
  /\ before[m] = NoPlan
  /\ \A n \in Mutations, f \in Files : temp[n][f] = NoTemp
  /\ before' = [before EXCEPT ![m] = [f \in Files |-> active[f].bytes]]
  /\ UNCHANGED <<diskVars, op, told, edited, faults>>

(* Fault: a commit does not look for its own earlier record.               *)
BeginCommitAgain(m) ==
  /\ ~Running
  /\ before[m] # NoPlan
  /\ \A n \in Mutations : Readable(n)
  /\ \A n \in Mutations \ {m} : ~Unfinished(n)
  /\ temp[m] = [f \in Files |-> NoTemp]
  /\ LiveIs(m, before[m])
  /\ op' = [pc |-> "prepare", mode |-> "commit", id |-> m, left |-> {},
            body |-> [phase |-> "prepared", staged |-> {},
                      source |-> [f \in Files |-> active[f].node]]]
  /\ told' = [told EXCEPT ![m] = "nothing"]
  /\ UNCHANGED <<diskVars, worldVars, faults>>

(* commit_checked for an id without a record: the whole store must be      *)
(* readable, no other mutation unfinished, the workspace the reviewed one. *)
(* How long a plan may still be committed is not this module's concern: a  *)
(* pruned mutation may be committed again, and is then judged anew.        *)
BeginCommit(m) ==
  /\ ~Running
  /\ before[m] # NoPlan
  /\ ~Exists(final[m]) /\ ~Exists(staging[m])
  /\ \A n \in Mutations : Readable(n)
  /\ \A n \in Mutations \ {m} : ~Unfinished(n)
  /\ temp[m] = [f \in Files |-> NoTemp]
  /\ LiveIs(m, before[m])
  /\ op' = [pc |-> "prepare", mode |-> "commit", id |-> m, left |-> {},
            body |-> [phase |-> "prepared", staged |-> {},
                      source |-> [f \in Files |-> active[f].node]]]
  /\ told' = [told EXCEPT ![m] = "nothing"]
  /\ UNCHANGED <<diskVars, worldVars, faults>>

(* The first record is written in place; nothing to change ends at once.   *)
Prepare ==
  /\ op.pc = "prepare"
  /\ final' = [final EXCEPT ![op.id] = op.body]
  /\ op' = IF Touches[op.id] = {} THEN Persist(op, "no_change")
           ELSE Loop(op, "clone", Touches[op.id])
  /\ UNCHANGED <<active, temp, staging, worldVars, told, faults>>

(* clone_temp_before: the temporary is a clone of the reviewed file.       *)
Clone ==
  LET m == op.id
      f == First(op.left)
      possible == Pristine(op.body, m, f) /\ temp[m][f] = NoTemp
      bound == [op EXCEPT !.body.staged = @ \cup {f}]
  IN  /\ op.pc = "clone"
      /\ temp' = IF possible
                 THEN [temp EXCEPT ![m][f] = [bytes |-> before[m][f], node |-> m]]
                 ELSE temp
      /\ op' = IF possible THEN Loop(bound, "clone", op.left \ {f}) ELSE Failed(op)
      /\ UNCHANGED <<active, final, staging, worldVars, told, faults>>

(* rewrite_temp_after: the clone is emptied, then filled with new bytes;   *)
(* the file must still be the reviewed one before and after.               *)
Truncate ==
  LET m == op.id
      f == First(op.left)
      valid == Pristine(op.body, m, f) /\ temp[m][f] = [bytes |-> before[m][f], node |-> m]
  IN  /\ op.pc = "truncate"
      /\ temp' = IF valid THEN [temp EXCEPT ![m][f].bytes = "torn"] ELSE temp
      /\ op' = IF valid THEN [op EXCEPT !.pc = "rewrite"] ELSE Failed(op)
      /\ UNCHANGED <<active, final, staging, worldVars, told, faults>>

Rewrite ==
  LET m == op.id
      f == First(op.left)
      there == temp[m][f] # NoTemp
  IN  /\ op.pc = "rewrite"
      /\ temp' = IF there THEN [temp EXCEPT ![m][f].bytes = m] ELSE temp
      /\ op' = IF there /\ Pristine(op.body, m, f)
               THEN Loop(op, "truncate", op.left \ {f}) ELSE Failed(op)
      /\ UNCHANGED <<active, final, staging, worldVars, told, faults>>

(* Fault: the exchange starts before Applying is durable.                  *)
RecheckUnjournaled ==
  /\ op.pc = "recheck"
  /\ op' = Loop([op EXCEPT !.body.phase = "applying"], "swap", Touches[op.id])
  /\ UNCHANGED <<diskVars, worldVars, told, faults>>

(* The last look at the workspace and at the request before Applying; only *)
(* a manifest patch may miss a temporary (temp_exclusions).                *)
Recheck ==
  LET m == op.id
      excluded == m \in Manifest \/ \A f \in Touches[m] : temp[m][f] # NoTemp
  IN  /\ op.pc = "recheck"
      /\ op' = IF excluded /\ LiveIs(m, before[m]) THEN Persist(op, "applying")
               ELSE Failed(op)
      /\ UNCHANGED <<diskVars, worldVars, told, faults>>

CancelRequest ==
  /\ op.pc = "recheck"
  /\ op' = Failed(op)
  /\ UNCHANGED <<diskVars, worldVars, told, faults>>

-----------------------------------------------------------------------------
(* persist: repair the pair of records, write the staging record, rename.  *)

Load ==
  LET m == op.id
      stored == Stored(m)
      usable == /\ Readable(m) /\ Exists(stored)
                /\ stored.staged \subseteq op.body.staged
                /\ stored.source = op.body.source
      done == stored.phase = op.body.phase /\ stored.staged = op.body.staged
  IN  /\ op.pc = "load"
      /\ final' = IF usable THEN [final EXCEPT ![m] = stored] ELSE final
      /\ staging' = IF usable THEN [staging EXCEPT ![m] = Absent] ELSE staging
      /\ told' = IF usable /\ done THEN Tell(op) ELSE told
      /\ op' = IF ~usable THEN Failed(op)
               ELSE IF done THEN Persisted(op)
               ELSE [op EXCEPT !.pc = "write"]
      /\ UNCHANGED <<active, temp, worldVars, faults>>

WriteStaging ==
  /\ op.pc = "write"
  /\ staging' = [staging EXCEPT ![op.id] = op.body]
  /\ op' = [op EXCEPT !.pc = "rename"]
  /\ UNCHANGED <<active, temp, final, worldVars, told, faults>>

Rename ==
  /\ op.pc = "rename"
  /\ final' = [final EXCEPT ![op.id] = staging[op.id]]
  /\ staging' = [staging EXCEPT ![op.id] = Absent]
  /\ told' = Tell(op)
  /\ op' = Persisted(op)
  /\ UNCHANGED <<active, temp, worldVars, faults>>

-----------------------------------------------------------------------------
(* The exchange, its verification and the removal of displaced files.      *)

Swap ==
  LET m == op.id
      f == First(op.left)
      there == temp[m][f] # NoTemp
  IN  /\ op.pc = "swap"
      /\ active' = IF there THEN [active EXCEPT ![f] = temp[m][f]] ELSE active
      /\ temp' = IF there THEN [temp EXCEPT ![m][f] = active[f]] ELSE temp
      /\ op' = IF there THEN [op EXCEPT !.pc = "verify"] ELSE Failed(op)
      /\ UNCHANGED <<final, staging, worldVars, told, faults>>

Verify ==
  LET f == First(op.left)
  IN  /\ op.pc = "verify"
      /\ op' = IF Published(op.body, op.id, f) THEN Loop(op, "swap", op.left \ {f})
               ELSE Failed(op)
      /\ UNCHANGED <<diskVars, worldVars, told, faults>>

(* The workspace must be the reviewed result, the temporaries the files    *)
(* that were displaced.                                                    *)
CheckLive ==
  LET m == op.id
      displaced == \A f \in Touches[m] : temp[m][f].node = op.body.source[f]
  IN  /\ op.pc = "live"
      /\ op' = IF displaced /\ LiveIs(m, Mixed(m, Files))
               THEN Persist(op, "published") ELSE Failed(op)
      /\ UNCHANGED <<diskVars, worldVars, told, faults>>

(* cleanup_temp removes a displaced file it recognises; a recovery skips   *)
(* a file whose temporary is already gone.                                 *)
Clean ==
  LET m == op.id
      f == First(op.left)
      gone == op.mode = "recover" /\ temp[m][f] = NoTemp
      known == gone \/ Published(op.body, m, f)
  IN  /\ op.pc = "clean"
      /\ temp' = IF known THEN [temp EXCEPT ![m][f] = NoTemp] ELSE temp
      /\ op' = IF known THEN Loop(op, "clean", op.left \ {f}) ELSE Failed(op)
      /\ UNCHANGED <<active, final, staging, worldVars, told, faults>>

-----------------------------------------------------------------------------
(* Recovery.                                                               *)

(* recover, replay, or a commit of an id that has a record: load_repair    *)
(* promotes a staging record, then the body is recovered.                  *)
BeginRecover(m) ==
  /\ ~Running
  /\ Readable(m) /\ Exists(Stored(m))
  /\ final' = [final EXCEPT ![m] = Stored(m)]
  /\ staging' = [staging EXCEPT ![m] = Absent]
  /\ op' = [pc |-> "inspect", mode |-> "recover", id |-> m, left |-> {},
            body |-> Stored(m)]
  /\ UNCHANGED <<active, temp, worldVars, told, faults>>

(* Fault: a temporary is expected for every file.                          *)
TempAlwaysThere(b, m, f) ==
  /\ temp[m][f] # NoTemp
  /\ f \in b.staged => temp[m][f].node = m

(* recover_locked_checked: what the bytes on disk allow.  Anything the     *)
(* record does not explain ends the recovery without a step.               *)
TempExplained(b, m, f) ==
  \/ /\ temp[m][f] = NoTemp
     /\ b.phase \in {"prepared", "aborted_cleanup"} \/ m \in Manifest
  \/ /\ temp[m][f] # NoTemp
     /\ temp[m][f].node # active[f].node
     /\ f \in b.staged => temp[m][f].node = m
     /\ b.phase = "prepared" => temp[m][f].bytes = before[m][f]
     /\ b.phase = "staged" => temp[m][f].bytes = m

InspectUnpublished ==
  LET m == op.id
      b == op.body
      clean == \A f \in Touches[m] : Pristine(b, m, f) /\ TempExplained(b, m, f)
      found == IF b.phase = "prepared" THEN {f \in Touches[m] : temp[m][f] # NoTemp}
               ELSE {}
  IN  /\ op.pc = "inspect" /\ b.phase \in Unpublished
      /\ op' = IF clean
               THEN Persist([op EXCEPT !.body.staged = @ \cup found], "aborted_cleanup")
               ELSE Idle
      /\ UNCHANGED <<diskVars, worldVars, told, faults>>

(* The files already exchanged must be a prefix; none is undone, some are  *)
(* completed.                                                              *)
InspectApplying ==
  LET m == op.id
      b == op.body
      done == {f \in Touches[m] : Published(b, m, f)}
      gone == {f \in Touches[m] : /\ m \in Manifest
                                  /\ temp[m][f] = NoTemp /\ Pristine(b, m, f)}
      known == /\ \A f \in Touches[m] \ (done \cup gone) : Pending(b, m, f)
               /\ \A f \in done, g \in Touches[m] \ done : f < g
               /\ Touches[m] \subseteq b.staged
               /\ LiveIs(m, Mixed(m, done))
  IN  /\ op.pc = "inspect" /\ b.phase = "applying"
      /\ op' = IF ~known THEN Idle
               ELSE IF done = {} THEN Persist(op, "aborted_cleanup")
               ELSE Loop(op, "swap", Touches[m] \ done)
      /\ UNCHANGED <<diskVars, worldVars, told, faults>>

InspectPublished ==
  LET m == op.id
      b == op.body
      present == {f \in Touches[m] : temp[m][f] # NoTemp}
      known == /\ \A f \in Touches[m] : active[f] = [bytes |-> m, node |-> m]
               /\ \A f \in present : Published(b, m, f)
               /\ LiveIs(m, Mixed(m, Files))
  IN  /\ op.pc = "inspect" /\ b.phase = "published"
      /\ op' = IF known THEN Loop(op, "clean", present) ELSE Idle
      /\ UNCHANGED <<diskVars, worldVars, told, faults>>

InspectTerminal ==
  /\ op.pc = "inspect" /\ op.body.phase \in TerminalPhases
  /\ told' = IF \A f \in Touches[op.id] : temp[op.id][f] = NoTemp THEN Tell(op) ELSE told
  /\ op' = Idle
  /\ UNCHANGED <<diskVars, worldVars, faults>>

(* cleanup_unpublished_temp: only the inode the record names is removed.   *)
Discard ==
  LET m == op.id
      f == First(op.left)
      known == \/ temp[m][f] = NoTemp
               \/ /\ f \in op.body.staged
                  /\ Pristine(op.body, m, f)
                  /\ temp[m][f].node = m
  IN  /\ op.pc = "discard"
      /\ temp' = IF known THEN [temp EXCEPT ![m][f] = NoTemp] ELSE temp
      /\ op' = IF known THEN Loop(op, "discard", op.left \ {f}) ELSE Failed(op)
      /\ UNCHANGED <<active, final, staging, worldVars, told, faults>>

(* receipt: reads the record, promotes nothing.                            *)
Receipt(m) ==
  /\ ~Running
  /\ Readable(m) /\ ~Exists(staging[m])
  /\ final[m].phase \in TerminalPhases
  /\ \A f \in Touches[m] : temp[m][f] = NoTemp
  /\ told' = [told EXCEPT ![m] = final[m].phase]
  /\ UNCHANGED <<diskVars, worldVars, op, faults>>

(* Fault: any record can be pruned.                                        *)
PruneAny(m) ==
  /\ ~Running
  /\ ~Exists(staging[m])
  /\ Exists(final[m])
  /\ final' = [final EXCEPT ![m] = Absent]
  /\ UNCHANGED <<active, temp, staging, worldVars, op, told, faults>>

(* prune_record: the operator removes one terminal record.                 *)
Prune(m) ==
  /\ ~Running
  /\ ~Exists(staging[m])
  /\ final[m].phase \in TerminalPhases
  /\ final' = [final EXCEPT ![m] = Absent]
  /\ UNCHANGED <<active, temp, staging, worldVars, op, told, faults>>

-----------------------------------------------------------------------------
(* What nobody controls.                                                   *)

(* An editor saves a file, into the same inode or by replacing it.         *)
Edit(f) ==
  /\ f \in Editable \ edited
  /\ \/ active' = [active EXCEPT ![f].bytes = "user"]
     \/ active' = [active EXCEPT ![f] = [bytes |-> "user", node |-> "ext"]]
  /\ edited' = edited \cup {f}
  /\ UNCHANGED <<temp, final, staging, before, op, told, faults>>

(* Somebody removes a temporary.                                           *)
TempVanishes(m, f) ==
  /\ TempsMayVanish
  /\ temp[m][f] # NoTemp
  /\ temp' = [temp EXCEPT ![m][f] = NoTemp]
  /\ UNCHANGED <<active, final, staging, worldVars, op, told, faults>>

Fault ==
  /\ Running
  /\ faults < MaxFaults
  /\ faults' = faults + 1

(* The process dies, or an error ends the operation where it stands.       *)
Crash ==
  /\ Fault
  /\ op' = Idle
  /\ UNCHANGED <<diskVars, worldVars, told>>

(* A call fails before it took effect, and the commit is undone.           *)
StepFails ==
  /\ Fault
  /\ BeforeEffect(op)
  /\ op' = Failed(op)
  /\ UNCHANGED <<diskVars, worldVars, told>>

(* A clone was made but its validation or its durability failed.           *)
CloneFails ==
  LET m == op.id
      f == First(op.left)
  IN  /\ Fault
      /\ op.pc = "clone"
      /\ Pristine(op.body, m, f) /\ temp[m][f] = NoTemp
      /\ temp' = [temp EXCEPT ![m][f] = [bytes |-> before[m][f], node |-> m]]
      /\ op' = Failed(op)
      /\ UNCHANGED <<active, final, staging, worldVars, told>>

(* A record is only partly written: the write fails, or the process dies   *)
(* in the middle of it.                                                    *)
ShortWrite ==
  /\ Fault
  /\ \/ /\ op.pc = "prepare"
        /\ final' = [final EXCEPT ![op.id] = Torn] /\ UNCHANGED staging
     \/ /\ op.pc = "write"
        /\ staging' = [staging EXCEPT ![op.id] = Torn] /\ UNCHANGED final
  /\ op' \in {Idle, Failed(op)}
  /\ UNCHANGED <<active, temp, worldVars, told>>

(* The rename took effect but its durability could not be confirmed.       *)
RenameFails ==
  /\ Fault
  /\ op.pc = "rename"
  /\ final' = [final EXCEPT ![op.id] = staging[op.id]]
  /\ staging' = [staging EXCEPT ![op.id] = Absent]
  /\ op' \in {Idle, Failed(op)}
  /\ UNCHANGED <<active, temp, worldVars, told>>

-----------------------------------------------------------------------------
Step ==
  \/ Prepare \/ Clone \/ Truncate \/ Rewrite \/ Recheck
  \/ Load \/ WriteStaging \/ Rename
  \/ Swap \/ Verify \/ CheckLive \/ Clean
  \/ InspectUnpublished \/ InspectApplying \/ InspectPublished
  \/ InspectTerminal \/ Discard

Next ==
  \/ Step
  \/ \E m \in Mutations : Plan(m) \/ BeginCommit(m) \/ BeginRecover(m)
                          \/ Receipt(m) \/ Prune(m)
  \/ CancelRequest
  \/ \E f \in Files : Edit(f) \/ \E m \in Mutations : TempVanishes(m, f)
  \/ Crash \/ StepFails \/ CloneFails \/ ShortWrite \/ RenameFails

Spec == Init /\ [][Next]_vars

(* A started operation runs on, and recovery of a mutation is asked for    *)
(* again and again.                                                        *)
FairSpec == Spec /\ WF_vars(Step) /\ \A m \in Mutations : SF_vars(BeginRecover(m))

=============================================================================
