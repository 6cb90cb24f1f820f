-------------------------- MODULE JournalProperties --------------------------
(***************************************************************************)
(* What the mutation journal promises about the workspace, its records and *)
(* the receipts it hands out.                                              *)
(***************************************************************************)
EXTENDS MutationJournal

Applied(m, f) == active[f].bytes = m
Swapped(m, f) == active[f].node = m
Open(m) ==
  \/ staging[m] # Absent
  \/ final[m] # Absent /\ final[m].phase \notin TerminalPhases

(* The record is durable before the effect (commit_checked, persist): a    *)
(* temporary exists only while its mutation has an unfinished record, and  *)
(* a file carries the cloned inode only once the record in place has       *)
(* reached Applying, or was committed and then pruned.                     *)
WriteAhead ==
  \A m \in Mutations, f \in Files :
    /\ temp[m][f] # NoTemp => Exists(final[m]) /\ final[m].phase \notin TerminalPhases
    /\ Swapped(m, f) =>
         final[m].phase \in {"applying", "published", "committed", "absent"}

(* A terminal record tells the truth about the whole workspace: committed  *)
(* leaves no file with the bytes the plan replaces, aborted or unchanged   *)
(* leaves no file with the bytes of the plan, and neither a temporary.     *)
OutcomeIsWhole ==
  \A m \in Mutations : \A f \in Touches[m] :
    /\ final[m].phase \in TerminalPhases => temp[m][f] = NoTemp
    /\ final[m].phase = "committed" => active[f].bytes # before[m][f]
    /\ final[m].phase \in {"aborted", "no_change"} => ~Applied(m, f)

(* What the caller was told stays true, also after the record was pruned:  *)
(* a refused or aborted mutation has left no byte and no temporary behind, *)
(* a committed one is in place as a whole (make_receipt, abort_before_     *)
(* effect).                                                                *)
ReceiptsAreTrue ==
  \A m \in Mutations : \A f \in Touches[m] :
    /\ told[m] = "committed" => active[f].bytes # before[m][f]
    /\ told[m] \in {"aborted", "no_change", "refused"} =>
         ~Applied(m, f) /\ temp[m][f] = NoTemp

(* Whatever the crashes, the writer never leaves a pair of complete        *)
(* records that its own reader would refuse (require_newer_staging).       *)
PairReadable ==
  \A m \in Mutations :
    final[m].phase # "torn" /\ staging[m].phase # "torn" => Readable(m)

(* Bytes an editor saved are in the file, or in a temporary that nothing   *)
(* removes, unless a later plan was reviewed on top of them: no exchange,  *)
(* cleanup or recovery destroys an edit it did not know of.                *)
NoLostEdit ==
  \A f \in edited :
    \/ active[f].bytes = "user"
    \/ \E m \in Mutations : temp[m][f].bytes = "user"
    \/ \E m \in Mutations : f \in Touches[m] /\ before[m][f] = "user"

(* A terminal record never changes again; it can only be pruned.           *)
OutcomeIsFinal ==
  [][\A m \in Mutations :
       final[m].phase \in TerminalPhases =>
         final'[m] \in {final[m], Absent} /\ ~Exists(staging'[m])]_vars

(* Unless an editor saved a file or a record was torn, a mutation whose    *)
(* commit died anywhere is brought to a terminal record by repeated        *)
(* recovery.                                                               *)
RecoverySettles ==
  \A m \in Mutations :
    Open(m) ~> \/ ~Open(m)
               \/ final[m].phase = "torn" \/ staging[m].phase = "torn"
               \/ edited # {}

(* The abstract workspace: a mutation that has exchanged a file is applied *)
(* as a whole, whatever the other files still hold.                        *)
Outcome(m) ==
  IF Open(m)
  THEN IF \E f \in Touches[m] : Swapped(m, f) THEN "applied" ELSE "pending"
  ELSE IF final[m] = Absent THEN "none" ELSE final[m].phase

Halfway == {m \in Mutations : Outcome(m) = "applied"}
World(f) ==
  IF Halfway = {} THEN active[f].bytes ELSE After(CHOOSE m \in Halfway : TRUE, f)

Atomic == INSTANCE AtomicWorkspace WITH
            world <- [f \in Files |-> World(f)],
            plan <- before,
            outcome <- [m \in Mutations |-> Outcome(m)]

(* Without an editor the journal implements mutations that apply to all    *)
(* their files in one step, against exactly the bytes they were reviewed   *)
(* against, one at a time: the first exchange decides.                     *)
ImplementsAtomic == Atomic!Spec

=============================================================================
