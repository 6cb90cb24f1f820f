---------------------------- MODULE MutationPlans ----------------------------
(***************************************************************************)
(* Previewed mutations and their commits.  A preview runs in the worker    *)
(* slot, stores its plan and then answers its waiter; the plan stays only  *)
(* if the waiter really encoded the answer.  A commit resolves the plan,   *)
(* publishes it through the journal and retires it on a terminal receipt;  *)
(* without a plan it can only replay a journal record.                     *)
(*                                                                         *)
(* The slot admits one body at a time; the waiters run on the runtime      *)
(* thread between any two of its steps, may be interrupted or dropped, and *)
(* hold the mutex of the plans only for moments, which a body that meets   *)
(* them takes as a failure.  The journal is here what it promises: an      *)
(* atomic change of the workspace with a record that may stay unfinished.  *)
(***************************************************************************)
EXTENDS Naturals, FiniteSets, FiniteSetsExt

CONSTANTS
  Plans,           (* mutation ids; an id is random and drawn once         *)
  Keys,            (* idempotency keys                                     *)
  Size,            (* candidate_bytes of a plan                            *)
  MaxPlans, MaxBytes, TTL,
  MaxClock         (* bound: the clock stops here                          *)

ASSUME PlansAssumption ==
  /\ Size \in [Plans -> Nat]
  /\ "base" \notin Plans
  /\ MaxPlans \in Nat /\ MaxBytes \in Nat /\ TTL \in Nat /\ MaxClock \in Nat

VARIABLES
  clock,
  entries,         (* MutationPlans.entries                                *)
  created,         (* Plan.created                                         *)
  token,           (* previews whose token says retained                   *)
  completed,       (* plans retired by a terminal receipt                  *)
  waiter,          (* the preview's caller                                 *)
  result,          (* what the preview's body returned to it               *)
  op,              (* the body in the worker slot                          *)
  record,          (* the journal record of an id                          *)
  boundKey,        (* the key in that record                               *)
  world,           (* the workspace: the original, or a plan's bytes       *)
  base,            (* the workspace a plan was reviewed against            *)
  told             (* terminal receipt that a commit of the plan returned  *)

planVars == <<entries, created, token, completed>>
previewVars == <<waiter, result>>
journalVars == <<record, boundKey, world, base, told>>
vars == <<clock, entries, created, token, completed, waiter, result, op,
          record, boundKey, world, base, told>>

-----------------------------------------------------------------------------
NoBody == [pc |-> "none"]
Body(pc, p, k) == [pc |-> pc, plan |-> p, key |-> k, at |-> clock]
NoKey == "no key"

Terminal == {"committed", "aborted"}
Records == {"none", "pending", "published"} \cup Terminal

TypeOK ==
  /\ clock \in 0 .. MaxClock
  /\ entries \subseteq Plans /\ token \subseteq Plans /\ completed \subseteq Plans
  /\ created \in [Plans -> 0 .. MaxClock]
  /\ waiter \in [Plans -> {"unsent", "waiting", "delivered", "lost"}]
  /\ result \in [Plans -> {"none", "ok", "error", "limit"}]
  /\ op \in {NoBody} \cup
       [pc : {"preview", "recover"}, plan : Plans, key : {NoKey}, at : 0 .. MaxClock]
       \cup [pc : {"resolve", "publish", "replay", "retire"}, plan : Plans,
             key : Keys, at : 0 .. MaxClock]
  /\ record \in [Plans -> Records]
  /\ boundKey \in [Plans -> Keys \cup {NoKey}]
  /\ world \in Plans \cup {"base"}
  /\ base \in [Plans -> Plans \cup {"base"}]
  /\ told \in [Plans -> {"nothing"} \cup Terminal]

Init ==
  /\ clock = 0
  /\ entries = {} /\ token = {} /\ completed = {}
  /\ created = [p \in Plans |-> 0]
  /\ waiter = [p \in Plans |-> "unsent"]
  /\ result = [p \in Plans |-> "none"]
  /\ op = NoBody
  /\ record = [p \in Plans |-> "none"]
  /\ boundKey = [p \in Plans |-> NoKey]
  /\ world = "base" /\ base = [p \in Plans |-> "base"]
  /\ told = [p \in Plans |-> "nothing"]

(* Fault: the age of a plan is not looked at.                              *)
FreshAlways(p) == TRUE

Fresh(p) == clock - created[p] < TTL

(* Fault: a retired plan keeps its place until it expires.                 *)
RetainedUnlessRevoked(p) == p \in token

(* Plan::retained.                                                         *)
Retained(p) == p \notin completed /\ p \in token

Idle == op = NoBody

-----------------------------------------------------------------------------
(* Preview: the body, then its waiter.                                     *)

BeginPreview(p) ==
  /\ Idle /\ waiter[p] = "unsent"
  /\ waiter' = [waiter EXCEPT ![p] = "waiting"]
  /\ token' = token \cup {p}
  /\ op' = Body("preview", p, NoKey)
  /\ UNCHANGED <<clock, entries, created, completed, result, journalVars>>

(* Preparation, validation or a busy lock: nothing is stored.              *)
PreviewFails ==
  /\ op.pc = "preview"
  /\ result' = [result EXCEPT ![op.plan] = "error"]
  /\ op' = NoBody
  /\ UNCHANGED <<clock, planVars, waiter, journalVars>>

(* remember_inner prunes first: retired, revoked and expired plans go.     *)
Kept == {q \in entries : Retained(q) /\ Fresh(q)}
FitsQuota(kept, p) ==
  /\ Cardinality(kept) < MaxPlans
  /\ MapThenSumSet(LAMBDA q : Size[q], kept) + Size[p] <= MaxBytes

Remember ==
  /\ op.pc = "preview"
  /\ FitsQuota(Kept, op.plan)
  /\ entries' = Kept \cup {op.plan}
  /\ created' = [created EXCEPT ![op.plan] = clock]
  /\ base' = [base EXCEPT ![op.plan] = world]
  /\ result' = [result EXCEPT ![op.plan] = "ok"]
  /\ op' = NoBody
  /\ UNCHANGED <<clock, token, completed, waiter, record, boundKey, world, told>>

RefuseQuota ==
  /\ op.pc = "preview"
  /\ ~FitsQuota(Kept, op.plan)
  /\ entries' = Kept
  /\ result' = [result EXCEPT ![op.plan] = "limit"]
  /\ op' = NoBody
  /\ UNCHANGED <<clock, created, token, completed, waiter, journalVars>>

(* Fault: the guard is dropped before it was told to retain.               *)
DeliverRevoking(p) ==
  /\ waiter[p] = "waiting" /\ result[p] = "ok"
  /\ waiter' = [waiter EXCEPT ![p] = "delivered"]
  /\ token' = token \ {p}
  /\ UNCHANGED <<clock, entries, created, completed, result, op, journalVars>>

(* The waiter encoded the preview: PreviewRetention::retain.               *)
Deliver(p) ==
  /\ waiter[p] = "waiting" /\ result[p] = "ok"
  /\ waiter' = [waiter EXCEPT ![p] = "delivered"]
  /\ UNCHANGED <<clock, planVars, result, op, journalVars>>

(* The call was dropped, interrupted or failed, or its answer is too big.  *)
Lose(p) ==
  /\ waiter[p] = "waiting"
  /\ waiter' = [waiter EXCEPT ![p] = "lost"]
  /\ token' = token \ {p}
  /\ UNCHANGED <<clock, entries, created, completed, result, op, journalVars>>

-----------------------------------------------------------------------------
(* Commit, replay and recovery.  The peer knows an id from its preview.    *)

BeginCommit(p, k) ==
  /\ Idle /\ waiter[p] = "delivered"
  /\ op' = Body("resolve", p, k)
  /\ UNCHANGED <<clock, planVars, previewVars, journalVars>>

Resolve ==
  /\ op.pc = "resolve"
  /\ LET found == op.plan \in entries /\ Retained(op.plan) /\ Fresh(op.plan)
     IN  op' = [op EXCEPT !.pc = IF found THEN "publish" ELSE "replay"]
  /\ UNCHANGED <<clock, planVars, previewVars, journalVars>>

(* A busy lock, a cancel, a project or grant that no longer answers, no    *)
(* record to replay, another key, a recovery that cannot tell, or anything *)
(* the journal refuses before it wrote a record.                           *)
CallFails ==
  /\ op.pc \in {"resolve", "publish", "replay", "recover"}
  /\ op' = NoBody
  /\ UNCHANGED <<clock, planVars, previewVars, journalVars>>

(* A first publication needs the workspace the plan was reviewed against   *)
(* and no unfinished record; it ends with a receipt or with an error that  *)
(* leaves the record aborted, pending, or published.                       *)
Publish ==
  /\ op.pc = "publish" /\ record[op.plan] = "none"
  /\ world = base[op.plan]
  /\ \A q \in Plans : record[q] \notin {"pending", "published"}
  /\ \E left \in Records \ {"none"} :
       /\ record' = [record EXCEPT ![op.plan] = left]
       /\ world' = IF left \in {"published", "committed"} THEN op.plan ELSE world
       /\ IF left = "committed"
          THEN /\ told' = [told EXCEPT ![op.plan] = left]
               /\ op' = [op EXCEPT !.pc = "retire"]
          ELSE op' = NoBody /\ UNCHANGED told
  /\ boundKey' = [boundKey EXCEPT ![op.plan] = op.key]
  /\ UNCHANGED <<clock, planVars, previewVars, base>>

(* recover_locked: forward if something was exchanged, else backward.      *)
Settled(r) ==
  CASE r = "pending" -> "aborted" [] r = "published" -> "committed" [] OTHER -> r

(* replay_loaded_locked, for a plan that is resolved or one that is not:   *)
(* only the exact key, and an unfinished record is recovered.              *)
Replay ==
  /\ op.pc \in {"publish", "replay"}
  /\ record[op.plan] # "none" /\ boundKey[op.plan] = op.key
  /\ record' = [record EXCEPT ![op.plan] = Settled(@)]
  /\ IF op.pc = "publish"
     THEN /\ told' = [told EXCEPT ![op.plan] = record'[op.plan]]
          /\ op' = [op EXCEPT !.pc = "retire"]
     ELSE op' = NoBody /\ UNCHANGED told
  /\ UNCHANGED <<clock, planVars, previewVars, boundKey, world, base>>

(* Fault: only a committed plan is retired.                                *)
RetireCommitted ==
  /\ op.pc = "retire"
  /\ completed' = IF told[op.plan] = "committed" THEN completed \cup {op.plan}
                  ELSE completed
  /\ op' = NoBody
  /\ UNCHANGED <<clock, entries, created, token, previewVars, journalVars>>

(* retire_if_terminal.                                                     *)
Retire ==
  /\ op.pc = "retire"
  /\ completed' = completed \cup {op.plan}
  /\ op' = NoBody
  /\ UNCHANGED <<clock, entries, created, token, previewVars, journalVars>>

BeginRecover(p) ==
  /\ Idle /\ waiter[p] = "delivered"
  /\ op' = Body("recover", p, NoKey)
  /\ UNCHANGED <<clock, planVars, previewVars, journalVars>>

(* A recovery does not retire the plan.                                    *)
Recover ==
  /\ op.pc = "recover" /\ record[op.plan] # "none"
  /\ record' = [record EXCEPT ![op.plan] = Settled(@)]
  /\ op' = NoBody
  /\ UNCHANGED <<clock, planVars, previewVars, boundKey, world, base, told>>

-----------------------------------------------------------------------------
(* Around the server: time, the operator's prune, the user's own edits.    *)

Tick ==
  /\ clock < MaxClock
  /\ clock' = clock + 1
  /\ UNCHANGED <<planVars, previewVars, op, journalVars>>

Prune(p) ==
  /\ record[p] \in Terminal
  /\ record' = [record EXCEPT ![p] = "none"]
  /\ boundKey' = [boundKey EXCEPT ![p] = NoKey]
  /\ UNCHANGED <<clock, planVars, previewVars, op, world, base, told>>

(* The user restores the original bytes, the edit that lets a plan fit     *)
(* again.                                                                  *)
Edit ==
  /\ \A q \in Plans : record[q] \notin {"pending", "published"}
  /\ world' = "base"
  /\ UNCHANGED <<clock, planVars, previewVars, op, record, boundKey, base, told>>

InSlot ==
  \/ PreviewFails \/ Remember \/ RefuseQuota
  \/ Resolve \/ CallFails \/ Publish \/ Replay \/ Retire \/ Recover

Next ==
  \/ Tick \/ Edit \/ InSlot
  \/ \E p \in Plans :
       \/ BeginPreview(p) \/ Deliver(p) \/ Lose(p) \/ Prune(p) \/ BeginRecover(p)
       \/ \E k \in Keys : BeginCommit(p, k)

Spec == Init /\ [][Next]_vars

-----------------------------------------------------------------------------
(* A preview the peer was given can be committed until it expires or is    *)
(* retired: neither the guard of its delivery nor the admission of other   *)
(* previews takes it away (PreviewRetention, remember_inner).              *)
DeliveredResolves ==
  \A p \in Plans :
    waiter[p] = "delivered" /\ Fresh(p) /\ p \notin completed
      => p \in entries /\ p \in token

(* The quota bounds pending plans: a preview is only refused for it while  *)
(* the plans that are undecided, unexpired and not lost fill it (ADR-059   *)
(* in docs/architecture/mutation.md).                                      *)
PendingPlans ==
  {q \in entries : told[q] = "nothing" /\ waiter[q] # "lost" /\ clock - created[q] < TTL}
QuotaCountsPending ==
  [][\A p \in Plans :
       result[p] # "limit" /\ result'[p] = "limit" => ~FitsQuota(PendingPlans, p)]_vars

Applies(p) == world # p /\ world' = p

(* Once a commit has answered with a terminal receipt, no later commit of  *)
(* that plan touches the workspace, even if the operator pruned the record *)
(* and the user restored the reviewed bytes (retire_if_terminal).          *)
NeverReapplied == [][\A p \in Plans : told[p] # "nothing" => ~Applies(p)]_vars

(* A commit that is asked for after the plan's time never has an effect,   *)
(* although nothing removes the plan until the next preview.               *)
ExpiredNeverApplies ==
  [][\A p \in Plans : Applies(p) => op.at - created[p] < TTL]_vars
=============================================================================
