------------------------ MODULE MutationPlans_proofs ------------------------
(* Theorems about the previewed plans, for any plans, keys and quotas.     *)
EXTENDS MutationPlans, TLAPS

(* What DeliveredResolves rests on: a preview still in flight keeps its    *)
(* token, and a remembered plan leaves the entries only when revoked,      *)
(* retired or expired.                                                     *)
TokenFollowsWaiter ==
  \A p \in Plans :
    /\ waiter[p] \in {"waiting", "delivered"} <=> p \in token
    /\ waiter[p] = "unsent" => result[p] = "none"
    /\ waiter[p] = "delivered" => result[p] = "ok"
RememberedStays ==
  \A p \in Plans :
    result[p] = "ok" /\ p \in token /\ p \notin completed /\ Fresh(p) => p \in entries
EntriesWereSent == \A p \in entries : waiter[p] # "unsent"

(* What the commits rest on: a plan that was told its end is retired       *)
(* before anything else can resolve it, and a plan in publication was      *)
(* neither retired nor expired when its commit was asked for.              *)
ToldIsRetired ==
  \A p \in Plans : /\ told[p] # "nothing" =>
                        p \in completed \/ (op.pc = "retire" /\ op.plan = p)
                   /\ p \in completed => told[p] # "nothing"
BodyMatches ==
  /\ op.pc = "preview" => result[op.plan] = "none" /\ waiter[op.plan] # "unsent"
  /\ op.pc \notin {"none", "preview"} => result[op.plan] = "ok"
  /\ op.pc = "retire" => told[op.plan] # "nothing"
  /\ op # NoBody => op.at <= clock
  /\ op.pc = "publish" => /\ told[op.plan] = "nothing"
                          /\ op.at - created[op.plan] < TTL

PlansInvariant ==
  /\ TypeOK
  /\ TokenFollowsWaiter
  /\ RememberedStays
  /\ EntriesWereSent
  /\ ToldIsRetired
  /\ BodyMatches

LEMMA PlansInit == Init => PlansInvariant
<1> SUFFICES ASSUME Init PROVE PlansInvariant
  OBVIOUS
<1> USE PlansAssumption DEF Init
<1>1. TypeOK
  <2>1. clock \in 0 .. MaxClock /\ created \in [Plans -> 0 .. MaxClock]
    OBVIOUS
  <2>2. record \in [Plans -> Records] /\ told \in [Plans -> {"nothing"} \cup Terminal]
    BY DEF Records
  <2> QED
    BY <2>1, <2>2 DEF TypeOK
<1>2. TokenFollowsWaiter /\ RememberedStays /\ EntriesWereSent /\ ToldIsRetired
  BY DEF TokenFollowsWaiter, RememberedStays, EntriesWereSent, ToldIsRetired
<1>3. BodyMatches
  BY DEF BodyMatches, NoBody
<1> QED
  BY <1>1, <1>2, <1>3 DEF PlansInvariant

(* The body in the slot and its fields.                                    *)
LEMMA BodyFields ==
  ASSUME TypeOK, op.pc # "none"
  PROVE  /\ op.plan \in Plans /\ op.at \in 0 .. MaxClock
         /\ op.pc \in {"resolve", "publish", "replay", "retire"} => op.key \in Keys
         /\ op \in [pc : {"preview", "recover"}, plan : Plans, key : {NoKey}, at : 0 .. MaxClock]
              \cup [pc : {"resolve", "publish", "replay", "retire"}, plan : Plans,
                    key : Keys, at : 0 .. MaxClock]
<1>1. op # NoBody
  BY DEF NoBody
<1> QED
  BY <1>1 DEF TypeOK

(* Every action keeps the types.                                           *)
LEMMA TypeStep ==
  ASSUME TypeOK, [Next]_vars
  PROVE  TypeOK'
<1> USE PlansAssumption
<1>1. CASE UNCHANGED vars
  BY <1>1 DEF TypeOK, vars
<1>2. CASE Tick
  BY <1>2 DEF TypeOK, Tick, planVars, previewVars, journalVars
<1>3. CASE Edit
  BY <1>3 DEF TypeOK, Edit, planVars, previewVars
<1>4. ASSUME NEW p \in Plans, BeginPreview(p)  PROVE TypeOK'
  <2>1. op' \in [pc : {"preview", "recover"}, plan : Plans, key : {NoKey}, at : 0 .. MaxClock]
    BY <1>4, SMT DEF TypeOK, BeginPreview, Body
  <2> QED
    BY <1>4, <2>1 DEF TypeOK, BeginPreview, journalVars
<1>5. ASSUME NEW p \in Plans, Deliver(p) \/ Lose(p)  PROVE TypeOK'
  BY <1>5 DEF TypeOK, Deliver, Lose, planVars, journalVars
<1>6. ASSUME NEW p \in Plans, Prune(p)  PROVE TypeOK'
  BY <1>6 DEF TypeOK, Prune, planVars, previewVars, Records
<1>7. ASSUME NEW p \in Plans, BeginRecover(p)  PROVE TypeOK'
  <2>1. op' \in [pc : {"preview", "recover"}, plan : Plans, key : {NoKey}, at : 0 .. MaxClock]
    BY <1>7, SMT DEF TypeOK, BeginRecover, Body
  <2> QED
    BY <1>7, <2>1 DEF TypeOK, BeginRecover, planVars, previewVars, journalVars
<1>8. ASSUME NEW p \in Plans, NEW k \in Keys, BeginCommit(p, k)  PROVE TypeOK'
  <2>1. op' \in [pc : {"resolve", "publish", "replay", "retire"}, plan : Plans,
                 key : Keys, at : 0 .. MaxClock]
    BY <1>8, SMT DEF TypeOK, BeginCommit, Body
  <2> QED
    BY <1>8, <2>1 DEF TypeOK, BeginCommit, planVars, previewVars, journalVars
<1>9. CASE InSlot
  <2>1. op.plan \in Plans /\ op.pc # "none"
    <3>1. op.pc # "none"
      BY <1>9 DEF InSlot, PreviewFails, Remember, RefuseQuota, Resolve, CallFails,
                  Publish, Replay, Retire, Recover
    <3> QED
      BY <3>1, BodyFields
  <2>2. CASE PreviewFails \/ RefuseQuota
    BY <2>1, <2>2 DEF TypeOK, PreviewFails, RefuseQuota, Kept, planVars, journalVars
  <2>3. CASE Remember
    BY <2>1, <2>3 DEF TypeOK, Remember, Kept
  <2>4. CASE Resolve
    <3>1. op' \in [pc : {"resolve", "publish", "replay", "retire"}, plan : Plans,
                   key : Keys, at : 0 .. MaxClock]
      BY <2>1, <2>4, BodyFields DEF Resolve
    <3> QED
      BY <2>4, <3>1 DEF TypeOK, Resolve, planVars, previewVars, journalVars
  <2>5. CASE CallFails
    BY <2>5 DEF TypeOK, CallFails, planVars, previewVars, journalVars
  <2>6. CASE Publish
    <3>1. op.key \in Keys
      BY <2>6, <2>1, BodyFields DEF Publish
    <3>2. op' \in {NoBody} \cup [pc : {"resolve", "publish", "replay", "retire"},
                   plan : Plans, key : Keys, at : 0 .. MaxClock]
      BY <2>1, <2>6, BodyFields DEF Publish
    <3>3. record' \in [Plans -> Records] /\ told' \in [Plans -> {"nothing"} \cup Terminal]
      BY <2>1, <2>6 DEF TypeOK, Publish, Records, Terminal
    <3>4. world' \in Plans \cup {"base"} /\ boundKey' \in [Plans -> Keys \cup {NoKey}]
      BY <2>1, <2>6, <3>1 DEF TypeOK, Publish
    <3> QED
      BY <2>6, <3>2, <3>3, <3>4 DEF TypeOK, Publish, planVars, previewVars
  <2>7. CASE Replay
    <3>1. op' \in {NoBody} \cup [pc : {"resolve", "publish", "replay", "retire"},
                   plan : Plans, key : Keys, at : 0 .. MaxClock]
      BY <2>1, <2>7, BodyFields DEF Replay
    <3>2. record[op.plan] # "none" => Settled(record[op.plan]) \in Terminal
      BY <2>1 DEF TypeOK, Records, Settled, Terminal
    <3>3. record' \in [Plans -> Records] /\ told' \in [Plans -> {"nothing"} \cup Terminal]
      BY <2>1, <2>7, <3>2 DEF TypeOK, Replay, Records
    <3> QED
      BY <2>7, <3>1, <3>3 DEF TypeOK, Replay, planVars, previewVars
  <2>8. CASE Retire
    BY <2>1, <2>8 DEF TypeOK, Retire, previewVars, journalVars
  <2>9. CASE Recover
    <3>1. record[op.plan] # "none" => Settled(record[op.plan]) \in Terminal
      BY <2>1 DEF TypeOK, Records, Settled, Terminal
    <3> QED
      BY <2>1, <2>9, <3>1 DEF TypeOK, Recover, Records, planVars, previewVars
  <2> QED
    BY <1>9, <2>2, <2>3, <2>4, <2>5, <2>6, <2>7, <2>8, <2>9 DEF InSlot
<1> QED
  BY <1>1, <1>2, <1>3, <1>4, <1>5, <1>6, <1>7, <1>8, <1>9 DEF Next

(* The slot's actions act on a body with a plan.                           *)
LEMMA InSlotPlan ==
  ASSUME TypeOK, InSlot
  PROVE  op.plan \in Plans /\ op.at \in 0 .. MaxClock /\ op.pc # "none" /\ op # NoBody
<1>1. op.pc # "none"
  BY DEF InSlot, PreviewFails, Remember, RefuseQuota, Resolve, CallFails,
         Publish, Replay, Retire, Recover
<1>2. op # NoBody
  BY <1>1 DEF NoBody
<1> QED
  BY <1>1, <1>2, BodyFields

(* The token of a preview is retained while its caller waits for it, and   *)
(* for ever once the preview was delivered.                                *)
LEMMA TokenStep ==
  ASSUME PlansInvariant, [Next]_vars
  PROVE  TokenFollowsWaiter'
<1> USE DEF PlansInvariant, TokenFollowsWaiter
<1>1. CASE UNCHANGED <<token, waiter, result>>
  BY <1>1
<1>2. ASSUME NEW p \in Plans, BeginPreview(p)  PROVE TokenFollowsWaiter'
  BY <1>2 DEF TypeOK, BeginPreview
<1>3. ASSUME NEW p \in Plans, Deliver(p)  PROVE TokenFollowsWaiter'
  BY <1>3 DEF TypeOK, Deliver, planVars
<1>4. ASSUME NEW p \in Plans, Lose(p)  PROVE TokenFollowsWaiter'
  BY <1>4 DEF TypeOK, Lose
<1>5. CASE PreviewFails
  BY <1>5, InSlotPlan DEF InSlot, TypeOK, BodyMatches, PreviewFails, planVars
<1>6. CASE Remember
  BY <1>6, InSlotPlan DEF InSlot, TypeOK, BodyMatches, Remember
<1>7. CASE RefuseQuota
  BY <1>7, InSlotPlan DEF InSlot, TypeOK, BodyMatches, RefuseQuota
<1> QED
  BY <1>1, <1>2, <1>3, <1>4, <1>5, <1>6, <1>7
  DEF vars, Next, InSlot, Tick, Edit, Prune, BeginRecover, BeginCommit, Resolve,
      CallFails, Publish, Replay, Retire, Recover, planVars, previewVars

(* An admission prunes only plans that could not be resolved any more, and *)
(* time only makes plans expire.                                           *)
LEMMA RememberStep ==
  ASSUME PlansInvariant, [Next]_vars
  PROVE  RememberedStays'
<1> USE DEF PlansInvariant, RememberedStays
<1>1. CASE UNCHANGED <<clock, created, entries, result>> /\ token' \subseteq token
           /\ completed \subseteq completed'
  BY <1>1 DEF Fresh
<1>2. CASE Tick
  <2>1. ASSUME NEW p \in Plans, Fresh(p)' PROVE Fresh(p)
    BY <1>2, <2>1, PlansAssumption DEF Tick, Fresh, TypeOK, planVars
  <2> QED
    BY <1>2, <2>1 DEF Tick, planVars, previewVars
<1>3. ASSUME NEW p \in Plans, BeginPreview(p)  PROVE RememberedStays'
  BY <1>3 DEF BeginPreview, TokenFollowsWaiter, Fresh
<1>4. CASE PreviewFails
  BY <1>4, InSlotPlan DEF InSlot, TypeOK, PreviewFails, planVars, Fresh
<1>5. CASE RefuseQuota
  BY <1>5, InSlotPlan DEF InSlot, TypeOK, RefuseQuota, Kept, Retained, Fresh
<1>6. CASE Remember
  BY <1>6, InSlotPlan DEF InSlot, TypeOK, Remember, Kept, Retained, Fresh
<1> QED
  BY <1>1, <1>2, <1>3, <1>4, <1>5, <1>6
  DEF vars, Next, InSlot, Edit, Deliver, Lose, Prune, BeginRecover, BeginCommit,
      Resolve, CallFails, Publish, Replay, Retire, Recover, planVars, previewVars

LEMMA EntriesStep ==
  ASSUME PlansInvariant, [Next]_vars
  PROVE  EntriesWereSent'
<1> USE DEF PlansInvariant, EntriesWereSent
<1>1. CASE UNCHANGED <<entries, waiter>>
  BY <1>1
<1>2. ASSUME NEW p \in Plans, BeginPreview(p) \/ Deliver(p) \/ Lose(p)
      PROVE EntriesWereSent'
  BY <1>2 DEF TypeOK, BeginPreview, Deliver, Lose, planVars
<1>3. CASE Remember \/ RefuseQuota
  BY <1>3, InSlotPlan DEF InSlot, BodyMatches, Remember, RefuseQuota, Kept
<1> QED
  BY <1>1, <1>2, <1>3
  DEF vars, Next, InSlot, Tick, Edit, Prune, BeginRecover, BeginCommit, PreviewFails,
      Resolve, CallFails, Publish, Replay, Retire, Recover, planVars, previewVars

(* A commit that answers with a terminal receipt is still in the slot, to  *)
(* retire its plan before another body begins.                             *)
LEMMA ToldStep ==
  ASSUME PlansInvariant, [Next]_vars
  PROVE  ToldIsRetired'
<1> USE DEF PlansInvariant, ToldIsRetired
<1>1. CASE UNCHANGED <<told, completed>> /\ (op.pc # "retire" \/ UNCHANGED op)
  BY <1>1
<1>2. CASE Publish
  BY <1>2, InSlotPlan, BodyFields DEF InSlot, TypeOK, Publish, planVars
<1>3. CASE Replay
  <2>1. op.plan \in Plans /\ Settled(record[op.plan]) # "nothing"
    BY <1>3, InSlotPlan DEF InSlot, Replay, TypeOK, Records, Terminal, Settled
  <2> QED
    BY <1>3, <2>1, BodyFields DEF TypeOK, Replay, planVars
<1>4. CASE Retire
  BY <1>4, InSlotPlan DEF InSlot, BodyMatches, Retire, journalVars
<1>5. CASE Tick \/ Edit \/ PreviewFails \/ Remember \/ RefuseQuota \/ Resolve \/ CallFails
           \/ Recover
  BY <1>5, <1>1 DEF Tick, Edit, PreviewFails, Remember, RefuseQuota, Resolve, CallFails,
                    Recover, planVars, journalVars
<1>6. ASSUME NEW p \in Plans,
             BeginPreview(p) \/ Deliver(p) \/ Lose(p) \/ Prune(p) \/ BeginRecover(p)
               \/ \E k \in Keys : BeginCommit(p, k)
      PROVE ToldIsRetired'
  BY <1>6, <1>1 DEF BeginPreview, Deliver, Lose, Prune, BeginRecover, BeginCommit, Idle,
                    NoBody, planVars, journalVars
<1> QED
  BY <1>1, <1>2, <1>3, <1>4, <1>5, <1>6 DEF vars, Next, InSlot

(* What a body in the slot found when it began, it still finds: the slot   *)
(* is what makes the check of a plan and its use one step.                 *)
LEMMA BodyStep ==
  ASSUME PlansInvariant, TypeOK', [Next]_vars
  PROVE  BodyMatches'
<1> USE DEF PlansInvariant
<1>1. CASE UNCHANGED vars
  BY <1>1 DEF BodyMatches, vars
<1>2. CASE op' = NoBody
  BY <1>2 DEF BodyMatches, NoBody
<1>3. CASE Tick
  BY <1>3, BodyFields DEF BodyMatches, Tick, TypeOK, NoBody, planVars, previewVars, journalVars
<1>4. CASE Edit
  BY <1>4 DEF BodyMatches, Edit, planVars, previewVars
<1>5. ASSUME NEW p \in Plans, BeginPreview(p)  PROVE BodyMatches'
  BY <1>5 DEF BodyMatches, BeginPreview, Body, TypeOK, TokenFollowsWaiter
<1>6. ASSUME NEW p \in Plans, Deliver(p) \/ Lose(p)  PROVE BodyMatches'
  BY <1>6, BodyFields DEF BodyMatches, Deliver, Lose, TypeOK, planVars, journalVars
<1>7. ASSUME NEW p \in Plans, Prune(p)  PROVE BodyMatches'
  BY <1>7 DEF BodyMatches, Prune, planVars, previewVars
<1>8. ASSUME NEW p \in Plans, BeginRecover(p)  PROVE BodyMatches'
  BY <1>8 DEF BodyMatches, BeginRecover, Body, TypeOK, TokenFollowsWaiter, previewVars
<1>9. ASSUME NEW p \in Plans, NEW k \in Keys, BeginCommit(p, k)  PROVE BodyMatches'
  BY <1>9 DEF BodyMatches, BeginCommit, Body, TypeOK, TokenFollowsWaiter, previewVars
<1>10. CASE Resolve
  <2>1. op.plan \in Plans /\ op' = [op EXCEPT !.pc = op'.pc]
        /\ op'.plan = op.plan /\ op'.at = op.at /\ op'.pc \in {"publish", "replay"}
    BY <1>10, InSlotPlan, BodyFields DEF InSlot, Resolve
  <2>2. op.at <= clock /\ op.pc = "resolve" /\ result[op.plan] = "ok"
    BY <1>10, InSlotPlan DEF InSlot, Resolve, BodyMatches
  <2>3. ASSUME op'.pc = "publish"
        PROVE  told[op.plan] = "nothing" /\ op.at - created[op.plan] < TTL
    <3>1. op.plan \notin completed /\ Fresh(op.plan)
      BY <1>10, <2>1, <2>3, BodyFields DEF Resolve, Retained
    <3>2. op.at \in Nat /\ clock \in Nat /\ created[op.plan] \in Nat
      BY <1>10, <2>1, InSlotPlan, PlansAssumption DEF InSlot, TypeOK
    <3> QED
      BY <2>1, <2>2, <3>1, <3>2, PlansAssumption DEF ToldIsRetired, Fresh
  <2> QED
    BY <1>10, <2>1, <2>2, <2>3 DEF BodyMatches, Resolve, planVars, previewVars, journalVars
<1>11. CASE Publish
  <2>1. op.plan \in Plans /\ op.pc = "publish" /\ op # NoBody
    BY <1>11, InSlotPlan DEF InSlot, Publish
  <2>2. result[op.plan] = "ok" /\ op.at <= clock
    BY <2>1 DEF BodyMatches
  <2>3. ASSUME op' # NoBody
        PROVE  op' = [op EXCEPT !.pc = "retire"] /\ told' = [told EXCEPT ![op.plan] = "committed"]
    BY <1>11, <2>3 DEF Publish
  <2>4. ASSUME op' # NoBody
        PROVE  op'.pc = "retire" /\ op'.plan = op.plan /\ op'.at = op.at
    BY <2>1, <2>3, <2>4, BodyFields
  <2> QED
    BY <1>2, <1>11, <2>1, <2>2, <2>3, <2>4
    DEF BodyMatches, Publish, TypeOK, planVars, previewVars
<1>12. CASE Replay
  <2>1. op.plan \in Plans /\ Settled(record[op.plan]) # "nothing"
    BY <1>12, InSlotPlan DEF InSlot, Replay, TypeOK, Records, Terminal, Settled
  <2> QED
    BY <1>12, <1>2, <2>1, InSlotPlan, BodyFields
    DEF InSlot, BodyMatches, Replay, TypeOK, planVars, previewVars
<1>13. CASE PreviewFails \/ Remember \/ RefuseQuota \/ CallFails \/ Retire \/ Recover
  BY <1>13, <1>2 DEF PreviewFails, Remember, RefuseQuota, CallFails, Retire, Recover
<1> QED
  BY <1>1, <1>3, <1>4, <1>5, <1>6, <1>7, <1>8, <1>9, <1>10, <1>11, <1>12, <1>13
  DEF Next, InSlot

(* The inductive invariant of the plans.                                   *)
THEOREM PlansSafe == Spec => []PlansInvariant
<1>1. PlansInvariant /\ [Next]_vars => PlansInvariant'
  <2> SUFFICES ASSUME PlansInvariant, [Next]_vars
               PROVE  PlansInvariant'
    OBVIOUS
  <2>1. TypeOK'
    BY TypeStep DEF PlansInvariant
  <2> QED
    BY <2>1, TokenStep, RememberStep, EntriesStep, ToldStep, BodyStep DEF PlansInvariant
<1> QED
  BY <1>1, PlansInit, PTL DEF Spec

(* Types, for any plans, keys and quotas.                                  *)
THEOREM PlansTypes == Spec => []TypeOK
<1>1. PlansInvariant => TypeOK
  BY DEF PlansInvariant
<1> QED
  BY <1>1, PlansSafe, PTL

(* A delivered preview resolves until it expires or is retired, whatever   *)
(* the quotas and however many previews follow.                            *)
THEOREM DeliveredPlansResolve == Spec => []DeliveredResolves
<1>1. PlansInvariant => DeliveredResolves
  BY DEF PlansInvariant, TokenFollowsWaiter, RememberedStays, DeliveredResolves
<1> QED
  BY <1>1, PlansSafe, PTL

(* The quota refuses a preview only for plans that are pending.            *)
THEOREM QuotaIsForPending == Spec => QuotaCountsPending
<1>1. PlansInvariant /\ op.pc = "preview" => Kept = PendingPlans
  <2> SUFFICES ASSUME PlansInvariant, op.pc = "preview", NEW q \in entries
               PROVE  Retained(q) /\ Fresh(q)
                        <=> told[q] = "nothing" /\ waiter[q] # "lost" /\ clock - created[q] < TTL
    BY DEF Kept, PendingPlans
  <2>1. q \in Plans /\ waiter[q] \in {"waiting", "delivered", "lost"}
    BY DEF PlansInvariant, TypeOK, EntriesWereSent
  <2>2. q \in token <=> waiter[q] # "lost"
    BY <2>1 DEF PlansInvariant, TokenFollowsWaiter
  <2>3. q \in completed <=> told[q] # "nothing"
    BY <2>1 DEF PlansInvariant, ToldIsRetired
  <2> QED
    BY <2>2, <2>3 DEF Retained, Fresh
<1>2. PlansInvariant /\ [Next]_vars
        => [\A p \in Plans :
              result[p] # "limit" /\ result'[p] = "limit" => ~FitsQuota(PendingPlans, p)]_vars
  <2> SUFFICES ASSUME PlansInvariant, [Next]_vars, NEW p \in Plans,
                      result[p] # "limit", result'[p] = "limit"
               PROVE  ~FitsQuota(PendingPlans, p)
    OBVIOUS
  <2>1. RefuseQuota /\ p = op.plan
    BY DEF PlansInvariant, TypeOK, vars, Next, InSlot, Tick, Edit, BeginPreview, Deliver, Lose,
           Prune, BeginRecover, BeginCommit, PreviewFails, Remember, RefuseQuota, Resolve,
           CallFails, Publish, Replay, Retire, Recover, planVars, previewVars
  <2> QED
    BY <1>1, <2>1 DEF RefuseQuota
<1> QED
  BY <1>2, PlansSafe, PTL DEF Spec, QuotaCountsPending

(* Only a first publication turns the workspace into the bytes of a plan.  *)
LEMMA OnlyPublishApplies ==
  ASSUME PlansInvariant, [Next]_vars, NEW p \in Plans, Applies(p)
  PROVE  op.pc = "publish" /\ op.plan = p
BY PlansAssumption
DEF Applies, vars, Next, InSlot, Tick, Edit, BeginPreview, Deliver, Lose, Prune, BeginRecover,
    BeginCommit, PreviewFails, Remember, RefuseQuota, Resolve, CallFails, Publish, Replay,
    Retire, Recover, planVars, previewVars, journalVars

(* A plan whose commit was answered never changes the workspace again.     *)
THEOREM PlansApplyOnce == Spec => NeverReapplied
<1>1. PlansInvariant /\ [Next]_vars
        => [\A p \in Plans : told[p] # "nothing" => ~Applies(p)]_vars
  BY OnlyPublishApplies DEF PlansInvariant, BodyMatches
<1> QED
  BY <1>1, PlansSafe, PTL DEF Spec, NeverReapplied

(* A commit asked for after the plan's time never changes the workspace.   *)
THEOREM ExpiredPlansStay == Spec => ExpiredNeverApplies
<1>1. PlansInvariant /\ [Next]_vars
        => [\A p \in Plans : Applies(p) => op.at - created[p] < TTL]_vars
  BY OnlyPublishApplies DEF PlansInvariant, BodyMatches
<1> QED
  BY <1>1, PlansSafe, PTL DEF Spec, ExpiredNeverApplies

=============================================================================
