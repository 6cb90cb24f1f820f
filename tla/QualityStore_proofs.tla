------------------------ MODULE QualityStore_proofs ------------------------
(***************************************************************************)
(* Proofs about the durable artifact store: what the holder of the lock,   *)
(* the publishers beside it, the clocks and the files say of each other,   *)
(* whatever the processes that die and the clocks that are set back.       *)
(***************************************************************************)
EXTENDS QualityProperties, FiniteSetTheorems, WellFoundedInduction, TLAPS

-----------------------------------------------------------------------------
(* The invariant.                                                          *)

(* The lock is tried before every operation on the files.                  *)
Holds(s) == process[s].pc \in Locked
OneHolder == \A s, t \in Sessions : Holds(s) /\ Holds(t) => s = t

(* Every clock a session judges by has been reached.                       *)
ClocksTell ==
  /\ wall <= latest /\ watermark <= latest
  /\ \A s \in Sessions : projected[s] <= latest /\ process[s].at <= latest

(* A published job was captured, before now unless a clock went back; and  *)
(* only then is anything in quarantine.                                    *)
CapturesTell ==
  /\ \A m \in Members : m \in descriptors \/ told[m] = "stored" => m[1] \notin fresh
  /\ backs = 0 => \A j \in Jobs : created[j] <= wall
JailTells == \A m \in Members : jailed[m] # "no" => jailed[m] = "clock" /\ backs > 0

(* The member in hand, while there is one.                                 *)
Committing(pc) == pc \in {"watermark", "mark", "move", "commit", "truncate", "unmark"}
InHand(p) ==
  \/ p.pc \in {"captured", "admit", "member", "publish", "release"} \/ Committing(p.pc)
  \/ p.pc \in {"reclaim", "unlink"} /\ p.after = "admit"
HandTells(s) ==
  InHand(process[s]) =>
    /\ process[s].job \in Jobs \ fresh
    /\ process[s].item \in 1..Size[process[s].job]

(* How far publish_descriptor has come.                                    *)
CommitTells(s) ==
  LET p == process[s] IN
  /\ Committing(p.pc) => p.job \in claims
  /\ p.pc \in {"move", "commit"} /\ p.surplus => Member(s) \in markers
  /\ p.pc = "commit" => /\ blob[Member(s)] # "none"
                        /\ blob[Member(s)] = "long" => p.surplus
  /\ p.pc \in {"truncate", "unmark"} => Member(s) \in descriptors
  /\ p.pc = "unmark" => blob[Member(s)] = "exact"

(* What reclamation and reconciliation have done and are still to do.      *)
Sorting(p) ==
  \/ p.pc \in {"rebase", "sort", "verify", "jail"}
  \/ p.pc \in {"reclaim", "unlink"} /\ p.after = "sort"
SweepTells(s) ==
  LET p == process[s] IN
  /\ p.pc \in {"rebase", "sort", "verify", "jail"} => p.after = "sort"
  /\ p.pc = "unlink" => p.target \cap descriptors = {}
  /\ p.pc \in {"verify", "jail"} => p.left \subseteq descriptors
  /\ p.pc = "jail" => /\ p.target \cap p.left = {}
                      /\ \A m \in p.target : blob[m] = "none"
  /\ Sorting(p) /\ backs = 0 => \A m \in descriptors : created[m[1]] <= p.at

Frame == OneHolder /\ ClocksTell /\ CapturesTell /\ JailTells
Steps == \A s \in Sessions : HandTells(s) /\ CommitTells(s) /\ SweepTells(s)
IInv == TypeOK /\ Frame /\ Steps /\ CommittedIsWhole /\ AnnouncedStays /\ WithinCaps

-----------------------------------------------------------------------------
(* Maxima and members.                                                     *)

(* A set of naturals with a bound has a maximum.                           *)
LEMMA MaxOf ==
  ASSUME NEW n \in Nat, NEW S \in SUBSET (0..n), S # {}
  PROVE  /\ Max(S) \in S
         /\ \A x \in S : x <= Max(S)
<1> DEFINE gaps == {g \in 0..n : n - g \in S}
<1> HIDE DEF gaps
<1>1. PICK x \in S : TRUE
  OBVIOUS
<1>2. n - x \in gaps
  BY <1>1 DEF gaps
<1>3. gaps \subseteq Nat /\ gaps # {}
  <2>1. gaps \subseteq Nat
    BY DEF gaps
  <2>2. QED
    BY <1>2, <2>1
<1>4. PICK g \in gaps : \A h \in gaps : ~(<<h, g>> \in OpToRel(<, Nat))
  BY <1>3, NatLessThanWellFounded, WFMin
<1>5. \A h \in gaps : ~(h < g)
  BY <1>3, <1>4 DEF OpToRel
<1>6. n - g \in S
  BY <1>4 DEF gaps
<1>7. ASSUME NEW y \in S PROVE y <= n - g
  <2>1. n - y \in gaps
    BY DEF gaps
  <2>2. ~(n - y < g) /\ y \in 0..n /\ g \in 0..n
    BY <2>1, <1>4, <1>5 DEF gaps
  <2>3. QED
    BY <2>2
<1>8. QED
  BY <1>6, <1>7 DEF Max

LEMMA MaxOfTwo ==
  ASSUME NEW a \in Nat, NEW b \in Nat
  PROVE  /\ Max({a, b}) \in {a, b}
         /\ a <= Max({a, b}) /\ b <= Max({a, b})
<1>1. CASE a <= b
  <2>1. {a, b} \in SUBSET (0..b) /\ {a, b} # {}
    BY <1>1
  <2>2. QED
    BY <2>1, MaxOf
<1>2. CASE b <= a
  <2>1. {a, b} \in SUBSET (0..a) /\ {a, b} # {}
    BY <1>2
  <2>2. QED
    BY <2>1, MaxOf
<1>3. QED
  BY <1>1, <1>2

(* A member is in hand while a job and one of its items are.               *)
LEMMA MemberType ==
  ASSUME NEW j \in Jobs, NEW i \in 1..Size[j]
  PROVE  <<j, i>> \in Members
  BY DEF Members, MembersOf

LEMMA MemberJob ==
  ASSUME NEW m \in Members
  PROVE  m[1] \in Jobs /\ m \in MembersOf(m[1])
  BY DEF Members, MembersOf

LEMMA MembersCount ==
  /\ IsFiniteSet(Members)
  /\ \A j \in Jobs : IsFiniteSet(MembersOf(j)) /\ Cardinality(MembersOf(j)) = Size[j]
<1>1. ASSUME NEW j \in Jobs
      PROVE  IsFiniteSet(MembersOf(j)) /\ Cardinality(MembersOf(j)) = Size[j]
  <2>1. Size[j] \in Nat \ {0}
    BY SizeAssumption
  <2>2. IsFiniteSet(1..Size[j]) /\ Cardinality(1..Size[j]) = Size[j]
    BY <2>1, FS_Interval
  <2>3. IsFiniteSet({j}) /\ Cardinality({j}) = 1
    BY FS_Singleton
  <2>4. /\ IsFiniteSet({j} \X (1..Size[j]))
        /\ Cardinality({j} \X (1..Size[j])) = 1 * Size[j]
    BY <2>2, <2>3, FS_Product
  <2>5. QED
    BY <2>1, <2>4 DEF MembersOf
<1>2. IsFiniteSet({MembersOf(j) : j \in Jobs})
  <2> DEFINE S == {MembersOf(j) : j \in Jobs}
             f == [j \in Jobs |-> MembersOf(j)]
  <2>1. f \in Surjection(Jobs, S)
    BY DEF Surjection
  <2>2. QED
    BY <2>1, SizeAssumption, FS_Surjection
<1>3. QED
  BY <1>1, <1>2, FS_UNION DEF Members

-----------------------------------------------------------------------------
(* Types.                                                                  *)

ProcessType ==
  [mode : Modes, pc : Locked \cup Unlocked, job : Jobs \cup {"none"}, item : Nat,
   at : 0..MaxClock, surplus : BOOLEAN, after : {"admit", "sort", "leave"},
   target : SUBSET Members, left : SUBSET Members]

LEMMA DownType ==
  /\ Down \in ProcessType
  /\ \A mode \in Modes : [Down EXCEPT !.mode = mode] \in ProcessType
<1>1. /\ 0 \in 0..MaxClock /\ 0 \in Nat /\ "idle" \in Locked \cup Unlocked
      /\ "down" \in Modes /\ "leave" \in {"admit", "sort", "leave"} /\ FALSE \in BOOLEAN
      /\ "none" \in Jobs \cup {"none"} /\ {} \in SUBSET Members
  BY ClockAssumption DEF Modes, Unlocked
<1>2. Down \in ProcessType
  BY <1>1 DEF Down, ProcessType
<1>3. QED
  BY <1>2 DEF ProcessType

(* What a step does to the process that takes it.                          *)
LEMMA SetMeans ==
  ASSUME TypeOK, NEW s \in Sessions, NEW q, Set(s, q)
  PROVE  /\ process'[s] = q
         /\ \A t \in Sessions \ {s} : process'[t] = process[t]
         /\ q \in ProcessType => process' \in [Sessions -> ProcessType]
  BY DEF TypeOK, Set, ProcessType

LEMMA NowIs ==
  ASSUME TypeOK, NEW s \in Sessions
  PROVE  /\ Now(s) \in 0..MaxClock /\ Now(s) \in {wall, projected[s]}
         /\ wall <= Now(s) /\ projected[s] <= Now(s)
         /\ Max({watermark, wall}) \in {watermark, wall}
         /\ Max({watermark, wall}) \in 0..MaxClock
         /\ wall <= Max({watermark, wall})
<1>1. wall \in 0..MaxClock /\ projected[s] \in 0..MaxClock /\ watermark \in 0..MaxClock
  BY DEF TypeOK
<1>2. wall \in Nat /\ projected[s] \in Nat /\ watermark \in Nat
  BY <1>1
<1>3. QED
  BY <1>1, <1>2, MaxOfTwo DEF Now

(* Where a step ends.                                                      *)
LEMMA EndsType ==
  ASSUME TypeOK, NEW s \in Sessions
  PROVE  /\ process[s] \in ProcessType
         /\ Leave(s) \in ProcessType
         /\ Leave(s) = [Down EXCEPT !.mode = "open"] \/ Leave(s) = Down
  BY DownType DEF TypeOK, Leave, ProcessType, Modes

LEMMA ReconcilingMeans ==
  ASSUME TypeOK, NEW s \in Sessions, NEW mode \in Modes, Reconciling(s, mode)
  PROVE  \E at \in 0..MaxClock :
           /\ wall <= at
           /\ at \in {wall, watermark}
           /\ process'[s] = [Down EXCEPT !.mode = mode, !.pc = "rebase", !.after = "sort",
                                         !.at = at]
           /\ process' \in [Sessions -> ProcessType]
           /\ \A t \in Sessions \ {s} : process'[t] = process[t]
<1> DEFINE at == IF Regressed THEN wall ELSE Max({watermark, wall})
           q == [Down EXCEPT !.mode = mode, !.pc = "rebase", !.after = "sort", !.at = at]
<1>1. wall \in 0..MaxClock /\ watermark \in 0..MaxClock
  BY DEF TypeOK
<1>2. at \in 0..MaxClock /\ wall <= at /\ at \in {wall, watermark}
  BY <1>1, NowIs
<1>3. q \in ProcessType
  <2>1. /\ Down \in ProcessType /\ "rebase" \in Locked \cup Unlocked
        /\ "sort" \in {"admit", "sort", "leave"}
    BY DownType DEF Locked
  <2> HIDE DEF at
  <2>2. QED
    BY <1>2, <2>1 DEF ProcessType
<1>4. Set(s, q)
  BY DEF Reconciling
<1>5. QED
  BY <1>2, <1>3, <1>4, SetMeans

(* The steps of a process leave it a process.                              *)
LEMMA GotoMeans ==
  ASSUME TypeOK, NEW s \in Sessions, NEW pc \in Locked \cup Unlocked, Goto(s, pc)
  PROVE  /\ process'[s] = [process[s] EXCEPT !.pc = pc]
         /\ \A t \in Sessions \ {s} : process'[t] = process[t]
         /\ process' \in [Sessions -> ProcessType]
<1>1. [process[s] EXCEPT !.pc = pc] \in ProcessType
  BY EndsType DEF ProcessType
<1>2. QED
  BY <1>1, SetMeans DEF Goto

LEMMA LeaveMeans ==
  ASSUME TypeOK, NEW s \in Sessions, Set(s, Leave(s))
  PROVE  /\ process'[s].pc = "idle" /\ process'[s].at = 0
         /\ \A t \in Sessions \ {s} : process'[t] = process[t]
         /\ process' \in [Sessions -> ProcessType]
  BY EndsType, SetMeans DEF Down

LEMMA DownMeans ==
  ASSUME TypeOK, NEW s \in Sessions, Set(s, Down)
  PROVE  /\ process'[s].pc = "idle" /\ process'[s].at = 0
         /\ \A t \in Sessions \ {s} : process'[t] = process[t]
         /\ process' \in [Sessions -> ProcessType]
  BY DownType, SetMeans DEF Down

(* A member is settled.                                                    *)
LEMMA SettleMeans ==
  ASSUME TypeOK, NEW s \in Sessions, NEW answer, NEW next \in BOOLEAN,
         Settle(s, answer, next)
  PROVE  /\ told' = [told EXCEPT ![Member(s)] = answer]
         /\ process'[s].pc \in {"member", "release"} /\ process'[s].at = 0
         /\ process'[s].job = process[s].job
         /\ \/ process'[s].item = process[s].item
            \/ /\ process'[s].item = process[s].item + 1
               /\ process[s].item < Size[process[s].job]
         /\ \A t \in Sessions \ {s} : process'[t] = process[t]
         /\ process' \in [Sessions -> ProcessType]
<1> DEFINE p == process[s]
           on == IF next /\ p.item < Size[p.job] THEN "member" ELSE "release"
           q == [p EXCEPT !.pc = on, !.surplus = FALSE, !.at = 0,
                          !.item = IF on = "member" THEN @ + 1 ELSE @]
<1>1. p \in ProcessType
  BY EndsType
<1>2. on \in {"member", "release"} /\ (on = "member" => p.item < Size[p.job])
  OBVIOUS
<1>3. on \in Locked \cup Unlocked /\ 0 \in 0..MaxClock
  BY <1>2, ClockAssumption DEF Unlocked
<1>4. Set(s, q) /\ told' = [told EXCEPT ![Member(s)] = answer]
  BY DEF Settle
<1> HIDE DEF on
<1>5. /\ q.pc = on /\ q.at = 0 /\ q.job = p.job
      /\ q.item = IF on = "member" THEN p.item + 1 ELSE p.item
  BY <1>1 DEF ProcessType
<1>6. q \in ProcessType
  <2>1. (IF on = "member" THEN p.item + 1 ELSE p.item) \in Nat
    BY <1>1 DEF ProcessType
  <2>2. QED
    BY <1>1, <1>3, <2>1 DEF ProcessType
<1> HIDE DEF p, q
<1>7. /\ process'[s] = q
      /\ \A t \in Sessions \ {s} : process'[t] = process[t]
      /\ process' \in [Sessions -> ProcessType]
  BY <1>4, <1>6, SetMeans
<1>8. QED
  BY <1>2, <1>4, <1>5, <1>7 DEF p

LEMMA MemberInHand ==
  ASSUME NEW s \in Sessions, HandTells(s), InHand(process[s])
  PROVE  Member(s) \in Members
  BY MemberType DEF HandTells, Member

(* The variables a process never types: what is left is its own record.    *)
DiskType ==
  /\ claims \subseteq Jobs /\ parts \subseteq Jobs
  /\ blob \in [Members -> {"none", "long", "exact"}]
  /\ descriptors \subseteq Members /\ markers \subseteq Members
  /\ jailed \in [Members -> {"no", "clock", "missing", "size"}]
  /\ watermark \in 0..MaxClock
BookType ==
  /\ fresh \subseteq Jobs /\ created \in [Jobs -> 0..MaxClock]
  /\ told \in [Members -> {"nothing", "stored", "omitted"}]
ClockType ==
  /\ wall \in 0..MaxClock /\ projected \in [Sessions -> 0..MaxClock]
  /\ latest \in 0..MaxClock /\ backs \in 0..MaxBacks /\ faults \in 0..MaxFaults

LEMMA TypeParts ==
  /\ TypeOK <=> /\ DiskType /\ BookType /\ ClockType
                /\ process \in [Sessions -> ProcessType]
  /\ TypeOK' <=> /\ DiskType' /\ BookType' /\ ClockType'
                 /\ process' \in [Sessions -> ProcessType]
  BY DEF TypeOK, DiskType, BookType, ClockType, ProcessType

LEMMA TypesStay ==
  /\ DiskType /\ UNCHANGED disk => DiskType'
  /\ BookType /\ UNCHANGED book => BookType'
  /\ ClockType /\ UNCHANGED <<clock, faults>> => ClockType'
<1>1. ASSUME DiskType, UNCHANGED disk PROVE DiskType'
  BY <1>1 DEF DiskType, disk
<1>2. ASSUME BookType, UNCHANGED book PROVE BookType'
  BY <1>2 DEF BookType, book
<1>3. ASSUME ClockType, UNCHANGED <<clock, faults>> PROVE ClockType'
  BY <1>3 DEF ClockType, clock
<1>4. QED
  BY <1>1, <1>2, <1>3

(* The steps that leave the disk and the books alone.                      *)
LEMMA TypeQuiet ==
  ASSUME TypeOK, NEW s \in Sessions, UNCHANGED <<book, disk>>
  PROVE  /\ (\E mode \in {"opening", "recover"} : Attach(s, mode)) => TypeOK'
         /\ AttachPrune(s) => TypeOK'
         /\ Prune(s) \/ Reserve(s) \/ Reconciled(s) \/ Retry(s) => TypeOK'
<1> USE TypesStay
<1>1. /\ DiskType' /\ BookType' /\ ClockType /\ process[s] \in ProcessType
      /\ wall \in 0..MaxClock /\ Now(s) \in 0..MaxClock
      /\ projected \in [Sessions -> 0..MaxClock]
  BY TypeParts, EndsType, NowIs DEF ClockType
<1>2. ASSUME NEW mode \in {"opening", "recover"}, Attach(s, mode) PROVE TypeOK'
  <2>1. ClockType'
    BY <1>1, <1>2 DEF Attach, ClockType
  <2>2. mode \in Modes /\ "blocked" \in Modes
    BY DEF Modes
  <2>3. process' \in [Sessions -> ProcessType]
    <3>1. CASE Reconciling(s, mode)
      BY <3>1, <2>2, ReconcilingMeans
    <3>2. CASE Set(s, [Down EXCEPT !.mode = "blocked"])
      BY <3>2, <2>2, DownType, SetMeans
    <3>3. QED
      BY <1>2, <3>1, <3>2 DEF Attach
  <2>4. QED
    BY <1>1, <2>1, <2>3, TypeParts
<1>3. ASSUME AttachPrune(s) PROVE TypeOK'
  <2>1. ClockType'
    BY <1>1, <1>3 DEF AttachPrune, ClockType
  <2>2. [Down EXCEPT !.mode = "prune", !.pc = "prune"] \in ProcessType
    <3>1. "prune" \in Modes /\ "prune" \in Locked \cup Unlocked
      BY DEF Modes, Unlocked
    <3>2. QED
      BY <3>1, DownType DEF ProcessType
  <2>3. QED
    BY <1>1, <1>3, <2>1, <2>2, SetMeans, TypeParts DEF AttachPrune
<1>4. ASSUME Prune(s) PROVE TypeOK'
  <2>1. [process[s] EXCEPT !.pc = "reclaim", !.after = "leave", !.at = Now(s)] \in ProcessType
    BY <1>1 DEF ProcessType, Locked
  <2>2. QED
    BY <1>1, <1>4, <2>1, DownType, SetMeans, TypeParts DEF Prune
<1>5. ASSUME Reserve(s) PROVE TypeOK'
  <2>1. [process[s] EXCEPT !.pc = "reclaim", !.after = "admit", !.at = Now(s)] \in ProcessType
    BY <1>1 DEF ProcessType, Locked
  <2>2. QED
    BY <1>1, <1>5, <2>1, EndsType, SetMeans, TypeParts DEF Reserve
<1>6. ASSUME Reconciled(s) PROVE TypeOK'
  BY <1>1, <1>6, EndsType, SetMeans, TypeParts DEF Reconciled
<1>7. ASSUME Retry(s) PROVE TypeOK'
  <2>1. "open" \in Modes
    BY DEF Modes
  <2>2. CASE Reconciling(s, "open")
    BY <1>1, <1>7, <2>1, <2>2, ReconcilingMeans, TypeParts DEF Retry
  <2>3. CASE Set(s, Leave(s))
    BY <1>1, <1>7, <2>3, EndsType, SetMeans, TypeParts DEF Retry
  <2>4. QED
    BY <1>7, <2>2, <2>3 DEF Retry
<1>8. QED
  BY <1>2, <1>3, <1>4, <1>5, <1>6, <1>7

(* Reclamation and reconciliation.                                         *)
LEMMA TypeSweep ==
  ASSUME TypeOK, NEW s \in Sessions, BookType', ClockType'
  PROVE  Rebase(s) \/ Reclaim(s) \/ Unlink(s) \/ Reclaimed(s) \/ Sort(s) \/ Jail(s)
           => TypeOK'
<1>1. DiskType /\ process[s] \in ProcessType
  BY TypeParts, EndsType
<1>2. {"reclaim", "unlink", "verify", "jail"} \subseteq Locked \cup Unlocked
  BY DEF Locked
<1>3. ASSUME Rebase(s) PROVE TypeOK'
  <2>1. DiskType'
    BY <1>1, <1>3 DEF Rebase, DiskType, ProcessType
  <2>2. QED
    BY <1>2, <1>3, <2>1, GotoMeans, TypeParts DEF Rebase
<1>4. ASSUME Reclaim(s) PROVE TypeOK'
  <2>1. PICK m \in descriptors :
          Set(s, [process[s] EXCEPT !.pc = "unlink", !.target = {m}])
    BY <1>4 DEF Reclaim
  <2>2. m \in Members
    BY <1>1, <2>1 DEF DiskType
  <2>3. [process[s] EXCEPT !.pc = "unlink", !.target = {m}] \in ProcessType
    BY <1>1, <1>2, <2>2 DEF ProcessType
  <2>4. DiskType'
    BY <1>1, <1>4 DEF Reclaim, DiskType
  <2>5. QED
    BY <2>1, <2>3, <2>4, SetMeans, TypeParts
<1>5. ASSUME Unlink(s) PROVE TypeOK'
  <2>1. [process[s] EXCEPT !.pc = "reclaim", !.target = {}] \in ProcessType
    BY <1>1, <1>2 DEF ProcessType
  <2>2. DiskType'
    BY <1>1, <1>5 DEF Unlink, DiskType
  <2>3. QED
    BY <1>5, <2>1, <2>2, SetMeans, TypeParts DEF Unlink
<1>6. ASSUME Reclaimed(s) PROVE TypeOK'
  <2>1. DiskType'
    BY <1>1, <1>6 DEF Reclaimed, DiskType
  <2>2. process[s].after \in Locked \cup Unlocked \/ process[s].after = "leave"
    BY <1>1 DEF ProcessType, Locked
  <2>3. process' \in [Sessions -> ProcessType]
    BY <1>6, <2>2, LeaveMeans, GotoMeans DEF Reclaimed
  <2>4. QED
    BY <2>1, <2>3, TypeParts
<1>7. ASSUME Sort(s) PROVE TypeOK'
  <2>1. descriptors \in SUBSET Members
    BY <1>1 DEF DiskType
  <2>2. [process[s] EXCEPT !.pc = "verify", !.left = descriptors] \in ProcessType
    BY <1>1, <1>2, <2>1 DEF ProcessType
  <2>3. DiskType'
    BY <1>1, <1>7 DEF Sort, DiskType
  <2>4. QED
    BY <1>7, <2>2, <2>3, SetMeans, TypeParts DEF Sort
<1>8. ASSUME Jail(s) PROVE TypeOK'
  <2>1. [process[s] EXCEPT !.pc = "verify", !.target = {}] \in ProcessType
    BY <1>1, <1>2 DEF ProcessType
  <2>2. DiskType'
    BY <1>1, <1>8 DEF Jail, DiskType
  <2>3. QED
    BY <1>8, <2>1, <2>2, SetMeans, TypeParts DEF Jail
<1>9. QED
  BY <1>3, <1>4, <1>5, <1>6, <1>7, <1>8

(* Why a pair is rejected.                                                 *)
LEMMA ReasonMeans ==
  ASSUME NEW m, NEW at
  PROVE  /\ Reason(m, at) \in {"clock", "missing", "size", "no"}
         /\ Reason(m, at) = "clock" => created[m[1]] > at
         /\ Reason(m, at) = "missing" => blob[m] = "none"
         /\ Reason(m, at) = "size" => blob[m] = "long" /\ m \notin markers
         /\ Reason(m, at) = "no" => /\ blob[m] # "none"
                                    /\ blob[m] = "long" => m \in markers
  BY DEF Reason

(* What the verification of one pair does.                                 *)
Verifies(s, m) ==
  /\ blob' = [blob EXCEPT ![m] = "exact"]
  /\ markers' = IF blob[m] = "long" THEN markers \ {m} ELSE markers
  /\ Set(s, [process[s] EXCEPT !.left = @ \ {m}]) /\ UNCHANGED jailed
Rejects(s, m, reason) ==
  /\ blob' = [blob EXCEPT ![m] = "none"]
  /\ jailed' = [jailed EXCEPT ![m] = IF @ = "no" THEN reason ELSE @]
  /\ Set(s, [process[s] EXCEPT !.pc = "jail", !.target = {m}, !.left = @ \ {m}])
  /\ UNCHANGED markers

LEMMA VerifyMeans ==
  ASSUME NEW s \in Sessions, Verify(s)
  PROVE  /\ At(s, "verify") /\ UNCHANGED <<clock, book, claims, parts, descriptors,
                                           watermark, faults>>
         /\ \E m \in process[s].left :
              \/ Reason(m, process[s].at) = "no" /\ Verifies(s, m)
              \/ /\ Reason(m, process[s].at) \in {"clock", "missing", "size"}
                 /\ Rejects(s, m, Reason(m, process[s].at))
<1> DEFINE m == CHOOSE n \in process[s].left : TRUE
           reason == Reason(m, process[s].at)
<1>1. m \in process[s].left
  BY DEF Verify
<1>2. CASE reason = "no"
  <2>1. Verifies(s, m)
    BY <1>2 DEF Verify, Verifies
  <2>2. QED
    BY <1>1, <1>2, <2>1 DEF Verify
<1>3. CASE reason # "no"
  <2>1. Rejects(s, m, reason)
    BY <1>3 DEF Verify, Rejects
  <2>2. reason \in {"clock", "missing", "size"}
    BY <1>3, ReasonMeans
  <2>3. QED
    BY <1>1, <2>1, <2>2 DEF Verify
<1>4. QED
  BY <1>2, <1>3

LEMMA TypeVerify ==
  ASSUME TypeOK, NEW s \in Sessions, Verify(s)
  PROVE  TypeOK'
<1>1. /\ DiskType /\ BookType' /\ ClockType'
      /\ process[s] \in ProcessType /\ process[s].left \subseteq Members
  BY TypeParts, TypesStay, EndsType, VerifyMeans DEF ProcessType, Verify
<1>2. PICK m \in process[s].left :
        \/ Reason(m, process[s].at) = "no" /\ Verifies(s, m)
        \/ /\ Reason(m, process[s].at) \in {"clock", "missing", "size"}
           /\ Rejects(s, m, Reason(m, process[s].at))
  BY VerifyMeans
<1>3. CASE Verifies(s, m)
  <2>1. [process[s] EXCEPT !.left = @ \ {m}] \in ProcessType
    BY <1>1 DEF ProcessType
  <2>2. DiskType'
    BY <1>1, <1>3, VerifyMeans DEF Verifies, DiskType
  <2>3. QED
    BY <1>1, <1>3, <2>1, <2>2, SetMeans, TypeParts DEF Verifies
<1>4. CASE /\ Reason(m, process[s].at) \in {"clock", "missing", "size"}
           /\ Rejects(s, m, Reason(m, process[s].at))
  <2>1. [process[s] EXCEPT !.pc = "jail", !.target = {m}, !.left = @ \ {m}] \in ProcessType
    BY <1>1 DEF ProcessType, Locked
  <2>2. jailed' \in [Members -> {"no", "clock", "missing", "size"}]
    BY <1>1, <1>4 DEF Rejects, DiskType
  <2>3. DiskType'
    BY <1>1, <1>4, <2>2, VerifyMeans DEF Rejects, DiskType
  <2>4. QED
    BY <1>1, <1>4, <2>1, <2>3, SetMeans, TypeParts DEF Rejects
<1>5. QED
  BY <1>2, <1>3, <1>4

(* Publishing.                                                             *)
LEMMA TypeSettle ==
  ASSUME TypeOK, NEW s \in Sessions, NEW answer \in {"stored", "omitted"},
         NEW next \in BOOLEAN, Settle(s, answer, next), UNCHANGED <<fresh, created>>
  PROVE  BookType' /\ process' \in [Sessions -> ProcessType]
<1>1. told' = [told EXCEPT ![Member(s)] = answer]
  BY SettleMeans
<1>2. BookType
  BY TypeParts
<1>3. QED
  BY <1>1, <1>2, SettleMeans DEF BookType

LEMMA TypeOmit ==
  ASSUME TypeOK, NEW s \in Sessions, Omit(s)
  PROVE  BookType' /\ process' \in [Sessions -> ProcessType]
  BY TypeSettle DEF Omit

LEMMA TypePublish ==
  ASSUME TypeOK, NEW s \in Sessions, HandTells(s)
  PROVE  /\ (\E j \in Jobs : Capture(s, j)) => TypeOK'
         /\ Admit(s) \/ Ingest(s) \/ Publish(s) \/ Release(s) => TypeOK'
<1> USE TypesStay
<1>1. /\ DiskType /\ BookType /\ ClockType /\ process[s] \in ProcessType
      /\ Now(s) \in 0..MaxClock
  BY TypeParts, EndsType, NowIs
<1>2. {"captured", "member", "publish", "watermark", "retry"} \subseteq Locked \cup Unlocked
  BY DEF Locked, Unlocked
<1>3. ASSUME NEW j \in Jobs, Capture(s, j) PROVE TypeOK'
  <2>1. BookType'
    BY <1>1, <1>3 DEF Capture, BookType, ClockType
  <2>2. [process[s] EXCEPT !.pc = "captured", !.job = j, !.item = 1] \in ProcessType
    BY <1>1, <1>2 DEF ProcessType
  <2>3. QED
    BY <1>1, <1>3, <2>1, <2>2, SetMeans, TypeParts DEF Capture
<1>4. ASSUME Admit(s) PROVE TypeOK'
  <2>1. process[s].job \in Jobs
    BY <1>4 DEF Admit, At, HandTells, InHand
  <2>2. DiskType'
    BY <1>1, <1>4, <2>1 DEF Admit, DiskType
  <2>3. process' \in [Sessions -> ProcessType]
    BY <1>2, <1>4, GotoMeans, LeaveMeans DEF Admit
  <2>4. QED
    BY <1>1, <1>4, <2>2, <2>3, TypeParts DEF Admit
<1>5. ASSUME Ingest(s) PROVE TypeOK'
  <2>1. process[s].job \in Jobs
    BY <1>5 DEF Ingest, At, HandTells, InHand
  <2>2. DiskType'
    BY <1>1, <1>5, <2>1 DEF Ingest, DiskType
  <2>3. BookType' /\ process' \in [Sessions -> ProcessType]
    <3>1. CASE Omit(s)
      BY <3>1, TypeOmit
    <3>2. CASE ~Omit(s)
      <4>1. PICK surplus \in BOOLEAN :
              Set(s, [process[s] EXCEPT !.pc = "publish", !.surplus = surplus])
        BY <1>5, <3>2 DEF Ingest
      <4>2. [process[s] EXCEPT !.pc = "publish", !.surplus = surplus] \in ProcessType
        BY <1>1, <1>2 DEF ProcessType
      <4>3. QED
        BY <1>1, <1>5, <3>2, <4>1, <4>2, SetMeans DEF Ingest
    <3>3. QED
      BY <3>1, <3>2
  <2>4. QED
    BY <1>1, <1>5, <2>2, <2>3, TypeParts DEF Ingest
<1>6. ASSUME Publish(s) PROVE TypeOK'
  <2>1. BookType' /\ process' \in [Sessions -> ProcessType]
    <3>1. CASE Omit(s)
      BY <3>1, TypeOmit
    <3>2. CASE Set(s, [process[s] EXCEPT !.pc = "watermark", !.at = Now(s)]) /\ UNCHANGED book
      <4>1. [process[s] EXCEPT !.pc = "watermark", !.at = Now(s)] \in ProcessType
        BY <1>1, <1>2 DEF ProcessType
      <4>2. QED
        BY <1>1, <3>2, <4>1, SetMeans
    <3>3. QED
      BY <1>6, <3>1, <3>2 DEF Publish
  <2>2. QED
    BY <1>1, <1>6, <2>1, TypeParts DEF Publish
<1>7. ASSUME Release(s) PROVE TypeOK'
  <2>1. DiskType'
    BY <1>1, <1>7 DEF Release, DiskType
  <2>2. process' \in [Sessions -> ProcessType]
    BY <1>2, <1>7, GotoMeans, LeaveMeans DEF Release
  <2>3. QED
    BY <1>1, <1>7, <2>1, <2>2, TypeParts DEF Release
<1>8. QED
  BY <1>3, <1>4, <1>5, <1>6, <1>7

LEMMA TypeCommit ==
  ASSUME TypeOK, NEW s \in Sessions, HandTells(s), ClockType'
  PROVE  /\ Advance(s) \/ Mark(s) \/ Move(s) \/ Commit(s) \/ Truncate(s) \/ Unmark(s)
              => TypeOK'
         /\ CommitUnconfirmed(s) => TypeOK'
<1> USE TypesStay
<1>1. DiskType /\ BookType /\ process[s] \in ProcessType
  BY TypeParts, EndsType
<1>2. {"mark", "move", "commit", "truncate", "unmark"} \subseteq Locked \cup Unlocked
  BY DEF Locked
<1>3. Committing(process[s].pc) => Member(s) \in Members
  BY MemberInHand DEF InHand
<1>4. ASSUME Advance(s) PROVE TypeOK'
  <2>1. DiskType'
    BY <1>1, <1>4 DEF Advance, DiskType, ProcessType
  <2>2. QED
    BY <1>1, <1>2, <1>4, <2>1, GotoMeans, TypeParts DEF Advance
<1>5. ASSUME Mark(s) PROVE TypeOK'
  <2>1. DiskType'
    BY <1>1, <1>3, <1>5 DEF Mark, At, Committing, DiskType
  <2>2. QED
    BY <1>1, <1>2, <1>5, <2>1, GotoMeans, TypeParts DEF Mark
<1>6. ASSUME Move(s) PROVE TypeOK'
  <2>1. DiskType'
    BY <1>1, <1>6 DEF Move, DiskType
  <2>2. QED
    BY <1>1, <1>2, <1>6, <2>1, GotoMeans, TypeParts DEF Move
<1>7. ASSUME Commit(s) PROVE TypeOK'
  <2>1. DiskType'
    BY <1>1, <1>3, <1>7 DEF Commit, At, Committing, DiskType
  <2>2. BookType' /\ process' \in [Sessions -> ProcessType]
    <3>1. CASE process[s].surplus
      BY <1>1, <1>2, <1>7, <3>1, GotoMeans DEF Commit
    <3>2. CASE ~process[s].surplus
      BY <1>7, <3>2, TypeSettle DEF Commit, Stored
    <3>3. QED
      BY <3>1, <3>2
  <2>3. QED
    BY <2>1, <2>2, TypeParts
<1>8. ASSUME Truncate(s) PROVE TypeOK'
  <2>1. DiskType'
    BY <1>1, <1>8 DEF Truncate, DiskType
  <2>2. QED
    BY <1>1, <1>2, <1>8, <2>1, GotoMeans, TypeParts DEF Truncate
<1>9. ASSUME Unmark(s) PROVE TypeOK'
  <2>1. DiskType'
    BY <1>1, <1>9 DEF Unmark, DiskType
  <2>2. QED
    BY <1>9, <2>1, TypeSettle, TypeParts DEF Unmark, Stored
<1>10. ASSUME CommitUnconfirmed(s) PROVE TypeOK'
  <2>1. DiskType'
    BY <1>1, <1>3, <1>10 DEF CommitUnconfirmed, At, Committing, DiskType
  <2>2. QED
    BY <1>10, <2>1, TypeOmit, TypeParts DEF CommitUnconfirmed
<1>11. QED
  BY <1>4, <1>5, <1>6, <1>7, <1>8, <1>9, <1>10

(* The environment.                                                        *)
LEMMA TickMeans ==
  ASSUME TypeOK, Tick
  PROVE  /\ wall < MaxClock /\ \A s \in Sessions : projected[s] < MaxClock
         /\ latest' \in 0..MaxClock /\ latest <= latest'
         /\ wall' <= latest' /\ \A s \in Sessions : projected'[s] <= latest'
<1> DEFINE seen == {wall} \cup {projected[s] : s \in Sessions}
           next == {latest, wall'} \cup {projected'[s] : s \in Sessions}
<1>1. ClockType /\ MaxClock \in Nat
  BY TypeParts, ClockAssumption
<1>2. seen \in SUBSET (0..MaxClock) /\ wall \in seen
  BY <1>1 DEF ClockType
<1>3. \A x \in seen : x <= Ceiling
  BY <1>1, <1>2, MaxOf DEF Ceiling
<1>4. Ceiling \in 0..MaxClock
  BY <1>1, <1>2, MaxOf DEF Ceiling
<1>5. Ceiling < MaxClock
  BY DEF Tick
<1>6. \A x \in seen : x < MaxClock /\ x \in 0..MaxClock
  BY <1>1, <1>2, <1>3, <1>4, <1>5
<1>7. wall < MaxClock /\ \A s \in Sessions : projected[s] < MaxClock
  BY <1>6
<1>8. wall' = wall + 1 /\ projected' = [s \in Sessions |-> IF process[s].mode = "down"
                                           THEN projected[s] ELSE projected[s] + 1]
  BY DEF Tick
<1>9. wall' \in 0..MaxClock /\ \A s \in Sessions : projected'[s] \in 0..MaxClock
  BY <1>1, <1>7, <1>8 DEF ClockType
<1>10. next \in SUBSET (0..MaxClock) /\ latest \in next /\ wall' \in next
  BY <1>1, <1>9 DEF ClockType
<1>11. latest' = Max(next)
  BY DEF Tick
<1>12. latest' \in next /\ \A x \in next : x <= latest'
  BY <1>1, <1>10, <1>11, MaxOf
<1>13. QED
  BY <1>7, <1>10, <1>12

LEMMA TypeEnvironment ==
  ASSUME TypeOK
  PROVE  Tick \/ SetBack => TypeOK'
<1>1. DiskType /\ BookType /\ ClockType /\ process \in [Sessions -> ProcessType]
  BY TypeParts
<1>2. ASSUME Tick PROVE TypeOK'
  <2>1. wall' \in 0..MaxClock
    BY <1>1, <1>2, TickMeans, ClockAssumption DEF Tick, ClockType
  <2>2. projected' \in [Sessions -> 0..MaxClock]
    BY <1>1, <1>2, TickMeans, ClockAssumption DEF Tick, ClockType
  <2>3. ClockType'
    BY <1>1, <1>2, <2>1, <2>2, TickMeans DEF Tick, ClockType
  <2>4. QED
    BY <1>1, <1>2, <2>3, TypesStay, TypeParts DEF Tick
<1>3. ASSUME SetBack PROVE TypeOK'
  <2>1. wall' \in 0..MaxClock /\ backs' \in 0..MaxBacks
    BY <1>1, <1>3, FaultAssumption, ClockAssumption DEF SetBack, ClockType
  <2>2. ClockType'
    BY <1>1, <1>3, <2>1 DEF SetBack, ClockType
  <2>3. QED
    BY <1>1, <1>3, <2>2, TypesStay, TypeParts DEF SetBack
<1>4. QED
  BY <1>2, <1>3

LEMMA TypeFaults ==
  ASSUME TypeOK, NEW s \in Sessions, Fault
  PROVE  /\ UNCHANGED clock => ClockType'
         /\ Crash(s) \/ PublishFails(s) \/ Stops(s) => TypeOK'
<1> USE TypesStay
<1>1. DiskType /\ BookType /\ ClockType /\ process[s] \in ProcessType
  BY TypeParts, EndsType
<1>2. ASSUME UNCHANGED clock PROVE ClockType'
  BY <1>1, <1>2, FaultAssumption DEF Fault, ClockType, clock
<1>3. ASSUME Crash(s) PROVE TypeOK'
  <2>1. ClockType'
    BY <1>1, <1>3, FaultAssumption, ClockAssumption DEF Crash, Fault, ClockType
  <2>2. QED
    BY <1>1, <1>3, <2>1, DownMeans, TypeParts DEF Crash
<1>4. ASSUME PublishFails(s) PROVE TypeOK'
  BY <1>1, <1>2, <1>4, TypeOmit, TypeParts DEF PublishFails
<1>5. ASSUME Stops(s) PROVE TypeOK'
  <2>1. process' \in [Sessions -> ProcessType]
    <3>1. "retry" \in Locked \cup Unlocked
      BY DEF Unlocked
    <3>2. QED
      BY <1>5, <3>1, DownMeans, LeaveMeans, GotoMeans DEF Stops, Fail
  <2>2. QED
    BY <1>1, <1>2, <1>5, <2>1, TypeParts DEF Stops
<1>6. QED
  BY <1>2, <1>3, <1>4, <1>5

-----------------------------------------------------------------------------
(* The lock.                                                               *)

Acts(s) ==
  \/ (\E mode \in {"opening", "recover"} : Attach(s, mode)) \/ AttachPrune(s)
  \/ (\E j \in Jobs : Capture(s, j)) \/ Work(s)
  \/ Crash(s) \/ PublishFails(s) \/ CommitUnconfirmed(s) \/ Stops(s)

LEMMA NextIs == Next <=> (\E s \in Sessions : Acts(s)) \/ Tick \/ SetBack
  BY DEF Next, Acts

(* A step changes the process that takes it and no other, and takes the    *)
(* lock only when it is free.                                              *)
Alone(s) ==
  /\ \A t \in Sessions \ {s} : process'[t] = process[t]
  /\ Holds(s)' => Holds(s) \/ LockFree

LEMMA SettleAlone ==
  ASSUME TypeOK, NEW s \in Sessions
  PROVE  /\ Omit(s) => Alone(s)
         /\ Stored(s) => Alone(s)
<1>1. ASSUME NEW answer, NEW next \in BOOLEAN, Settle(s, answer, next)
      PROVE  Alone(s)
  BY <1>1, SettleMeans DEF Alone, Holds, Locked
<1>2. QED
  BY <1>1 DEF Omit, Stored

LEMMA GotoRetryAlone ==
  ASSUME TypeOK, NEW s \in Sessions, Goto(s, "retry")
  PROVE  Alone(s)
<1>1. "retry" \in Locked \cup Unlocked /\ "retry" \notin Locked
  BY DEF Locked, Unlocked
<1>2. process'[s] = [process[s] EXCEPT !.pc = "retry"]
  BY <1>1, GotoMeans
<1>3. process'[s].pc = "retry"
  BY <1>2, EndsType DEF ProcessType
<1>4. QED
  BY <1>1, <1>3, GotoMeans DEF Alone, Holds

LEMMA ActsAlone ==
  ASSUME TypeOK, NEW s \in Sessions, Acts(s)
  PROVE  Alone(s)
<1>1. ASSUME NEW mode \in {"opening", "recover"}, Attach(s, mode) PROVE Alone(s)
  <2>1. LockFree
    BY <1>1 DEF Attach
  <2>2. mode \in Modes
    BY DEF Modes
  <2>3. QED
    BY <1>1, <2>1, <2>2, ReconcilingMeans, SetMeans DEF Attach, Alone
<1>2. ASSUME AttachPrune(s) PROVE Alone(s)
  <2>1. process'[s] = [Down EXCEPT !.mode = "prune", !.pc = "prune"]
    BY <1>2, SetMeans DEF AttachPrune
  <2>2. QED
    BY <1>2, <2>1, SetMeans DEF AttachPrune, Alone, Holds, Locked, Down
<1>3. ASSUME NEW j \in Jobs, Capture(s, j) PROVE Alone(s)
  <2>1. process'[s] = [process[s] EXCEPT !.pc = "captured", !.job = j, !.item = 1]
    BY <1>3, SetMeans DEF Capture
  <2>2. process'[s].pc = "captured"
    BY <2>1, EndsType DEF ProcessType
  <2>3. QED
    BY <1>3, <2>2, SetMeans DEF Capture, Alone, Holds, Locked
<1>4. ASSUME Rebase(s) \/ Reclaim(s) \/ Unlink(s) \/ Reclaimed(s) \/ Sort(s) \/ Verify(s)
               \/ Jail(s) \/ Reconciled(s) \/ Admit(s) \/ Advance(s) \/ Mark(s) \/ Move(s)
               \/ Commit(s) \/ Truncate(s) \/ Unmark(s) \/ CommitUnconfirmed(s)
      PROVE  Alone(s)
  <2>1. Holds(s)
    BY <1>4 DEF Holds, Locked, At, Rebase, Reclaim, Unlink, Reclaimed, Sort, Verify, Jail,
                Reconciled, Admit, Advance, Mark, Move, Commit, Truncate, Unmark,
                CommitUnconfirmed
  <2>2. \E q : Set(s, q)
    BY <1>4 DEF Rebase, Reclaim, Unlink, Reclaimed, Sort, Verify, Jail, Reconciled, Admit,
                Advance, Mark, Move, Commit, Truncate, Unmark, CommitUnconfirmed,
                Goto, Stored, Omit, Settle
  <2>3. QED
    BY <2>1, <2>2, SetMeans DEF Alone
<1>5. ASSUME Prune(s) \/ Reserve(s) \/ Ingest(s) \/ Publish(s) \/ Release(s) \/ Retry(s)
      PROVE  Alone(s)
  <2>1. CASE LockFree
    <3>1. \E q : Set(s, q)
      BY <1>5, <2>1 DEF Prune, Reserve, Ingest, Publish, Release, Retry, Omit, Settle,
                        Reconciling, Goto
    <3>2. QED
      BY <2>1, <3>1, SetMeans DEF Alone
  <2>2. CASE ~LockFree
    <3>1. Set(s, Down) \/ Set(s, Leave(s)) \/ Omit(s) \/ Goto(s, "retry")
      BY <1>5, <2>2 DEF Prune, Reserve, Ingest, Publish, Release, Retry
    <3>2. "retry" \in Unlocked /\ {"idle", "retry"} \cap Locked = {}
      BY DEF Locked, Unlocked
    <3>3. CASE Set(s, Down) \/ Set(s, Leave(s))
      BY <3>2, <3>3, DownMeans, LeaveMeans DEF Alone, Holds
    <3>4. CASE Goto(s, "retry")
      BY <3>2, <3>4, GotoRetryAlone
    <3>5. QED
      BY <3>1, <3>3, <3>4, SettleAlone
  <2>3. QED
    BY <2>1, <2>2
<1>6. ASSUME Crash(s) PROVE Alone(s)
  BY <1>6, DownMeans DEF Crash, Alone, Holds, Locked
<1>7. ASSUME PublishFails(s) PROVE Alone(s)
  BY <1>7, SettleAlone DEF PublishFails
<1>8. ASSUME Stops(s) PROVE Alone(s)
  <2>1. {"idle", "retry"} \cap Locked = {} /\ "retry" \in Locked \cup Unlocked
    BY DEF Locked, Unlocked
  <2>2. CASE Fail(s)
    BY <2>1, <2>2, DownMeans, LeaveMeans DEF Fail, Alone, Holds
  <2>3. CASE Goto(s, "retry")
    BY <2>1, <2>3, GotoRetryAlone
  <2>4. QED
    BY <1>8, <2>2, <2>3 DEF Stops
<1>9. QED
  BY <1>1, <1>2, <1>3, <1>4, <1>5, <1>6, <1>7, <1>8 DEF Acts, Work

(* What a step of a process leaves alone: who does not hold the lock while *)
(* another does touches no file, and a capture is made once.               *)
LEMMA LockGuards ==
  ASSUME NEW s \in Sessions, Acts(s), ~Holds(s), ~LockFree
  PROVE  UNCHANGED disk
<1> USE DEF disk
<1>1. CASE \/ (\E mode \in {"opening", "recover"} : Attach(s, mode)) \/ AttachPrune(s)
           \/ (\E j \in Jobs : Capture(s, j)) \/ Crash(s) \/ PublishFails(s) \/ Stops(s)
  BY <1>1 DEF Attach, AttachPrune, Capture, Crash, PublishFails, Stops
<1>2. CASE Prune(s) \/ Reserve(s) \/ Ingest(s) \/ Publish(s) \/ Release(s) \/ Retry(s)
             \/ Reconciled(s)
  BY <1>2 DEF Prune, Reserve, Ingest, Publish, Release, Retry, Reconciled
<1>3. CASE Rebase(s) \/ Reclaim(s) \/ Unlink(s) \/ Reclaimed(s) \/ Sort(s) \/ Verify(s)
             \/ Jail(s) \/ Admit(s) \/ Advance(s) \/ Mark(s) \/ Move(s)
             \/ Commit(s) \/ Truncate(s) \/ Unmark(s) \/ CommitUnconfirmed(s)
  BY <1>3 DEF Holds, Locked, At, Rebase, Reclaim, Unlink, Reclaimed, Sort, Verify, Jail,
              Admit, Advance, Mark, Move, Commit, Truncate, Unmark, CommitUnconfirmed
<1>4. QED
  BY <1>1, <1>2, <1>3 DEF Acts, Work

LEMMA BooksGrow ==
  ASSUME TypeOK, NEW s \in Sessions, Acts(s)
  PROVE  /\ fresh' \subseteq fresh /\ backs' = backs /\ wall' = wall /\ latest' = latest
         /\ \A j \in Jobs \ fresh : created'[j] = created[j]
<1> USE DEF book, clock
<1>1. CASE \E j \in Jobs : Capture(s, j)
  BY <1>1 DEF Capture, TypeOK
<1>2. CASE \/ (\E mode \in {"opening", "recover"} : Attach(s, mode)) \/ AttachPrune(s)
           \/ Crash(s) \/ PublishFails(s) \/ Stops(s) \/ CommitUnconfirmed(s)
  BY <1>2 DEF Attach, AttachPrune, Crash, PublishFails, Stops, CommitUnconfirmed, Omit
<1>3. CASE Rebase(s) \/ Reclaim(s) \/ Unlink(s) \/ Reclaimed(s) \/ Sort(s) \/ Verify(s)
             \/ Jail(s) \/ Admit(s) \/ Advance(s) \/ Mark(s) \/ Move(s)
             \/ Commit(s) \/ Truncate(s) \/ Unmark(s)
  BY <1>3 DEF Rebase, Reclaim, Unlink, Reclaimed, Sort, Verify, Jail,
              Admit, Advance, Mark, Move, Commit, Truncate, Unmark, Stored
<1>4. CASE Prune(s) \/ Reserve(s) \/ Ingest(s) \/ Publish(s) \/ Release(s) \/ Retry(s)
             \/ Reconciled(s)
  BY <1>4 DEF Prune, Reserve, Ingest, Publish, Release, Retry, Reconciled, Omit
<1>5. QED
  BY <1>1, <1>2, <1>3, <1>4 DEF Acts, Work

LEMMA HolderStep ==
  ASSUME TypeOK, OneHolder, NEW s \in Sessions, Acts(s)
  PROVE  OneHolder'
<1>1. ASSUME NEW t \in Sessions, NEW u \in Sessions, Holds(t)', Holds(u)' PROVE t = u
  <2>1. \A r \in Sessions \ {s} : Holds(r)' => Holds(r)
    BY ActsAlone DEF Alone, Holds
  <2>2. Holds(s)' => Holds(s) \/ \A r \in Sessions : ~Holds(r)
    BY ActsAlone DEF Alone, Holds, LockFree
  <2>3. QED
    BY <1>1, <2>1, <2>2 DEF OneHolder
<1>2. QED
  BY <1>1 DEF OneHolder

-----------------------------------------------------------------------------
(* What a step makes of the record of its process, field by field.         *)

Becomes(s, pc, job, item, at, surplus, after, target, left) ==
  LET p == process'[s] IN
  /\ p.pc = pc /\ p.job = job /\ p.item = item /\ p.at = at /\ p.surplus = surplus
  /\ p.after = after /\ p.target = target /\ p.left = left

LEMMA Edits ==
  ASSUME TypeOK, NEW s \in Sessions, NEW pc, NEW a, NEW b
  PROVE  LET p == process[s] IN
         /\ Set(s, [p EXCEPT !.pc = pc]) =>
              Becomes(s, pc, p.job, p.item, p.at, p.surplus, p.after, p.target, p.left)
         /\ Set(s, [p EXCEPT !.pc = pc, !.target = a]) =>
              Becomes(s, pc, p.job, p.item, p.at, p.surplus, p.after, a, p.left)
         /\ Set(s, [p EXCEPT !.pc = pc, !.left = b]) =>
              Becomes(s, pc, p.job, p.item, p.at, p.surplus, p.after, p.target, b)
         /\ Set(s, [p EXCEPT !.left = b]) =>
              Becomes(s, p.pc, p.job, p.item, p.at, p.surplus, p.after, p.target, b)
         /\ Set(s, [p EXCEPT !.pc = pc, !.target = a, !.left = b]) =>
              Becomes(s, pc, p.job, p.item, p.at, p.surplus, p.after, a, b)
         /\ Set(s, [p EXCEPT !.pc = pc, !.after = a, !.at = b]) =>
              Becomes(s, pc, p.job, p.item, b, p.surplus, a, p.target, p.left)
         /\ Set(s, [p EXCEPT !.pc = pc, !.job = a, !.item = b]) =>
              Becomes(s, pc, a, b, p.at, p.surplus, p.after, p.target, p.left)
         /\ Set(s, [p EXCEPT !.pc = pc, !.at = b]) =>
              Becomes(s, pc, p.job, p.item, b, p.surplus, p.after, p.target, p.left)
         /\ Set(s, [p EXCEPT !.pc = pc, !.surplus = a]) =>
              Becomes(s, pc, p.job, p.item, p.at, a, p.after, p.target, p.left)
<1>1. process[s] \in ProcessType
  BY EndsType
<1>2. ASSUME Set(s, [process[s] EXCEPT !.pc = pc])
      PROVE  Becomes(s, pc, process[s].job, process[s].item, process[s].at, process[s].surplus, process[s].after, process[s].target, process[s].left)
  <2>1. process'[s] = [process[s] EXCEPT !.pc = pc]
    BY <1>2, SetMeans
  <2>2. QED
    BY <1>1, <2>1 DEF Becomes, ProcessType
<1>3. ASSUME Set(s, [process[s] EXCEPT !.pc = pc, !.target = a])
      PROVE  Becomes(s, pc, process[s].job, process[s].item, process[s].at, process[s].surplus, process[s].after, a, process[s].left)
  <2>1. process'[s] = [process[s] EXCEPT !.pc = pc, !.target = a]
    BY <1>3, SetMeans
  <2>2. QED
    BY <1>1, <2>1 DEF Becomes, ProcessType
<1>4. ASSUME Set(s, [process[s] EXCEPT !.pc = pc, !.left = b])
      PROVE  Becomes(s, pc, process[s].job, process[s].item, process[s].at, process[s].surplus, process[s].after, process[s].target, b)
  <2>1. process'[s] = [process[s] EXCEPT !.pc = pc, !.left = b]
    BY <1>4, SetMeans
  <2>2. QED
    BY <1>1, <2>1 DEF Becomes, ProcessType
<1>5. ASSUME Set(s, [process[s] EXCEPT !.left = b])
      PROVE  Becomes(s, process[s].pc, process[s].job, process[s].item, process[s].at, process[s].surplus, process[s].after, process[s].target, b)
  <2>1. process'[s] = [process[s] EXCEPT !.left = b]
    BY <1>5, SetMeans
  <2>2. QED
    BY <1>1, <2>1 DEF Becomes, ProcessType
<1>6. ASSUME Set(s, [process[s] EXCEPT !.pc = pc, !.target = a, !.left = b])
      PROVE  Becomes(s, pc, process[s].job, process[s].item, process[s].at, process[s].surplus, process[s].after, a, b)
  <2>1. process'[s] = [process[s] EXCEPT !.pc = pc, !.target = a, !.left = b]
    BY <1>6, SetMeans
  <2>2. QED
    BY <1>1, <2>1 DEF Becomes, ProcessType
<1>7. ASSUME Set(s, [process[s] EXCEPT !.pc = pc, !.after = a, !.at = b])
      PROVE  Becomes(s, pc, process[s].job, process[s].item, b, process[s].surplus, a, process[s].target, process[s].left)
  <2>1. process'[s] = [process[s] EXCEPT !.pc = pc, !.after = a, !.at = b]
    BY <1>7, SetMeans
  <2>2. QED
    BY <1>1, <2>1 DEF Becomes, ProcessType
<1>8. ASSUME Set(s, [process[s] EXCEPT !.pc = pc, !.job = a, !.item = b])
      PROVE  Becomes(s, pc, a, b, process[s].at, process[s].surplus, process[s].after, process[s].target, process[s].left)
  <2>1. process'[s] = [process[s] EXCEPT !.pc = pc, !.job = a, !.item = b]
    BY <1>8, SetMeans
  <2>2. QED
    BY <1>1, <2>1 DEF Becomes, ProcessType
<1>9. ASSUME Set(s, [process[s] EXCEPT !.pc = pc, !.at = b])
      PROVE  Becomes(s, pc, process[s].job, process[s].item, b, process[s].surplus, process[s].after, process[s].target, process[s].left)
  <2>1. process'[s] = [process[s] EXCEPT !.pc = pc, !.at = b]
    BY <1>9, SetMeans
  <2>2. QED
    BY <1>1, <2>1 DEF Becomes, ProcessType
<1>10. ASSUME Set(s, [process[s] EXCEPT !.pc = pc, !.surplus = a])
      PROVE  Becomes(s, pc, process[s].job, process[s].item, process[s].at, a, process[s].after, process[s].target, process[s].left)
  <2>1. process'[s] = [process[s] EXCEPT !.pc = pc, !.surplus = a]
    BY <1>10, SetMeans
  <2>2. QED
    BY <1>1, <2>1 DEF Becomes, ProcessType
<1>11. QED
  BY <1>2, <1>3, <1>4, <1>5, <1>6, <1>7, <1>8, <1>9, <1>10

LEMMA Ends ==
  ASSUME TypeOK, NEW s \in Sessions, NEW mode, NEW pc, NEW at
  PROVE  /\ Set(s, Down) => Becomes(s, "idle", "none", 0, 0, FALSE, "leave", {}, {})
         /\ Set(s, Leave(s)) => Becomes(s, "idle", "none", 0, 0, FALSE, "leave", {}, {})
         /\ Set(s, [Down EXCEPT !.mode = mode]) =>
              Becomes(s, "idle", "none", 0, 0, FALSE, "leave", {}, {})
         /\ Set(s, [Down EXCEPT !.mode = mode, !.pc = pc]) =>
              Becomes(s, pc, "none", 0, 0, FALSE, "leave", {}, {})
         /\ mode \in Modes /\ Reconciling(s, mode) =>
              \E t \in {wall, watermark} :
                wall <= t /\ Becomes(s, "rebase", "none", 0, t, FALSE, "sort", {}, {})
<1>1. ASSUME Set(s, [Down EXCEPT !.mode = mode])
      PROVE  Becomes(s, "idle", "none", 0, 0, FALSE, "leave", {}, {})
  <2>1. process'[s] = [Down EXCEPT !.mode = mode]
    BY <1>1, SetMeans
  <2>2. QED
    BY <2>1 DEF Becomes, Down
<1>2. ASSUME Set(s, [Down EXCEPT !.mode = mode, !.pc = pc])
      PROVE  Becomes(s, pc, "none", 0, 0, FALSE, "leave", {}, {})
  <2>1. process'[s] = [Down EXCEPT !.mode = mode, !.pc = pc]
    BY <1>2, SetMeans
  <2>2. QED
    BY <2>1 DEF Becomes, Down
<1>3. ASSUME Set(s, Down)
      PROVE  Becomes(s, "idle", "none", 0, 0, FALSE, "leave", {}, {})
  <2>1. process'[s] = Down
    BY <1>3, SetMeans
  <2>2. QED
    BY <2>1 DEF Becomes, Down
<1>4. ASSUME Set(s, Leave(s))
      PROVE  Becomes(s, "idle", "none", 0, 0, FALSE, "leave", {}, {})
  <2>1. process'[s] = Leave(s)
    BY <1>4, SetMeans
  <2>2. process'[s] = [Down EXCEPT !.mode = "open"] \/ process'[s] = Down
    BY <2>1, EndsType
  <2>3. QED
    BY <2>2 DEF Becomes, Down
<1>5. ASSUME mode \in Modes, Reconciling(s, mode)
      PROVE  \E t \in {wall, watermark} :
               wall <= t /\ Becomes(s, "rebase", "none", 0, t, FALSE, "sort", {}, {})
  <2>1. PICK t \in 0..MaxClock :
          /\ wall <= t /\ t \in {wall, watermark}
          /\ process'[s] = [Down EXCEPT !.mode = mode, !.pc = "rebase", !.after = "sort",
                                        !.at = t]
    BY <1>5, ReconcilingMeans
  <2>2. Becomes(s, "rebase", "none", 0, t, FALSE, "sort", {}, {})
    BY <2>1 DEF Becomes, Down
  <2>3. QED
    BY <2>1, <2>2
<1>6. QED
  BY <1>1, <1>2, <1>3, <1>4, <1>5

Turns(s, pc) ==
  LET p == process[s]
  IN  Becomes(s, pc, p.job, p.item, p.at, p.surplus, p.after, p.target, p.left)
Idles(s) == Becomes(s, "idle", "none", 0, 0, FALSE, "leave", {}, {})
Reconciles(s) ==
  \E t \in {wall, watermark} :
    wall <= t /\ Becomes(s, "rebase", "none", 0, t, FALSE, "sort", {}, {})
Judges(s, pc, after) ==
  LET p == process[s]
  IN  Becomes(s, pc, p.job, p.item, Now(s), p.surplus, after, p.target, p.left)
Settles(s) ==
  LET p == process[s] IN
  /\ process'[s].pc \in {"member", "release"} /\ process'[s].at = 0
  /\ process'[s].job = p.job
  /\ process'[s].item = p.item \/ (process'[s].item = p.item + 1 /\ p.item < Size[p.job])

LEMMA GotoTurns ==
  ASSUME TypeOK, NEW s \in Sessions, NEW pc, Goto(s, pc)
  PROVE  Turns(s, pc)
  BY Edits DEF Goto, Turns

LEMMA OmitSettles ==
  ASSUME TypeOK, NEW s \in Sessions
  PROVE  /\ Omit(s) => Settles(s)
         /\ Stored(s) => Settles(s)
  BY SettleMeans DEF Omit, Stored, Settles

(* What each operation makes of its process.                               *)
LEMMA OpeningBecomes ==
  ASSUME TypeOK, NEW s \in Sessions
  PROVE  /\ \A mode \in {"opening", "recover"} : Attach(s, mode) => Idles(s) \/ Reconciles(s)
         /\ AttachPrune(s) => Becomes(s, "prune", "none", 0, 0, FALSE, "leave", {}, {})
         /\ Prune(s) => Idles(s) \/ Judges(s, "reclaim", "leave")
         /\ Retry(s) => Idles(s) \/ Reconciles(s)
         /\ Crash(s) \/ Reconciled(s) => Idles(s)
         /\ Stops(s) => Idles(s) \/ Turns(s, "retry")
<1>1. {"opening", "recover", "open"} \subseteq Modes
  BY DEF Modes
<1>2. ASSUME NEW mode \in {"opening", "recover"}, Attach(s, mode)
      PROVE  Idles(s) \/ Reconciles(s)
  <2>1. CASE Reconciling(s, mode)
    BY <1>1, <2>1, Ends DEF Reconciles
  <2>2. CASE Set(s, [Down EXCEPT !.mode = "blocked"])
    BY <2>2, Ends DEF Idles
  <2>3. QED
    BY <1>2, <2>1, <2>2 DEF Attach
<1>3. ASSUME AttachPrune(s)
      PROVE  Becomes(s, "prune", "none", 0, 0, FALSE, "leave", {}, {})
  BY <1>3, Ends DEF AttachPrune
<1>4. ASSUME Prune(s) PROVE Idles(s) \/ Judges(s, "reclaim", "leave")
  <2>1. CASE Set(s, [process[s] EXCEPT !.pc = "reclaim", !.after = "leave", !.at = Now(s)])
    BY <2>1, Edits DEF Judges
  <2>2. CASE Set(s, Down)
    BY <2>2, Ends DEF Idles
  <2>3. QED
    BY <1>4, <2>1, <2>2 DEF Prune
<1>5. ASSUME Retry(s) PROVE Idles(s) \/ Reconciles(s)
  <2>1. CASE Reconciling(s, "open")
    BY <1>1, <2>1, Ends DEF Reconciles
  <2>2. CASE Set(s, Leave(s))
    BY <2>2, Ends DEF Idles
  <2>3. QED
    BY <1>5, <2>1, <2>2 DEF Retry
<1>6. ASSUME Crash(s) \/ Reconciled(s) PROVE Idles(s)
  BY <1>6, Ends DEF Crash, Reconciled, Idles
<1>7. ASSUME Stops(s) PROVE Idles(s) \/ Turns(s, "retry")
  <2>1. CASE Fail(s)
    BY <2>1, Ends DEF Fail, Idles
  <2>2. CASE Goto(s, "retry")
    BY <2>2, GotoTurns
  <2>3. QED
    BY <1>7, <2>1, <2>2 DEF Stops
<1>8. QED
  BY <1>2, <1>3, <1>4, <1>5, <1>6, <1>7

LEMMA SweepBecomes ==
  ASSUME TypeOK, NEW s \in Sessions
  PROVE  LET p == process[s] IN
         /\ Rebase(s) => Turns(s, "reclaim")
         /\ \A m : Set(s, [p EXCEPT !.pc = "unlink", !.target = {m}]) =>
              Becomes(s, "unlink", p.job, p.item, p.at, p.surplus, p.after, {m}, p.left)
         /\ Unlink(s) =>
              Becomes(s, "reclaim", p.job, p.item, p.at, p.surplus, p.after, {}, p.left)
         /\ Reclaimed(s) => Idles(s) \/ (p.after # "leave" /\ Turns(s, p.after))
         /\ Sort(s) =>
              Becomes(s, "verify", p.job, p.item, p.at, p.surplus, p.after, p.target,
                      descriptors)
         /\ \A m : Verifies(s, m) =>
              Becomes(s, p.pc, p.job, p.item, p.at, p.surplus, p.after, p.target,
                      p.left \ {m})
         /\ \A m, reason : Rejects(s, m, reason) =>
              Becomes(s, "jail", p.job, p.item, p.at, p.surplus, p.after, {m},
                      p.left \ {m})
         /\ Jail(s) =>
              Becomes(s, "verify", p.job, p.item, p.at, p.surplus, p.after, {}, p.left)
<1> DEFINE p == process[s]
<1>1. Rebase(s) => Turns(s, "reclaim")
  BY GotoTurns DEF Rebase
<1>2. ASSUME NEW m, Set(s, [p EXCEPT !.pc = "unlink", !.target = {m}])
      PROVE  Becomes(s, "unlink", p.job, p.item, p.at, p.surplus, p.after, {m}, p.left)
  BY <1>2, Edits
<1>3. ASSUME Unlink(s)
      PROVE  Becomes(s, "reclaim", p.job, p.item, p.at, p.surplus, p.after, {}, p.left)
  <2>1. Set(s, [p EXCEPT !.pc = "reclaim", !.target = {}])
    BY <1>3 DEF Unlink
  <2>2. QED
    BY <2>1, Edits
<1>4. ASSUME Reclaimed(s) PROVE Idles(s) \/ (p.after # "leave" /\ Turns(s, p.after))
  <2>1. Set(s, Leave(s)) \/ (p.after # "leave" /\ Goto(s, p.after))
    BY <1>4 DEF Reclaimed
  <2>2. QED
    BY <2>1, Ends, GotoTurns DEF Idles
<1>5. ASSUME Sort(s)
      PROVE  Becomes(s, "verify", p.job, p.item, p.at, p.surplus, p.after, p.target,
                     descriptors)
  <2>1. Set(s, [p EXCEPT !.pc = "verify", !.left = descriptors])
    BY <1>5 DEF Sort
  <2>2. QED
    BY <2>1, Edits
<1>6. ASSUME NEW m, Verifies(s, m)
      PROVE  Becomes(s, p.pc, p.job, p.item, p.at, p.surplus, p.after, p.target,
                     p.left \ {m})
  <2>1. Set(s, [p EXCEPT !.left = p.left \ {m}])
    BY <1>6 DEF Verifies
  <2>2. QED
    BY <2>1, Edits
<1>7. ASSUME NEW m, NEW reason, Rejects(s, m, reason)
      PROVE  Becomes(s, "jail", p.job, p.item, p.at, p.surplus, p.after, {m}, p.left \ {m})
  <2>1. Set(s, [p EXCEPT !.pc = "jail", !.target = {m}, !.left = p.left \ {m}])
    BY <1>7 DEF Rejects
  <2>2. QED
    BY <2>1, Edits
<1>8. ASSUME Jail(s)
      PROVE  Becomes(s, "verify", p.job, p.item, p.at, p.surplus, p.after, {}, p.left)
  <2>1. Set(s, [p EXCEPT !.pc = "verify", !.target = {}])
    BY <1>8 DEF Jail
  <2>2. QED
    BY <2>1, Edits
<1>9. QED
  BY <1>1, <1>2, <1>3, <1>4, <1>5, <1>6, <1>7, <1>8

LEMMA PublishBecomes ==
  ASSUME TypeOK, NEW s \in Sessions
  PROVE  LET p == process[s] IN
         /\ \A j \in Jobs : Capture(s, j) =>
              Becomes(s, "captured", j, 1, p.at, p.surplus, p.after, p.target, p.left)
         /\ Reserve(s) => Idles(s) \/ Judges(s, "reclaim", "admit")
         /\ Admit(s) => Idles(s) \/ (Fits(p.job) /\ Turns(s, "member"))
         /\ Ingest(s) => \/ Settles(s)
                         \/ \E surplus \in BOOLEAN :
                              Becomes(s, "publish", p.job, p.item, p.at, surplus, p.after,
                                      p.target, p.left)
         /\ Publish(s) => Settles(s) \/ (Authorized(s) /\ Judges(s, "watermark", p.after))
         /\ Release(s) => Idles(s) \/ Turns(s, "retry")
<1> DEFINE p == process[s]
<1>1. ASSUME NEW j \in Jobs, Capture(s, j)
      PROVE  Becomes(s, "captured", j, 1, p.at, p.surplus, p.after, p.target, p.left)
  BY <1>1, Edits DEF Capture
<1>2. ASSUME Reserve(s) PROVE Idles(s) \/ Judges(s, "reclaim", "admit")
  <2>1. CASE Set(s, [p EXCEPT !.pc = "reclaim", !.after = "admit", !.at = Now(s)])
    BY <2>1, Edits DEF Judges
  <2>2. CASE Set(s, Leave(s))
    BY <2>2, Ends DEF Idles
  <2>3. QED
    BY <1>2, <2>1, <2>2 DEF Reserve
<1>3. ASSUME Admit(s) PROVE Idles(s) \/ (Fits(p.job) /\ Turns(s, "member"))
  BY <1>3, Ends, GotoTurns DEF Admit, Idles
<1>4. ASSUME Ingest(s)
      PROVE  \/ Settles(s)
             \/ \E surplus \in BOOLEAN :
                  Becomes(s, "publish", p.job, p.item, p.at, surplus, p.after,
                          p.target, p.left)
  <2>1. ASSUME NEW surplus \in BOOLEAN,
               Set(s, [process[s] EXCEPT !.pc = "publish", !.surplus = surplus])
        PROVE  Becomes(s, "publish", p.job, p.item, p.at, surplus, p.after,
                       p.target, p.left)
    BY <2>1, Edits
  <2>2. QED
    BY <1>4, <2>1, OmitSettles DEF Ingest
<1>5. ASSUME Publish(s)
      PROVE  Settles(s) \/ (Authorized(s) /\ Judges(s, "watermark", p.after))
  <2>1. CASE Set(s, [process[s] EXCEPT !.pc = "watermark", !.at = Now(s)])
    BY <2>1, Edits, <1>5, OmitSettles DEF Judges, Publish
  <2>2. QED
    BY <1>5, <2>1, OmitSettles DEF Publish
<1>6. ASSUME Release(s) PROVE Idles(s) \/ Turns(s, "retry")
  BY <1>6, Ends, GotoTurns DEF Release, Idles
<1>7. QED
  BY <1>1, <1>2, <1>3, <1>4, <1>5, <1>6

LEMMA CommitBecomes ==
  ASSUME TypeOK, NEW s \in Sessions
  PROVE  LET p == process[s] IN
         /\ Advance(s) => Turns(s, IF p.surplus THEN "mark" ELSE "move")
         /\ Mark(s) => Turns(s, "move")
         /\ Move(s) => Turns(s, "commit")
         /\ Commit(s) => IF p.surplus THEN Turns(s, "truncate") ELSE Settles(s)
         /\ Truncate(s) => Turns(s, "unmark")
         /\ Unmark(s) \/ PublishFails(s) \/ CommitUnconfirmed(s) => Settles(s)
  BY GotoTurns, OmitSettles DEF Advance, Mark, Move, Commit, Truncate, Unmark, PublishFails,
                                CommitUnconfirmed

-----------------------------------------------------------------------------
(* The clocks.                                                             *)

(* The moment an operation judges by is one that a clock has shown.        *)
AtFrom(s) ==
  \/ process'[s].at = 0 \/ process'[s].at = process[s].at
  \/ process'[s].at \in {wall, projected[s], watermark}

LEMMA ActsAt ==
  ASSUME TypeOK, NEW s \in Sessions, Acts(s)
  PROVE  AtFrom(s)
<1>1. ASSUME NEW pc, Idles(s) \/ Settles(s) \/ Turns(s, pc) \/ Reconciles(s) PROVE AtFrom(s)
  BY <1>1 DEF Idles, Settles, Turns, Reconciles, Becomes, AtFrom
<1>2. ASSUME NEW pc, NEW after, Judges(s, pc, after) PROVE AtFrom(s)
  BY <1>2, NowIs DEF Judges, Becomes, AtFrom
<1>3. CASE \/ (\E mode \in {"opening", "recover"} : Attach(s, mode))
           \/ Prune(s) \/ Retry(s) \/ Crash(s) \/ Stops(s) \/ Reconciled(s)
  BY <1>1, <1>2, <1>3, OpeningBecomes
<1>4. CASE AttachPrune(s)
  BY <1>4, OpeningBecomes DEF Becomes, AtFrom
<1>5. CASE Rebase(s) \/ Reclaimed(s)
  BY <1>1, <1>5, SweepBecomes
<1>6. CASE Unlink(s) \/ Sort(s) \/ Jail(s)
  BY <1>6, SweepBecomes DEF Becomes, AtFrom
<1>7. CASE Reclaim(s)
  <2>1. PICK m \in descriptors :
          Set(s, [process[s] EXCEPT !.pc = "unlink", !.target = {m}])
    BY <1>7 DEF Reclaim
  <2>2. QED
    BY <2>1, SweepBecomes DEF Becomes, AtFrom
<1>8. CASE Verify(s)
  <2>1. PICK m \in process[s].left :
          Verifies(s, m) \/ Rejects(s, m, Reason(m, process[s].at))
    BY <1>8, VerifyMeans
  <2>2. QED
    BY <2>1, SweepBecomes DEF Becomes, AtFrom
<1>9. CASE \E j \in Jobs : Capture(s, j)
  BY <1>9, PublishBecomes DEF Becomes, AtFrom
<1>10. CASE Reserve(s) \/ Admit(s) \/ Publish(s) \/ Release(s)
  BY <1>1, <1>2, <1>10, PublishBecomes
<1>11. CASE Ingest(s)
  <2>1. ASSUME NEW surplus \in BOOLEAN,
               Becomes(s, "publish", process[s].job, process[s].item, process[s].at, surplus,
                       process[s].after, process[s].target, process[s].left)
        PROVE  AtFrom(s)
    BY <2>1 DEF Becomes, AtFrom
  <2>2. QED
    BY <1>1, <1>11, <2>1, PublishBecomes
<1>12. CASE \/ Advance(s) \/ Mark(s) \/ Move(s) \/ Commit(s) \/ Truncate(s) \/ Unmark(s)
            \/ PublishFails(s) \/ CommitUnconfirmed(s)
  BY <1>1, <1>12, CommitBecomes
<1>13. QED
  BY <1>3, <1>4, <1>5, <1>6, <1>7, <1>8, <1>9, <1>10, <1>11, <1>12 DEF Acts, Work

(* The watermark is the moment an operation judged by, and a clock of a    *)
(* session starts at the wall clock.                                       *)
LEMMA ActsClock ==
  ASSUME TypeOK, NEW s \in Sessions, Acts(s)
  PROVE  /\ watermark' \in {watermark, process[s].at}
         /\ \A t \in Sessions : projected'[t] \in {projected[t], wall, 0}
<1> USE DEF clock, disk
<1>1. CASE \/ (\E mode \in {"opening", "recover"} : Attach(s, mode)) \/ AttachPrune(s)
           \/ Crash(s)
  BY <1>1 DEF Attach, AttachPrune, Crash, TypeOK
<1>2. CASE Rebase(s) \/ Reclaim(s) \/ Unlink(s) \/ Reclaimed(s) \/ Sort(s) \/ Verify(s)
             \/ Jail(s) \/ Admit(s) \/ Advance(s) \/ Mark(s) \/ Move(s)
             \/ Commit(s) \/ Truncate(s) \/ Unmark(s)
  BY <1>2 DEF Rebase, Reclaim, Unlink, Reclaimed, Sort, Verify, Jail,
              Admit, Advance, Mark, Move, Commit, Truncate, Unmark
<1>3. CASE \/ (\E j \in Jobs : Capture(s, j)) \/ PublishFails(s) \/ Stops(s)
           \/ CommitUnconfirmed(s)
  BY <1>3 DEF Capture, PublishFails, Stops, CommitUnconfirmed
<1>4. CASE Prune(s) \/ Reserve(s) \/ Ingest(s) \/ Publish(s) \/ Release(s) \/ Retry(s)
             \/ Reconciled(s)
  BY <1>4 DEF Prune, Reserve, Ingest, Publish, Release, Retry, Reconciled
<1>5. QED
  BY <1>1, <1>2, <1>3, <1>4 DEF Acts, Work

LEMMA ClockStep ==
  ASSUME TypeOK, ClocksTell, NEW s \in Sessions, Acts(s)
  PROVE  ClocksTell'
<1>1. latest' = latest /\ wall' = wall /\ latest \in Nat
  BY BooksGrow, ClockAssumption DEF TypeOK
<1>2. watermark' <= latest
  BY <1>1, ActsClock DEF ClocksTell
<1>3. \A t \in Sessions : projected'[t] <= latest
  BY <1>1, ActsClock DEF ClocksTell
<1>4. process'[s].at <= latest
  BY <1>1, ActsAt DEF ClocksTell, AtFrom
<1>5. \A t \in Sessions : process'[t].at <= latest
  BY <1>4, ActsAlone DEF ClocksTell, Alone
<1>6. QED
  BY <1>1, <1>2, <1>3, <1>5 DEF ClocksTell

LEMMA ClockEnvironment ==
  ASSUME TypeOK, ClocksTell
  PROVE  Tick \/ SetBack => ClocksTell'
<1>1. ASSUME Tick PROVE ClocksTell'
  <2>1. /\ latest \in Nat /\ latest' \in Nat /\ watermark \in Nat /\ latest <= latest'
        /\ \A s \in Sessions : process[s].at \in Nat
    BY <1>1, TickMeans, ClockAssumption DEF TypeOK
  <2>2. UNCHANGED <<watermark, process>>
    BY <1>1 DEF Tick, disk
  <2>3. QED
    BY <1>1, <2>1, <2>2, TickMeans DEF ClocksTell
<1>2. ASSUME SetBack PROVE ClocksTell'
  <2>1. wall' <= wall /\ wall \in Nat /\ latest \in Nat /\ wall' \in Int
    BY <1>2, ClockAssumption DEF SetBack, TypeOK
  <2>2. UNCHANGED <<watermark, process, projected, latest>>
    BY <1>2 DEF SetBack, disk
  <2>3. QED
    BY <2>1, <2>2 DEF ClocksTell
<1>3. QED
  BY <1>1, <1>2

-----------------------------------------------------------------------------
(* Captures, commitments and quarantine.                                   *)

(* Only publish_descriptor adds a descriptor and announces a member, and   *)
(* it is the one in hand.                                                  *)
LEMMA ActsCommit ==
  ASSUME TypeOK, NEW s \in Sessions, Acts(s)
  PROVE  /\ descriptors' \subseteq
              descriptors \cup (IF At(s, "commit") THEN {Member(s)} ELSE {})
         /\ \A m \in Members : told'[m] = "stored" =>
              \/ told[m] = "stored"
              \/ m = Member(s) /\ process[s].pc \in {"commit", "unmark"}
<1> USE DEF disk, book
<1>1. ASSUME NEW m \in Members, Omit(s), told'[m] = "stored" PROVE told[m] = "stored"
  BY <1>1, SettleMeans DEF Omit, TypeOK
<1>2. ASSUME NEW m \in Members, Stored(s), told'[m] = "stored"
      PROVE  told[m] = "stored" \/ m = Member(s)
  BY <1>2, SettleMeans DEF Stored, TypeOK
<1>3. CASE \/ (\E mode \in {"opening", "recover"} : Attach(s, mode)) \/ AttachPrune(s)
           \/ Crash(s) \/ Stops(s) \/ Prune(s) \/ Reserve(s) \/ Retry(s) \/ Reconciled(s)
           \/ (\E j \in Jobs : Capture(s, j)) \/ Release(s)
  BY <1>3 DEF Attach, AttachPrune, Crash, Stops, Prune, Reserve, Retry, Reconciled, Capture,
              Release
<1>4. CASE Rebase(s) \/ Reclaim(s) \/ Unlink(s) \/ Reclaimed(s) \/ Sort(s) \/ Verify(s)
             \/ Jail(s) \/ Admit(s) \/ Advance(s) \/ Mark(s) \/ Move(s) \/ Truncate(s)
  BY <1>4 DEF Rebase, Reclaim, Unlink, Reclaimed, Sort, Verify, Jail,
              Admit, Advance, Mark, Move, Truncate
<1>5. CASE Ingest(s) \/ Publish(s) \/ PublishFails(s)
  BY <1>1, <1>5 DEF Ingest, Publish, PublishFails
<1>6. CASE Commit(s) \/ Unmark(s) \/ CommitUnconfirmed(s)
  BY <1>1, <1>2, <1>6 DEF Commit, Unmark, CommitUnconfirmed, At
<1>7. QED
  BY <1>3, <1>4, <1>5, <1>6 DEF Acts, Work

LEMMA CaptureTimes ==
  ASSUME TypeOK, NEW s \in Sessions, Acts(s), NEW j \in Jobs
  PROVE  created'[j] \in {created[j], wall}
<1>1. CASE j \in fresh
  <2> USE DEF book
  <2>1. CASE \/ (\E mode \in {"opening", "recover"} : Attach(s, mode)) \/ AttachPrune(s)
             \/ Crash(s) \/ Stops(s) \/ Prune(s) \/ Reserve(s) \/ Retry(s) \/ Reconciled(s)
             \/ Release(s)
    BY <2>1 DEF Attach, AttachPrune, Crash, Stops, Prune, Reserve, Retry, Reconciled, Release
  <2>2. CASE Rebase(s) \/ Reclaim(s) \/ Unlink(s) \/ Reclaimed(s) \/ Sort(s) \/ Verify(s)
               \/ Jail(s) \/ Admit(s) \/ Advance(s) \/ Mark(s) \/ Move(s) \/ Truncate(s)
    BY <2>2 DEF Rebase, Reclaim, Unlink, Reclaimed, Sort, Verify, Jail,
                Admit, Advance, Mark, Move, Truncate
  <2>3. CASE \/ Ingest(s) \/ Publish(s) \/ PublishFails(s)
             \/ Commit(s) \/ Unmark(s) \/ CommitUnconfirmed(s)
    BY <2>3 DEF Ingest, Publish, PublishFails, Commit, Unmark, CommitUnconfirmed, Omit, Stored
  <2>4. CASE \E k \in Jobs : Capture(s, k)
    BY <2>4 DEF Capture, TypeOK
  <2>5. QED
    BY <2>1, <2>2, <2>3, <2>4 DEF Acts, Work
<1>2. CASE j \notin fresh
  BY <1>2, BooksGrow
<1>3. QED
  BY <1>1, <1>2

LEMMA CapturesStep ==
  ASSUME TypeOK, CapturesTell, NEW s \in Sessions, HandTells(s), Acts(s)
  PROVE  CapturesTell'
<1>1. fresh' \subseteq fresh /\ wall' = wall /\ backs' = backs
  BY BooksGrow
<1>2. ASSUME NEW m \in Members, m \in descriptors' \/ told'[m] = "stored"
      PROVE  m[1] \notin fresh'
  <2>1. CASE m \in descriptors \/ told[m] = "stored"
    BY <1>1, <2>1 DEF CapturesTell
  <2>2. CASE m = Member(s) /\ process[s].pc \in {"commit", "unmark"}
    BY <1>1, <2>2 DEF HandTells, InHand, Committing, Member
  <2>3. QED
    BY <1>2, <2>1, <2>2, ActsCommit DEF At
<1>3. ASSUME backs = 0, NEW j \in Jobs PROVE created'[j] <= wall
  BY <1>3, CaptureTimes, ClockAssumption DEF CapturesTell, TypeOK
<1>4. QED
  BY <1>1, <1>2, <1>3 DEF CapturesTell

LEMMA CapturesEnvironment ==
  ASSUME TypeOK, CapturesTell
  PROVE  Tick \/ SetBack => CapturesTell'
<1>1. ASSUME Tick \/ SetBack PROVE UNCHANGED <<descriptors, told, fresh, created>>
  BY <1>1 DEF Tick, SetBack, book, disk
<1>2. ASSUME Tick PROVE CapturesTell'
  <2>1. wall \in Nat /\ wall' = wall + 1 /\ backs' = backs /\ \A j \in Jobs : created[j] \in Nat
    BY <1>2, ClockAssumption DEF Tick, TypeOK
  <2>2. QED
    BY <1>1, <1>2, <2>1 DEF CapturesTell
<1>3. ASSUME SetBack PROVE CapturesTell'
  <2>1. backs' # 0
    BY <1>3, FaultAssumption DEF SetBack, TypeOK
  <2>2. QED
    BY <1>1, <1>3, <2>1 DEF CapturesTell
<1>4. QED
  BY <1>2, <1>3

(* A pair is only ever rejected for its clock, and then one was set back.  *)
LEMMA OnlyClocksReject ==
  ASSUME TypeOK, JailTells, CommittedIsWhole, NEW s \in Sessions, SweepTells(s), At(s, "verify"),
         NEW m \in process[s].left,
         Reason(m, process[s].at) \in {"clock", "missing", "size"},
         Rejects(s, m, Reason(m, process[s].at))
  PROVE  /\ m \in descriptors /\ m \in Members
         /\ jailed'[m] = "clock" /\ backs > 0
         /\ \A n \in Members \ {m} : jailed'[n] = jailed[n]
<1>1. m \in descriptors /\ m \in Members
  BY DEF SweepTells, At, TypeOK
<1>2. jailed' = [jailed EXCEPT ![m] = IF @ = "no" THEN Reason(m, process[s].at) ELSE @]
  BY DEF Rejects
<1>3. jailed \in [Members -> {"no", "clock", "missing", "size"}]
  BY DEF TypeOK
<1>4. CASE jailed[m] # "no"
  BY <1>1, <1>2, <1>3, <1>4 DEF JailTells
<1>5. CASE jailed[m] = "no"
  <2>1. Reason(m, process[s].at) = "clock"
    BY <1>1, <1>5, ReasonMeans DEF CommittedIsWhole
  <2>2. created[m[1]] > process[s].at
    BY <2>1, ReasonMeans
  <2>3. m[1] \in Jobs
    BY <1>1, MemberJob
  <2>4. created[m[1]] \in Nat /\ process[s].at \in Nat /\ backs \in Nat
    BY <2>3, ClockAssumption, FaultAssumption DEF TypeOK
  <2>5. backs # 0
    BY <1>1, <2>2, <2>4 DEF SweepTells, Sorting, At
  <2>6. QED
    BY <1>1, <1>2, <1>3, <1>5, <2>1, <2>4, <2>5
<1>6. QED
  BY <1>4, <1>5

LEMMA JailedStays ==
  ASSUME NEW s \in Sessions, Acts(s), ~Verify(s)
  PROVE  jailed' = jailed
<1> USE DEF disk
<1>1. CASE \/ (\E mode \in {"opening", "recover"} : Attach(s, mode)) \/ AttachPrune(s)
           \/ Crash(s) \/ Stops(s) \/ Prune(s) \/ Reserve(s) \/ Retry(s) \/ Reconciled(s)
           \/ (\E j \in Jobs : Capture(s, j)) \/ Release(s)
  BY <1>1 DEF Attach, AttachPrune, Crash, Stops, Prune, Reserve, Retry, Reconciled, Capture,
              Release
<1>2. CASE Rebase(s) \/ Reclaim(s) \/ Unlink(s) \/ Reclaimed(s) \/ Sort(s)
             \/ Jail(s) \/ Admit(s) \/ Advance(s) \/ Mark(s) \/ Move(s) \/ Truncate(s)
  BY <1>2 DEF Rebase, Reclaim, Unlink, Reclaimed, Sort, Jail,
              Admit, Advance, Mark, Move, Truncate
<1>3. CASE Ingest(s) \/ Publish(s) \/ PublishFails(s) \/ Commit(s) \/ Unmark(s)
             \/ CommitUnconfirmed(s)
  BY <1>3 DEF Ingest, Publish, PublishFails, Commit, Unmark, CommitUnconfirmed
<1>4. QED
  BY <1>1, <1>2, <1>3 DEF Acts, Work

LEMMA JailStep ==
  ASSUME TypeOK, JailTells, CommittedIsWhole, NEW s \in Sessions, SweepTells(s), Acts(s)
  PROVE  JailTells'
<1>1. backs' = backs
  BY BooksGrow
<1>2. CASE ~Verify(s)
  BY <1>1, <1>2, JailedStays DEF JailTells
<1>3. CASE Verify(s)
  <2>1. PICK m \in process[s].left :
          \/ Reason(m, process[s].at) = "no" /\ Verifies(s, m)
          \/ /\ Reason(m, process[s].at) \in {"clock", "missing", "size"}
             /\ Rejects(s, m, Reason(m, process[s].at))
    BY <1>3, VerifyMeans
  <2>2. CASE Verifies(s, m)
    BY <1>1, <2>2 DEF Verifies, JailTells
  <2>3. CASE /\ Reason(m, process[s].at) \in {"clock", "missing", "size"}
             /\ Rejects(s, m, Reason(m, process[s].at))
    <3>1. /\ m \in Members /\ jailed'[m] = "clock" /\ backs > 0
          /\ \A n \in Members \ {m} : jailed'[n] = jailed[n]
      BY <1>3, <2>3, OnlyClocksReject, VerifyMeans
    <3>2. QED
      BY <1>1, <3>1 DEF JailTells
  <2>4. QED
    BY <2>1, <2>2, <2>3
<1>4. QED
  BY <1>2, <1>3

LEMMA JailEnvironment ==
  ASSUME TypeOK, JailTells
  PROVE  Tick \/ SetBack => JailTells'
<1>1. backs \in Nat
  BY FaultAssumption DEF TypeOK
<1>2. QED
  BY <1>1 DEF Tick, SetBack, disk, JailTells

-----------------------------------------------------------------------------
(* How far each process has come.                                          *)

StepTells(s) == HandTells(s) /\ CommitTells(s) /\ SweepTells(s)

(* The others: while one holds the lock the files stay as they are.        *)
LEMMA OthersTell ==
  ASSUME TypeOK, OneHolder, CapturesTell, NEW s \in Sessions, Acts(s),
         NEW t \in Sessions, t # s, StepTells(t)
  PROVE  StepTells(t)'
<1>1. /\ process'[t] = process[t] /\ Member(t)' = Member(t)
      /\ fresh' \subseteq fresh /\ backs' = backs
  BY ActsAlone, BooksGrow DEF Alone, Member
<1>2. HandTells(t)'
  BY <1>1 DEF StepTells, HandTells, InHand, Committing
<1>3. CASE Holds(t)
  <2>1. UNCHANGED disk
    BY <1>3, LockGuards DEF OneHolder, LockFree, Holds
  <2>2. \A m \in descriptors : created'[m[1]] = created[m[1]]
    BY BooksGrow, MemberJob DEF CapturesTell, TypeOK
  <2>3. CommitTells(t)'
    BY <1>1, <2>1 DEF StepTells, CommitTells, Committing, disk
  <2>4. SweepTells(t)'
    BY <1>1, <2>1, <2>2 DEF StepTells, SweepTells, Sorting, disk
  <2>5. QED
    BY <1>2, <2>3, <2>4 DEF StepTells
<1>4. CASE ~Holds(t)
  <2>1. process'[t].pc \notin Locked
    BY <1>1, <1>4 DEF Holds
  <2>2. CommitTells(t)'
    BY <2>1 DEF CommitTells, Committing, Locked
  <2>3. SweepTells(t)'
    BY <2>1 DEF SweepTells, Sorting, Locked
  <2>4. QED
    BY <1>2, <2>2, <2>3 DEF StepTells
<1>5. QED
  BY <1>3, <1>4

(* Where there is nothing to tell.                                         *)
LEMMA RestTells ==
  ASSUME NEW s \in Sessions, process'[s].pc \in Unlocked
  PROVE  CommitTells(s)' /\ SweepTells(s)'
  BY DEF CommitTells, SweepTells, Committing, Sorting, Unlocked

LEMMA IdleTells ==
  ASSUME NEW s \in Sessions, Idles(s)
  PROVE  StepTells(s)'
<1>1. process'[s].pc = "idle"
  BY DEF Idles, Becomes
<1>2. HandTells(s)'
  BY <1>1 DEF HandTells, InHand, Committing
<1>3. QED
  BY <1>1, <1>2, RestTells DEF StepTells, Unlocked

LEMMA HandKept ==
  ASSUME TypeOK, NEW s \in Sessions, Acts(s), HandTells(s), InHand(process[s]),
         process'[s].job = process[s].job, process'[s].item = process[s].item
  PROVE  HandTells(s)'
  BY BooksGrow DEF HandTells

LEMMA SettleTells ==
  ASSUME TypeOK, NEW s \in Sessions, Acts(s), HandTells(s), InHand(process[s]), Settles(s)
  PROVE  StepTells(s)'
<1>1. /\ process[s].job \in Jobs \ fresh /\ process[s].item \in 1..Size[process[s].job]
      /\ Size[process[s].job] \in Nat
  BY SizeAssumption DEF HandTells
<1>2. process'[s].item \in 1..Size[process'[s].job] /\ process'[s].job \in Jobs \ fresh'
  BY <1>1, BooksGrow DEF Settles
<1>3. HandTells(s)'
  BY <1>2 DEF HandTells
<1>4. process'[s].pc \in Unlocked
  BY DEF Settles, Unlocked
<1>5. QED
  BY <1>3, <1>4, RestTells DEF StepTells

LEMMA OpeningTells ==
  ASSUME TypeOK, CapturesTell, NEW s \in Sessions, Acts(s), UNCHANGED <<disk, created>>,
         Reconciles(s)
  PROVE  StepTells(s)'
<1>1. PICK t \in {wall, watermark} :
        wall <= t /\ Becomes(s, "rebase", "none", 0, t, FALSE, "sort", {}, {})
  BY DEF Reconciles
<1>2. /\ process'[s].pc = "rebase" /\ process'[s].at = t /\ process'[s].after = "sort"
      /\ backs' = backs
  BY <1>1, BooksGrow DEF Becomes
<1>3. HandTells(s)' /\ CommitTells(s)'
  BY <1>2 DEF HandTells, InHand, CommitTells, Committing
<1>4. ASSUME backs = 0, NEW m \in descriptors PROVE created[m[1]] <= t
  <2>1. m[1] \in Jobs
    BY MemberJob DEF TypeOK
  <2>2. created[m[1]] <= wall
    BY <1>4, <2>1 DEF CapturesTell
  <2>3. created[m[1]] \in Nat /\ wall \in Nat /\ t \in Nat
    BY <2>1, ClockAssumption DEF TypeOK
  <2>4. QED
    BY <1>1, <2>2, <2>3
<1>5. SweepTells(s)'
  BY <1>2, <1>4 DEF SweepTells, Sorting, disk
<1>6. QED
  BY <1>3, <1>5 DEF StepTells

(* Opening, pruning, releasing.                                            *)
LEMMA QuietTells ==
  ASSUME TypeOK, CapturesTell, NEW s \in Sessions, StepTells(s), Acts(s)
  PROVE  /\ (\E mode \in {"opening", "recover"} : Attach(s, mode)) => StepTells(s)'
         /\ AttachPrune(s) \/ Prune(s) \/ Retry(s) \/ Crash(s) \/ Reconciled(s) => StepTells(s)'
         /\ Stops(s) \/ Release(s) => StepTells(s)'
<1>1. ASSUME \/ (\E mode \in {"opening", "recover"} : Attach(s, mode))
             \/ Retry(s)
      PROVE  StepTells(s)'
  <2>1. UNCHANGED <<disk, created>>
    BY <1>1 DEF Attach, Retry, book
  <2>2. Idles(s) \/ Reconciles(s)
    BY <1>1, OpeningBecomes
  <2>3. QED
    BY <2>1, <2>2, IdleTells, OpeningTells
<1>2. ASSUME AttachPrune(s) PROVE StepTells(s)'
  <2>1. process'[s].pc = "prune"
    BY <1>2, OpeningBecomes DEF Becomes
  <2>2. QED
    BY <2>1, RestTells DEF StepTells, HandTells, InHand, Committing, Unlocked
<1>3. ASSUME Prune(s) PROVE StepTells(s)'
  <2>1. CASE Judges(s, "reclaim", "leave")
    <3>1. process'[s].pc = "reclaim" /\ process'[s].after = "leave"
      BY <2>1 DEF Judges, Becomes
    <3>2. QED
      BY <3>1 DEF StepTells, HandTells, InHand, CommitTells, SweepTells, Committing, Sorting
  <2>2. QED
    BY <1>3, <2>1, OpeningBecomes, IdleTells
<1>4. ASSUME Crash(s) \/ Reconciled(s) PROVE StepTells(s)'
  BY <1>4, OpeningBecomes, IdleTells
<1>5. ASSUME Stops(s) \/ Release(s) PROVE StepTells(s)'
  <2>1. CASE Turns(s, "retry")
    <3>1. process'[s].pc = "retry"
      BY <2>1 DEF Turns, Becomes
    <3>2. QED
      BY <3>1, RestTells DEF StepTells, HandTells, InHand, Committing, Unlocked
  <2>2. QED
    BY <1>5, <2>1, OpeningBecomes, PublishBecomes, IdleTells
<1>6. QED
  BY <1>1, <1>2, <1>3, <1>4, <1>5

(* Reclamation and reconciliation.                                         *)
LEMMA ReclaimTells ==
  ASSUME TypeOK, CapturesTell, NEW s \in Sessions, StepTells(s), Acts(s)
  PROVE  Rebase(s) \/ Reclaim(s) \/ Unlink(s) \/ Reclaimed(s) => StepTells(s)'
<1> USE DEF book, clock
<1>1. ASSUME Rebase(s) PROVE StepTells(s)'
  <2>1. /\ process[s].pc = "rebase" /\ process[s].after = "sort"
        /\ process'[s].pc = "reclaim" /\ process'[s].after = "sort"
        /\ process'[s].at = process[s].at
    BY <1>1, SweepBecomes DEF Rebase, At, StepTells, SweepTells, Turns, Becomes
  <2>2. UNCHANGED <<descriptors, created, backs>>
    BY <1>1 DEF Rebase
  <2>3. HandTells(s)' /\ CommitTells(s)'
    BY <2>1 DEF HandTells, InHand, CommitTells, Committing
  <2>4. SweepTells(s)'
    BY <2>1, <2>2 DEF StepTells, SweepTells, Sorting
  <2>5. QED
    BY <2>3, <2>4 DEF StepTells
<1>2. ASSUME Reclaim(s) PROVE StepTells(s)'
  <2>1. PICK m \in descriptors :
          /\ descriptors' = descriptors \ {m}
          /\ Set(s, [process[s] EXCEPT !.pc = "unlink", !.target = {m}])
    BY <1>2 DEF Reclaim
  <2>2. /\ process[s].pc = "reclaim" /\ process'[s].pc = "unlink"
        /\ process'[s].after = process[s].after /\ process'[s].at = process[s].at
        /\ process'[s].target = {m}
        /\ process'[s].job = process[s].job /\ process'[s].item = process[s].item
    BY <1>2, <2>1, SweepBecomes DEF Reclaim, At, Becomes
  <2>3. UNCHANGED <<created, backs>>
    BY <1>2 DEF Reclaim
  <2>4. HandTells(s)'
    <3>1. CASE process[s].after = "admit"
      BY <2>2, <3>1, HandKept DEF StepTells, InHand
    <3>2. CASE process[s].after # "admit"
      BY <2>2, <3>2 DEF HandTells, InHand, Committing
    <3>3. QED
      BY <3>1, <3>2
  <2>5. CommitTells(s)'
    BY <2>2 DEF CommitTells, Committing
  <2>6. SweepTells(s)'
    BY <2>1, <2>2, <2>3 DEF StepTells, SweepTells, Sorting
  <2>7. QED
    BY <2>4, <2>5, <2>6 DEF StepTells
<1>3. ASSUME Unlink(s) PROVE StepTells(s)'
  <2>1. /\ process[s].pc = "unlink" /\ process'[s].pc = "reclaim"
        /\ process'[s].after = process[s].after /\ process'[s].at = process[s].at
        /\ process'[s].job = process[s].job /\ process'[s].item = process[s].item
    BY <1>3, SweepBecomes DEF Unlink, At, Becomes
  <2>2. UNCHANGED <<descriptors, created, backs>>
    BY <1>3 DEF Unlink
  <2>3. HandTells(s)'
    <3>1. CASE process[s].after = "admit"
      BY <2>1, <3>1, HandKept DEF StepTells, InHand
    <3>2. CASE process[s].after # "admit"
      BY <2>1, <3>2 DEF HandTells, InHand, Committing
    <3>3. QED
      BY <3>1, <3>2
  <2>4. CommitTells(s)'
    BY <2>1 DEF CommitTells, Committing
  <2>5. SweepTells(s)'
    BY <2>1, <2>2 DEF StepTells, SweepTells, Sorting
  <2>6. QED
    BY <2>3, <2>4, <2>5 DEF StepTells
<1>4. ASSUME Reclaimed(s) PROVE StepTells(s)'
  <2>1. CASE process[s].after # "leave" /\ Turns(s, process[s].after)
    <3>1. /\ process[s].pc = "reclaim" /\ process'[s].pc = process[s].after
          /\ process'[s].after = process[s].after /\ process'[s].at = process[s].at
          /\ process'[s].job = process[s].job /\ process'[s].item = process[s].item
          /\ process[s].after \in {"admit", "sort"}
      BY <1>4, <2>1, EndsType DEF Reclaimed, At, Turns, Becomes, ProcessType
    <3>2. UNCHANGED <<descriptors, created, backs>>
      BY <1>4 DEF Reclaimed
    <3>3. HandTells(s)'
      <4>1. CASE process[s].after = "admit"
        BY <3>1, <4>1, HandKept DEF StepTells, InHand
      <4>2. CASE process[s].after = "sort"
        BY <3>1, <4>2 DEF HandTells, InHand, Committing
      <4>3. QED
        BY <3>1, <4>1, <4>2
    <3>4. CommitTells(s)'
      BY <3>1 DEF CommitTells, Committing
    <3>5. SweepTells(s)'
      BY <3>1, <3>2 DEF StepTells, SweepTells, Sorting
    <3>6. QED
      BY <3>3, <3>4, <3>5 DEF StepTells
  <2>2. QED
    BY <1>4, <2>1, SweepBecomes, IdleTells
<1>5. QED
  BY <1>1, <1>2, <1>3, <1>4

LEMMA ReconcileTells ==
  ASSUME TypeOK, CapturesTell, NEW s \in Sessions, StepTells(s), Acts(s)
  PROVE  Sort(s) \/ Verify(s) \/ Jail(s) => StepTells(s)'
<1> USE DEF book, clock
<1>1. ASSUME Sort(s) PROVE StepTells(s)'
  <2>1. /\ process[s].pc = "sort" /\ process[s].after = "sort"
        /\ process'[s].pc = "verify" /\ process'[s].after = "sort"
        /\ process'[s].at = process[s].at /\ process'[s].left = descriptors
    BY <1>1, SweepBecomes DEF Sort, At, StepTells, SweepTells, Becomes
  <2>2. UNCHANGED <<descriptors, created, backs>>
    BY <1>1 DEF Sort
  <2>3. HandTells(s)' /\ CommitTells(s)'
    BY <2>1 DEF HandTells, InHand, CommitTells, Committing
  <2>4. SweepTells(s)'
    BY <2>1, <2>2 DEF StepTells, SweepTells, Sorting
  <2>5. QED
    BY <2>3, <2>4 DEF StepTells
<1>2. ASSUME Verify(s) PROVE StepTells(s)'
  <2>1. PICK m \in process[s].left :
          Verifies(s, m) \/ Rejects(s, m, Reason(m, process[s].at))
    BY <1>2, VerifyMeans
  <2>2. process[s].pc = "verify" /\ process[s].after = "sort"
        /\ UNCHANGED <<descriptors, created, backs>>
    BY <1>2, VerifyMeans DEF At, StepTells, SweepTells
  <2>3. /\ process'[s].after = "sort" /\ process'[s].at = process[s].at
        /\ process'[s].left = process[s].left \ {m}
        /\ \/ process'[s].pc = "verify"
           \/ /\ process'[s].pc = "jail" /\ process'[s].target = {m}
              /\ Rejects(s, m, Reason(m, process[s].at))
    BY <2>1, <2>2, SweepBecomes DEF Becomes
  <2>4. HandTells(s)' /\ CommitTells(s)'
    BY <2>3 DEF HandTells, InHand, CommitTells, Committing
  <2>5. m \in Members
    BY <2>2 DEF StepTells, SweepTells, TypeOK
  <2>6. process'[s].pc = "jail" => \A n \in process'[s].target : blob'[n] = "none"
    BY <2>3, <2>5 DEF Rejects, TypeOK
  <2>7. SweepTells(s)'
    BY <2>2, <2>3, <2>6 DEF StepTells, SweepTells, Sorting
  <2>8. QED
    BY <2>4, <2>7 DEF StepTells
<1>3. ASSUME Jail(s) PROVE StepTells(s)'
  <2>1. /\ process[s].pc = "jail" /\ process[s].after = "sort"
        /\ process'[s].pc = "verify" /\ process'[s].after = "sort"
        /\ process'[s].at = process[s].at /\ process'[s].left = process[s].left
    BY <1>3, SweepBecomes DEF Jail, At, StepTells, SweepTells, Becomes
  <2>2. UNCHANGED <<created, backs>> /\ descriptors' = descriptors \ process[s].target
    BY <1>3 DEF Jail
  <2>3. HandTells(s)' /\ CommitTells(s)'
    BY <2>1 DEF HandTells, InHand, CommitTells, Committing
  <2>4. SweepTells(s)'
    BY <2>1, <2>2 DEF StepTells, SweepTells, Sorting
  <2>5. QED
    BY <2>3, <2>4 DEF StepTells
<1>4. QED
  BY <1>1, <1>2, <1>3

(* Publishing a job.                                                       *)
LEMMA PublishTells ==
  ASSUME TypeOK, CapturesTell, NEW s \in Sessions, StepTells(s), Acts(s)
  PROVE  /\ (\E j \in Jobs : Capture(s, j)) => StepTells(s)'
         /\ Reserve(s) \/ Admit(s) \/ Ingest(s) \/ Publish(s) => StepTells(s)'
<1> USE DEF disk
<1>1. ASSUME NEW j \in Jobs, Capture(s, j) PROVE StepTells(s)'
  <2>1. process'[s].pc = "captured" /\ process'[s].job = j /\ process'[s].item = 1
    BY <1>1, PublishBecomes DEF Becomes
  <2>2. fresh' = fresh \ {j} /\ 1 \in 1..Size[j]
    BY <1>1, SizeAssumption DEF Capture
  <2>3. HandTells(s)'
    BY <2>1, <2>2 DEF HandTells
  <2>4. QED
    BY <2>1, <2>3, RestTells DEF StepTells, Unlocked
<1>2. ASSUME Reserve(s) PROVE StepTells(s)'
  <2>1. CASE Judges(s, "reclaim", "admit")
    <3>1. /\ process[s].pc = "captured"
          /\ process'[s].pc = "reclaim" /\ process'[s].after = "admit"
          /\ process'[s].job = process[s].job /\ process'[s].item = process[s].item
      BY <1>2, <2>1 DEF Reserve, At, Judges, Becomes
    <3>2. HandTells(s)'
      BY <3>1, HandKept DEF StepTells, InHand
    <3>3. QED
      BY <3>1, <3>2 DEF StepTells, CommitTells, SweepTells, Committing, Sorting
  <2>2. QED
    BY <1>2, <2>1, PublishBecomes, IdleTells
<1>3. ASSUME Admit(s) PROVE StepTells(s)'
  <2>1. CASE Turns(s, "member")
    <3>1. /\ process[s].pc = "admit" /\ process'[s].pc = "member"
          /\ process'[s].job = process[s].job /\ process'[s].item = process[s].item
      BY <1>3, <2>1 DEF Admit, At, Turns, Becomes
    <3>2. QED
      BY <3>1, HandKept, RestTells DEF StepTells, InHand, Unlocked
  <2>2. QED
    BY <1>3, <2>1, PublishBecomes, IdleTells
<1>4. ASSUME Ingest(s) PROVE StepTells(s)'
  <2>1. process[s].pc = "member"
    BY <1>4 DEF Ingest, At
  <2>2. CASE Settles(s)
    BY <2>1, <2>2, SettleTells DEF StepTells, InHand
  <2>3. ASSUME NEW surplus \in BOOLEAN,
               Becomes(s, "publish", process[s].job, process[s].item, process[s].at, surplus,
                       process[s].after, process[s].target, process[s].left)
        PROVE  StepTells(s)'
    <3>1. /\ process'[s].pc = "publish"
          /\ process'[s].job = process[s].job /\ process'[s].item = process[s].item
      BY <2>3 DEF Becomes
    <3>2. QED
      BY <2>1, <3>1, HandKept, RestTells DEF StepTells, InHand, Unlocked
  <2>4. QED
    BY <1>4, <2>2, <2>3, PublishBecomes
<1>5. ASSUME Publish(s) PROVE StepTells(s)'
  <2>1. process[s].pc = "publish" /\ UNCHANGED claims
    BY <1>5 DEF Publish, At
  <2>2. CASE Settles(s)
    BY <2>1, <2>2, SettleTells DEF StepTells, InHand
  <2>3. CASE Authorized(s) /\ Judges(s, "watermark", process[s].after)
    <3>1. /\ process'[s].pc = "watermark"
          /\ process'[s].job = process[s].job /\ process'[s].item = process[s].item
      BY <2>3 DEF Judges, Becomes
    <3>2. HandTells(s)'
      BY <2>1, <3>1, HandKept DEF StepTells, InHand
    <3>3. CommitTells(s)' /\ SweepTells(s)'
      BY <2>1, <2>3, <3>1 DEF Authorized, CommitTells, SweepTells, Committing, Sorting
    <3>4. QED
      BY <3>2, <3>3 DEF StepTells
  <2>4. QED
    BY <1>5, <2>2, <2>3, PublishBecomes
<1>6. QED
  BY <1>1, <1>2, <1>3, <1>4, <1>5

(* publish_descriptor, one durable effect after the other.                 *)
LEMMA CommitStepTells ==
  ASSUME TypeOK, NEW s \in Sessions, StepTells(s), Acts(s)
  PROVE  /\ Advance(s) \/ Mark(s) \/ Move(s) \/ Commit(s) \/ Truncate(s) \/ Unmark(s)
              => StepTells(s)'
         /\ PublishFails(s) \/ CommitUnconfirmed(s) => StepTells(s)'
<1>1. ASSUME NEW pc, Turns(s, pc), Committing(process[s].pc), Committing(pc)
      PROVE  /\ HandTells(s)' /\ SweepTells(s)'
             /\ process'[s].pc = pc /\ Member(s)' = Member(s)
             /\ process'[s].surplus = process[s].surplus
             /\ process[s].job \in claims /\ Member(s) \in Members
             /\ process'[s].job = process[s].job
  <2>1. /\ process'[s].pc = pc /\ process'[s].surplus = process[s].surplus
        /\ process'[s].job = process[s].job /\ process'[s].item = process[s].item
    BY <1>1 DEF Turns, Becomes
  <2>2. InHand(process[s])
    BY <1>1 DEF InHand
  <2>3. HandTells(s)' /\ Member(s) \in Members
    BY <2>1, <2>2, HandKept, MemberInHand DEF StepTells
  <2>4. SweepTells(s)'
    BY <1>1, <2>1 DEF SweepTells, Sorting, Committing
  <2>5. QED
    BY <1>1, <2>1, <2>3, <2>4 DEF Member, StepTells, CommitTells
<1>2. ASSUME Committing(process[s].pc), Settles(s) PROVE StepTells(s)'
  BY <1>2, SettleTells DEF StepTells, InHand
<1>3. ASSUME Advance(s) PROVE StepTells(s)'
  <2>1. CASE process[s].surplus
    <3>1. Turns(s, "mark")
      BY <1>3, <2>1, CommitBecomes
    <3>2. UNCHANGED claims /\ process[s].pc = "watermark"
      BY <1>3 DEF Advance, At
    <3>3. CommitTells(s)'
      BY <1>1, <3>1, <3>2 DEF CommitTells, Committing
    <3>4. QED
      BY <1>1, <3>1, <3>2, <3>3 DEF StepTells, Committing
  <2>2. CASE ~process[s].surplus
    <3>1. Turns(s, "move")
      BY <1>3, <2>2, CommitBecomes
    <3>2. UNCHANGED claims /\ process[s].pc = "watermark"
      BY <1>3 DEF Advance, At
    <3>3. CommitTells(s)'
      BY <1>1, <2>2, <3>1, <3>2 DEF CommitTells, Committing
    <3>4. QED
      BY <1>1, <3>1, <3>2, <3>3 DEF StepTells, Committing
  <2>3. QED
    BY <2>1, <2>2
<1>4. ASSUME Mark(s) PROVE StepTells(s)'
  <2>1. Turns(s, "move")
    BY <1>4, CommitBecomes
  <2>2. /\ process[s].pc = "mark" /\ UNCHANGED claims
        /\ markers' = markers \cup {Member(s)}
    BY <1>4 DEF Mark, At
  <2>3. CommitTells(s)'
    BY <1>1, <2>1, <2>2 DEF CommitTells, Committing
  <2>4. QED
    BY <1>1, <2>1, <2>2, <2>3 DEF StepTells, Committing
<1>5. ASSUME Move(s) PROVE StepTells(s)'
  <2>1. Turns(s, "commit")
    BY <1>5, CommitBecomes
  <2>2. /\ process[s].pc = "move" /\ UNCHANGED <<claims, markers>>
        /\ blob' = [blob EXCEPT ![Member(s)] = IF process[s].surplus THEN "long" ELSE "exact"]
    BY <1>5 DEF Move, At
  <2>3. /\ process'[s].pc = "commit" /\ Member(s)' = Member(s) /\ process[s].job \in claims
        /\ process'[s].surplus = process[s].surplus /\ process'[s].job = process[s].job
        /\ Member(s) \in Members
    BY <1>1, <2>1, <2>2 DEF Committing
  <2>4. blob'[Member(s)] = IF process[s].surplus THEN "long" ELSE "exact"
    BY <2>2, <2>3 DEF TypeOK
  <2>5. process[s].surplus => Member(s) \in markers
    BY <2>2 DEF StepTells, CommitTells
  <2>6. CommitTells(s)'
    BY <2>2, <2>3, <2>4, <2>5 DEF CommitTells, Committing
  <2>7. QED
    BY <1>1, <2>1, <2>2, <2>6 DEF StepTells, Committing
<1>6. ASSUME Commit(s) PROVE StepTells(s)'
  <2>1. process[s].pc = "commit" /\ UNCHANGED claims
        /\ descriptors' = descriptors \cup {Member(s)}
    BY <1>6 DEF Commit, At
  <2>2. CASE process[s].surplus
    <3>1. Turns(s, "truncate")
      BY <1>6, <2>2, CommitBecomes
    <3>2. CommitTells(s)'
      BY <1>1, <2>1, <3>1 DEF CommitTells, Committing
    <3>3. QED
      BY <1>1, <2>1, <3>1, <3>2 DEF StepTells, Committing
  <2>3. CASE ~process[s].surplus
    BY <1>2, <1>6, <2>1, <2>3, CommitBecomes DEF Committing
  <2>4. QED
    BY <2>2, <2>3
<1>7. ASSUME Truncate(s) PROVE StepTells(s)'
  <2>1. Turns(s, "unmark")
    BY <1>7, CommitBecomes
  <2>2. /\ process[s].pc = "truncate" /\ UNCHANGED <<claims, descriptors>>
        /\ blob' = [blob EXCEPT ![Member(s)] = "exact"]
    BY <1>7 DEF Truncate, At
  <2>3. /\ process'[s].pc = "unmark" /\ Member(s)' = Member(s) /\ process[s].job \in claims
        /\ process'[s].job = process[s].job /\ Member(s) \in Members
    BY <1>1, <2>1, <2>2 DEF Committing
  <2>4. blob'[Member(s)] = "exact" /\ Member(s) \in descriptors
    BY <2>2, <2>3 DEF TypeOK, StepTells, CommitTells
  <2>5. CommitTells(s)'
    BY <2>2, <2>3, <2>4 DEF CommitTells, Committing
  <2>6. QED
    BY <1>1, <2>1, <2>2, <2>5 DEF StepTells, Committing
<1>8. ASSUME Unmark(s) \/ CommitUnconfirmed(s) PROVE StepTells(s)'
  <2>1. Committing(process[s].pc)
    BY <1>8 DEF Unmark, CommitUnconfirmed, At, Committing
  <2>2. QED
    BY <1>2, <1>8, <2>1, CommitBecomes
<1>9. ASSUME PublishFails(s) PROVE StepTells(s)'
  <2>1. InHand(process[s])
    BY <1>9 DEF PublishFails, InHand, Committing
  <2>2. QED
    BY <1>9, <2>1, CommitBecomes, SettleTells DEF StepTells
<1>10. QED
  BY <1>3, <1>4, <1>5, <1>6, <1>7, <1>8, <1>9

LEMMA StepsStep ==
  ASSUME TypeOK, OneHolder, CapturesTell, Steps, NEW s \in Sessions, Acts(s)
  PROVE  Steps'
<1>1. StepTells(s)
  BY DEF Steps, StepTells
<1>2. StepTells(s)'
  BY <1>1, QuietTells, ReclaimTells, ReconcileTells, PublishTells, CommitStepTells
  DEF Acts, Work
<1>3. \A t \in Sessions \ {s} : StepTells(t)'
  BY OthersTell DEF Steps, StepTells
<1>4. \A t \in Sessions : StepTells(t)'
  BY <1>2, <1>3
<1>5. QED
  BY <1>4 DEF Steps, StepTells

LEMMA StepsEnvironment ==
  ASSUME TypeOK, Steps, Tick \/ SetBack
  PROVE  Steps'
<1>1. /\ UNCHANGED <<fresh, created, claims, markers, blob, descriptors, process>>
      /\ backs' = 0 => backs = 0
  BY FaultAssumption DEF Tick, SetBack, book, disk, TypeOK
<1>2. ASSUME NEW s \in Sessions PROVE StepTells(s)'
  <2>1. HandTells(s) /\ CommitTells(s) /\ SweepTells(s)
    BY DEF Steps
  <2>2. HandTells(s)' /\ CommitTells(s)' /\ SweepTells(s)'
    BY <1>1, <2>1 DEF HandTells, InHand, CommitTells, Committing, Member, SweepTells, Sorting
  <2>3. QED
    BY <2>2 DEF StepTells
<1>3. QED
  BY <1>2 DEF Steps, StepTells

-----------------------------------------------------------------------------
(* What a descriptor promises.                                             *)

(* The operations that touch a blob, a descriptor or a marker.             *)
LEMMA FilesStay ==
  ASSUME NEW s \in Sessions, Acts(s)
  PROVE  \/ UNCHANGED <<blob, descriptors, markers, jailed>>
         \/ Reclaim(s) \/ Unlink(s) \/ Reclaimed(s) \/ Sort(s) \/ Verify(s) \/ Jail(s)
         \/ Mark(s) \/ Move(s) \/ Commit(s) \/ Truncate(s) \/ Unmark(s)
         \/ CommitUnconfirmed(s)
<1> USE DEF disk
<1>1. CASE \/ (\E mode \in {"opening", "recover"} : Attach(s, mode)) \/ AttachPrune(s)
           \/ (\E j \in Jobs : Capture(s, j)) \/ Crash(s) \/ PublishFails(s) \/ Stops(s)
  BY <1>1 DEF Attach, AttachPrune, Capture, Crash, PublishFails, Stops
<1>2. CASE Prune(s) \/ Reserve(s) \/ Ingest(s) \/ Publish(s) \/ Release(s) \/ Retry(s)
             \/ Reconciled(s) \/ Rebase(s) \/ Admit(s) \/ Advance(s)
  BY <1>2 DEF Prune, Reserve, Ingest, Publish, Release, Retry, Reconciled, Rebase, Admit, Advance
<1>3. QED
  BY <1>1, <1>2 DEF Acts, Work

LEMMA WholeStep ==
  ASSUME TypeOK, JailTells, CommittedIsWhole, NEW s \in Sessions, StepTells(s), Acts(s)
  PROVE  CommittedIsWhole'
<1>1. /\ blob \in [Members -> {"none", "long", "exact"}] /\ descriptors \subseteq Members
      /\ HandTells(s) /\ CommitTells(s) /\ SweepTells(s)
  BY DEF TypeOK, StepTells
<1>2. Committing(process[s].pc) => Member(s) \in Members
  BY <1>1, MemberInHand DEF InHand
<1>3. CASE UNCHANGED <<blob, descriptors, markers, jailed>>
  BY <1>3 DEF CommittedIsWhole
<1>4. CASE Reclaim(s)
  BY <1>4 DEF Reclaim, CommittedIsWhole
<1>5. CASE Unlink(s)
  <2>1. process[s].target \cap descriptors = {}
    BY <1>1, <1>5 DEF Unlink, At, SweepTells
  <2>2. UNCHANGED <<descriptors, markers, jailed>>
        /\ \A m \in descriptors : blob'[m] = blob[m]
    BY <1>1, <1>5, <2>1 DEF Unlink
  <2>3. QED
    BY <2>2 DEF CommittedIsWhole
<1>6. CASE Reclaimed(s)
  BY <1>6 DEF Reclaimed, CommittedIsWhole
<1>7. CASE Sort(s)
  <2>1. UNCHANGED <<descriptors, markers, jailed>>
        /\ \A m \in descriptors : blob'[m] = blob[m]
    BY <1>1, <1>7 DEF Sort
  <2>2. QED
    BY <2>1 DEF CommittedIsWhole
<1>8. CASE Verify(s)
  <2>1. PICK m \in process[s].left :
          \/ Reason(m, process[s].at) = "no" /\ Verifies(s, m)
          \/ /\ Reason(m, process[s].at) \in {"clock", "missing", "size"}
             /\ Rejects(s, m, Reason(m, process[s].at))
    BY <1>8, VerifyMeans
  <2>2. descriptors' = descriptors /\ At(s, "verify")
    BY <1>8, VerifyMeans
  <2>3. CASE Verifies(s, m)
    <3>1. /\ UNCHANGED jailed
          /\ \A n \in Members : n # m => blob'[n] = blob[n] /\ (n \in markers => n \in markers')
          /\ m \in Members => blob'[m] = "exact"
      BY <1>1, <2>3 DEF Verifies
    <3>2. QED
      BY <1>1, <2>2, <3>1 DEF CommittedIsWhole
  <2>4. CASE /\ Reason(m, process[s].at) \in {"clock", "missing", "size"}
             /\ Rejects(s, m, Reason(m, process[s].at))
    <3>1. /\ m \in Members /\ jailed'[m] = "clock"
          /\ \A n \in Members \ {m} : jailed'[n] = jailed[n]
      BY <1>1, <2>2, <2>4, OnlyClocksReject
    <3>2. /\ blob'[m] = "none" /\ markers' = markers
          /\ \A n \in Members \ {m} : blob'[n] = blob[n]
      BY <1>1, <2>4, <3>1 DEF Rejects
    <3>3. QED
      BY <1>1, <2>2, <3>1, <3>2 DEF CommittedIsWhole
  <2>5. QED
    BY <2>1, <2>3, <2>4
<1>9. CASE Jail(s)
  BY <1>9 DEF Jail, CommittedIsWhole
<1>10. CASE Mark(s)
  BY <1>10 DEF Mark, CommittedIsWhole
<1>11. CASE Move(s)
  <2>1. /\ At(s, "move") /\ UNCHANGED <<descriptors, markers, jailed>>
        /\ blob' = [blob EXCEPT ![Member(s)] = IF process[s].surplus THEN "long" ELSE "exact"]
    BY <1>11 DEF Move
  <2>2. process[s].surplus => Member(s) \in markers
    BY <1>1, <2>1 DEF CommitTells, At
  <2>3. \A m \in descriptors : \/ m # Member(s) /\ blob'[m] = blob[m]
                               \/ m = Member(s) /\ blob'[m] = IF process[s].surplus
                                                              THEN "long" ELSE "exact"
    BY <1>1, <2>1
  <2>4. QED
    BY <2>1, <2>2, <2>3 DEF CommittedIsWhole
<1>12. CASE Commit(s) \/ CommitUnconfirmed(s)
  <2>1. /\ At(s, "commit") /\ descriptors' = descriptors \cup {Member(s)}
        /\ UNCHANGED <<blob, markers, jailed>>
    BY <1>12 DEF Commit, CommitUnconfirmed
  <2>2. blob[Member(s)] # "none" /\ (blob[Member(s)] = "long" => Member(s) \in markers)
    BY <1>1, <2>1 DEF CommitTells, At
  <2>3. QED
    BY <2>1, <2>2 DEF CommittedIsWhole
<1>13. CASE Truncate(s)
  <2>1. /\ UNCHANGED <<descriptors, markers, jailed>>
        /\ \A m \in descriptors : blob'[m] \in {blob[m], "exact"}
    BY <1>1, <1>13 DEF Truncate
  <2>2. QED
    BY <2>1 DEF CommittedIsWhole
<1>14. CASE Unmark(s)
  <2>1. /\ UNCHANGED <<descriptors, blob, jailed>> /\ markers' = markers \ {Member(s)}
        /\ blob[Member(s)] = "exact"
    BY <1>1, <1>14 DEF Unmark, CommitTells, At
  <2>2. QED
    BY <2>1 DEF CommittedIsWhole
<1>15. QED
  BY <1>3, <1>4, <1>5, <1>6, <1>7, <1>8, <1>9, <1>10, <1>11, <1>12, <1>13, <1>14, FilesStay

(* What can be read stays readable, unless it expired by a clock that was  *)
(* seen or a clock was set back.                                           *)
LEMMA ReadableStays ==
  ASSUME TypeOK, ClocksTell, JailTells, CommittedIsWhole,
         NEW s \in Sessions, StepTells(s), Acts(s), NEW m \in Members, Readable(m)
  PROVE  \/ Readable(m)'
         \/ jailed'[m] = "clock" /\ backs > 0
         \/ latest >= Expires(m[1])
<1>1. /\ blob \in [Members -> {"none", "long", "exact"}] /\ descriptors \subseteq Members
      /\ HandTells(s) /\ CommitTells(s) /\ SweepTells(s)
      /\ m \in descriptors /\ blob[m] # "none"
  BY DEF TypeOK, StepTells, Readable
<1>2. Committing(process[s].pc) => Member(s) \in Members
  BY <1>1, MemberInHand DEF InHand
<1>3. ASSUME m \in descriptors', blob'[m] # "none" PROVE Readable(m)'
  BY <1>3 DEF Readable
<1>4. CASE UNCHANGED <<blob, descriptors, markers, jailed>>
  BY <1>1, <1>3, <1>4
<1>5. CASE Reclaim(s)
  <2>1. PICK n \in descriptors : Expired(n[1], process[s].at) /\ descriptors' = descriptors \ {n}
    BY <1>5 DEF Reclaim
  <2>2. UNCHANGED blob
    BY <1>5 DEF Reclaim
  <2>3. CASE m = n
    <3>1. m[1] \in Jobs
      BY MemberJob
    <3>2. /\ Expires(m[1]) \in Nat /\ latest \in Nat /\ process[s].at \in Nat
          /\ process[s].at <= latest
      BY <3>1, ClockAssumption DEF TypeOK, Expires, ClocksTell
    <3>3. process[s].at >= Expires(m[1])
      BY <2>1, <2>3 DEF Expired
    <3>4. QED
      BY <3>2, <3>3
  <2>4. CASE m # n
    BY <1>1, <1>3, <2>1, <2>2, <2>4
  <2>5. QED
    BY <2>3, <2>4
<1>6. CASE Unlink(s)
  <2>1. process[s].target \cap descriptors = {} /\ UNCHANGED descriptors
    BY <1>1, <1>6 DEF Unlink, At, SweepTells
  <2>2. blob'[m] = blob[m]
    BY <1>1, <1>6, <2>1 DEF Unlink
  <2>3. QED
    BY <1>1, <1>3, <2>1, <2>2
<1>7. CASE Reclaimed(s) \/ Mark(s) \/ Unmark(s)
  <2>1. UNCHANGED <<blob, descriptors>>
    BY <1>7 DEF Reclaimed, Mark, Unmark
  <2>2. QED
    BY <1>1, <1>3, <2>1
<1>8. CASE Sort(s)
  <2>1. UNCHANGED descriptors /\ blob'[m] = blob[m]
    BY <1>1, <1>8 DEF Sort
  <2>2. QED
    BY <1>1, <1>3, <2>1
<1>9. CASE Verify(s)
  <2>1. PICK n \in process[s].left :
          \/ Reason(n, process[s].at) = "no" /\ Verifies(s, n)
          \/ /\ Reason(n, process[s].at) \in {"clock", "missing", "size"}
             /\ Rejects(s, n, Reason(n, process[s].at))
    BY <1>9, VerifyMeans
  <2>2. descriptors' = descriptors /\ At(s, "verify")
    BY <1>9, VerifyMeans
  <2>3. CASE Verifies(s, n)
    <3>1. blob'[m] \in {blob[m], "exact"}
      BY <1>1, <2>3 DEF Verifies
    <3>2. QED
      BY <1>1, <1>3, <2>2, <3>1
  <2>4. CASE /\ Reason(n, process[s].at) \in {"clock", "missing", "size"}
             /\ Rejects(s, n, Reason(n, process[s].at))
    <3>1. CASE m = n
      BY <1>1, <2>2, <2>4, <3>1, OnlyClocksReject
    <3>2. CASE m # n
      <4>1. blob'[m] = blob[m]
        BY <1>1, <2>4, <3>2 DEF Rejects
      <4>2. QED
        BY <1>1, <1>3, <2>2, <4>1
    <3>3. QED
      BY <3>1, <3>2
  <2>5. QED
    BY <2>1, <2>3, <2>4
<1>10. CASE Jail(s)
  <2>1. UNCHANGED blob /\ descriptors' = descriptors \ process[s].target
    BY <1>10 DEF Jail
  <2>2. m \notin process[s].target
    BY <1>1, <1>10 DEF Jail, At, SweepTells
  <2>3. QED
    BY <1>1, <1>3, <2>1, <2>2
<1>11. CASE Move(s) \/ Truncate(s)
  <2>1. UNCHANGED descriptors /\ blob'[m] \in {blob[m], "long", "exact"}
    BY <1>1, <1>11 DEF Move, Truncate
  <2>2. QED
    BY <1>1, <1>3, <2>1
<1>12. CASE Commit(s) \/ CommitUnconfirmed(s)
  <2>1. UNCHANGED blob /\ descriptors \subseteq descriptors'
    BY <1>12 DEF Commit, CommitUnconfirmed
  <2>2. QED
    BY <1>1, <1>3, <2>1
<1>13. QED
  BY <1>4, <1>5, <1>6, <1>7, <1>8, <1>9, <1>10, <1>11, <1>12, FilesStay

(* Quarantine is for good.                                                 *)
LEMMA JailedForGood ==
  ASSUME TypeOK, NEW s \in Sessions, Acts(s), NEW m \in Members, jailed[m] = "clock"
  PROVE  jailed'[m] = "clock"
<1>1. CASE ~Verify(s)
  BY <1>1, JailedStays
<1>2. CASE Verify(s)
  <2>1. PICK n \in process[s].left :
          Verifies(s, n) \/ Rejects(s, n, Reason(n, process[s].at))
    BY <1>2, VerifyMeans
  <2>2. QED
    BY <2>1 DEF Verifies, Rejects, TypeOK
<1>3. QED
  BY <1>1, <1>2

(* A member is announced once its descriptor and its blob are there.       *)
LEMMA AnnouncedIsThere ==
  ASSUME TypeOK, NEW s \in Sessions, StepTells(s), Acts(s), NEW m \in Members,
         told'[m] = "stored", told[m] # "stored"
  PROVE  Readable(m)'
<1>1. /\ HandTells(s) /\ CommitTells(s)
      /\ m = Member(s) /\ process[s].pc \in {"commit", "unmark"}
  BY ActsCommit DEF StepTells
<1>2. blob[m] # "none"
  BY <1>1 DEF CommitTells
<1>3. ASSUME UNCHANGED told PROVE FALSE
  BY <1>3
<1>4. ASSUME Omit(s) PROVE FALSE
  BY <1>4, SettleMeans DEF Omit, TypeOK
<1>5. Commit(s) \/ Unmark(s)
  <2> USE DEF book
  <2>1. CASE \/ (\E mode \in {"opening", "recover"} : Attach(s, mode)) \/ AttachPrune(s)
             \/ Crash(s) \/ Stops(s) \/ (\E j \in Jobs : Capture(s, j))
    BY <1>3, <2>1 DEF Attach, AttachPrune, Crash, Stops, Capture
  <2>2. CASE Rebase(s) \/ Reclaim(s) \/ Unlink(s) \/ Reclaimed(s) \/ Sort(s) \/ Verify(s)
               \/ Jail(s) \/ Admit(s) \/ Advance(s) \/ Mark(s) \/ Move(s) \/ Truncate(s)
    BY <1>3, <2>2 DEF Rebase, Reclaim, Unlink, Reclaimed, Sort, Verify, Jail,
                      Admit, Advance, Mark, Move, Truncate
  <2>3. CASE Prune(s) \/ Reserve(s) \/ Ingest(s) \/ Publish(s) \/ Release(s) \/ Retry(s)
               \/ Reconciled(s)
    BY <1>3, <1>4, <2>3 DEF Prune, Reserve, Ingest, Publish, Release, Retry, Reconciled
  <2>4. CASE PublishFails(s) \/ CommitUnconfirmed(s)
    BY <1>4, <2>4 DEF PublishFails, CommitUnconfirmed
  <2>5. QED
    BY <2>1, <2>2, <2>3, <2>4 DEF Acts, Work
<1>6. m \in descriptors' /\ blob' = blob
  BY <1>1, <1>5 DEF Commit, Unmark, CommitTells, At
<1>7. QED
  BY <1>2, <1>6 DEF Readable

LEMMA AnnouncedStep ==
  ASSUME TypeOK, ClocksTell, CapturesTell, JailTells, CommittedIsWhole, AnnouncedStays,
         NEW s \in Sessions, StepTells(s), Acts(s)
  PROVE  AnnouncedStays'
<1>1. latest' = latest /\ backs' = backs
  BY BooksGrow
<1>2. ASSUME NEW m \in Members, told'[m] = "stored"
      PROVE  \/ Readable(m)'
             \/ jailed'[m] = "clock" /\ backs > 0
             \/ latest >= Expires(m[1])'
  <2>1. CASE told[m] # "stored"
    BY <1>2, <2>1, AnnouncedIsThere
  <2>2. CASE told[m] = "stored"
    <3>1. Expires(m[1])' = Expires(m[1])
      BY <2>2, MemberJob, BooksGrow DEF CapturesTell, Expires
    <3>2. CASE Readable(m)
      BY <3>1, <3>2, ReadableStays
    <3>3. CASE jailed[m] = "clock" /\ backs > 0
      BY <3>3, JailedForGood
    <3>4. CASE latest >= Expires(m[1])
      BY <3>1, <3>4
    <3>5. QED
      BY <2>2, <3>2, <3>3, <3>4 DEF AnnouncedStays
  <2>3. QED
    BY <2>1, <2>2
<1>3. QED
  BY <1>1, <1>2 DEF AnnouncedStays

LEMMA PromisesEnvironment ==
  ASSUME TypeOK, CommittedIsWhole, AnnouncedStays, WithinCaps, Tick \/ SetBack
  PROVE  CommittedIsWhole' /\ AnnouncedStays' /\ WithinCaps'
<1>1. /\ UNCHANGED <<claims, blob, descriptors, markers, jailed, told, created>>
      /\ backs \in Nat /\ backs <= backs'
      /\ latest \in Nat /\ latest' \in Nat /\ latest <= latest'
  BY TickMeans, FaultAssumption, ClockAssumption DEF Tick, SetBack, book, disk, TypeOK
<1>2. ASSUME NEW m \in Members, told'[m] = "stored"
      PROVE  \/ Readable(m)'
             \/ jailed'[m] = "clock" /\ backs' > 0
             \/ latest' >= Expires(m[1])'
  <2>1. /\ Expires(m[1])' = Expires(m[1]) /\ Expires(m[1]) \in Nat
        /\ Readable(m)' <=> Readable(m)
    BY <1>1, MemberJob, ClockAssumption DEF Expires, Readable, TypeOK
  <2>2. \/ Readable(m) \/ (jailed[m] = "clock" /\ backs > 0)
        \/ latest >= Expires(m[1])
    BY <1>1, <1>2 DEF AnnouncedStays
  <2>3. backs' \in Nat
    BY <1>1, FaultAssumption, TypeEnvironment DEF TypeOK
  <2>4. QED
    BY <1>1, <2>1, <2>2, <2>3
<1>3. QED
  BY <1>1, <1>2 DEF CommittedIsWhole, AnnouncedStays, WithinCaps, Charged, Counted

-----------------------------------------------------------------------------
(* The caps.                                                               *)

LEMMA CountedFinite ==
  ASSUME NEW jobs
  PROVE  /\ IsFiniteSet({m \in Counted : m[1] \in jobs})
         /\ IsFiniteSet({m \in Counted' : m[1] \in jobs})
         /\ Charged(jobs) \in Nat
<1>1. /\ {m \in Counted : m[1] \in jobs} \in SUBSET Members
      /\ {m \in Counted' : m[1] \in jobs} \in SUBSET Members
  BY DEF Counted
<1>2. QED
  BY <1>1, MembersCount, FS_Subset, FS_CardinalityType DEF Charged

LEMMA ChargedShrinks ==
  ASSUME NEW jobs,
         {m \in Counted' : m[1] \in jobs} \subseteq {m \in Counted : m[1] \in jobs}
  PROVE  Cardinality({m \in Counted' : m[1] \in jobs}) <= Charged(jobs)
<1>1. {m \in Counted' : m[1] \in jobs} \in SUBSET {m \in Counted : m[1] \in jobs}
  OBVIOUS
<1>2. QED
  BY <1>1, CountedFinite, FS_Subset DEF Charged

(* A claim adds what it reserved, at most.                                 *)
LEMMA ChargedGrows ==
  ASSUME NEW jobs, NEW j \in Jobs, Counted' \subseteq Counted \cup MembersOf(j)
  PROVE  /\ Cardinality({m \in Counted' : m[1] \in jobs}) <= Charged(jobs) + Size[j]
         /\ j \notin jobs =>
              Cardinality({m \in Counted' : m[1] \in jobs}) <= Charged(jobs)
<1> DEFINE new == {m \in Counted' : m[1] \in jobs}
           old == {m \in Counted : m[1] \in jobs}
<1>1. new \in SUBSET (old \cup MembersOf(j))
  OBVIOUS
<1>2. IsFiniteSet(old) /\ IsFiniteSet(MembersOf(j)) /\ Cardinality(MembersOf(j)) = Size[j]
  BY CountedFinite, MembersCount
<1>3. /\ IsFiniteSet(old \cup MembersOf(j))
      /\ Cardinality(old \cup MembersOf(j)) =
           Cardinality(old) + Cardinality(MembersOf(j)) - Cardinality(old \cap MembersOf(j))
  BY <1>2, FS_Union
<1>4. Cardinality(new) <= Cardinality(old \cup MembersOf(j)) /\ IsFiniteSet(new)
  BY <1>1, <1>3, FS_Subset
<1>5. IsFiniteSet(old \cap MembersOf(j))
  BY <1>2, FS_Intersection
<1>6. /\ Cardinality(old) \in Nat /\ Cardinality(MembersOf(j)) \in Nat
      /\ Cardinality(old \cap MembersOf(j)) \in Nat /\ Cardinality(new) \in Nat
  BY <1>2, <1>4, <1>5, FS_CardinalityType
<1>7. Cardinality(old \cup MembersOf(j)) \in Int
  BY <1>3, <1>6
<1>8. Charged(jobs) = Cardinality(old)
  BY DEF Charged
<1>9. ASSUME j \notin jobs PROVE Cardinality(new) <= Charged(jobs)
  <2>1. new \subseteq old
    BY <1>1, <1>9 DEF MembersOf
  <2>2. QED
    BY <2>1, ChargedShrinks
<1> HIDE DEF new, old
<1>10. Cardinality(new) <= Charged(jobs) + Size[j]
  BY <1>2, <1>3, <1>4, <1>6, <1>7, <1>8
<1>11. QED
  BY <1>9, <1>10 DEF new

(* Nothing but an admission adds to what is counted.                       *)
LEMMA CountedStays ==
  ASSUME TypeOK, NEW s \in Sessions, StepTells(s), Acts(s), ~Admit(s)
  PROVE  Counted' \subseteq Counted
<1>1. claims' \subseteq claims
  <2> USE DEF disk
  <2>1. CASE \/ (\E mode \in {"opening", "recover"} : Attach(s, mode)) \/ AttachPrune(s)
             \/ Crash(s) \/ Stops(s) \/ Prune(s) \/ Reserve(s) \/ Retry(s) \/ Reconciled(s)
             \/ (\E j \in Jobs : Capture(s, j)) \/ Release(s)
    BY <2>1 DEF Attach, AttachPrune, Crash, Stops, Prune, Reserve, Retry, Reconciled, Capture,
                Release
  <2>2. CASE Rebase(s) \/ Reclaim(s) \/ Unlink(s) \/ Reclaimed(s) \/ Sort(s) \/ Verify(s)
               \/ Jail(s) \/ Advance(s) \/ Mark(s) \/ Move(s) \/ Truncate(s)
    BY <2>2 DEF Rebase, Reclaim, Unlink, Reclaimed, Sort, Verify, Jail,
                Advance, Mark, Move, Truncate
  <2>3. CASE Ingest(s) \/ Publish(s) \/ PublishFails(s) \/ Commit(s) \/ Unmark(s)
               \/ CommitUnconfirmed(s)
    BY <2>3 DEF Ingest, Publish, PublishFails, Commit, Unmark, CommitUnconfirmed
  <2>4. QED
    BY <2>1, <2>2, <2>3 DEF Acts, Work
<1>2. At(s, "commit") => Member(s)[1] \in claims
  BY DEF StepTells, CommitTells, Committing, At, Member
<1>3. descriptors' \subseteq descriptors \cup (IF At(s, "commit") THEN {Member(s)} ELSE {})
  BY ActsCommit
<1>4. QED
  BY <1>1, <1>2, <1>3 DEF Counted

LEMMA CapsStep ==
  ASSUME TypeOK, WithinCaps, NEW s \in Sessions, StepTells(s), Acts(s)
  PROVE  WithinCaps'
<1> DEFINE owned(j) == {k \in Jobs : Owner[k] = Owner[j]}
           after(jobs) == Cardinality({m \in Counted' : m[1] \in jobs})
<1>1. /\ after(Jobs) \in Nat /\ Charged(Jobs) \in Nat
      /\ \A j \in Jobs : after(owned(j)) \in Nat /\ Charged(owned(j)) \in Nat
  BY CountedFinite, FS_CardinalityType
<1>2. CASE ~Admit(s)
  <2>1. Counted' \subseteq Counted
    BY <1>2, CountedStays
  <2>2. ASSUME NEW jobs PROVE after(jobs) <= Charged(jobs)
    <3>1. {m \in Counted' : m[1] \in jobs} \subseteq {m \in Counted : m[1] \in jobs}
      BY <2>1
    <3>2. QED
      BY <3>1, ChargedShrinks
  <2>3. after(Jobs) <= Cap
    BY <1>1, <2>2, CapAssumption DEF WithinCaps
  <2>4. ASSUME NEW j \in Jobs PROVE after(owned(j)) <= OwnerCap
    <3>1. after(owned(j)) <= Charged(owned(j)) /\ Charged(owned(j)) <= OwnerCap
      BY <2>2 DEF WithinCaps
    <3>2. QED
      BY <1>1, <3>1, CapAssumption
  <2>5. QED
    BY <2>3, <2>4 DEF WithinCaps, Charged
<1>3. CASE Admit(s)
  <2>1. PICK job \in Jobs : job = process[s].job
    BY <1>3 DEF Admit, At, StepTells, HandTells, InHand
  <2>2. CASE UNCHANGED claims
    <3>1. Counted' = Counted
      BY <1>3, <2>2 DEF Admit, Counted
    <3>2. QED
      BY <3>1 DEF WithinCaps, Charged
  <2>3. CASE ~UNCHANGED claims
    <3>1. claims' = claims \cup {job} /\ UNCHANGED descriptors /\ Fits(job)
      BY <1>3, <2>1, <2>3 DEF Admit
    <3>2. Counted' \subseteq Counted \cup MembersOf(job)
      <4>1. \A m \in Members : m[1] = job => m \in MembersOf(job)
        BY MemberJob
      <4>2. QED
        BY <3>1, <4>1 DEF Counted
    <3>3. /\ Charged(Jobs) + Size[job] <= Cap
          /\ Charged(owned(job)) + Size[job] <= OwnerCap
      BY <3>1 DEF Fits
    <3>4. Size[job] \in Nat
      BY SizeAssumption
    <3>5. after(Jobs) <= Cap
      <4>1. after(Jobs) <= Charged(Jobs) + Size[job]
        BY <3>2, ChargedGrows
      <4>2. QED
        BY <1>1, <3>3, <3>4, <4>1, CapAssumption
    <3>6. ASSUME NEW j \in Jobs PROVE after(owned(j)) <= OwnerCap
      <4>1. CASE Owner[j] = Owner[job]
        <5>1. owned(j) = owned(job)
          BY <4>1
        <5>2. after(owned(job)) <= Charged(owned(job)) + Size[job]
          BY <3>2, ChargedGrows
        <5>3. after(owned(job)) \in Nat /\ Charged(owned(job)) \in Nat
          BY <1>1
        <5>4. after(owned(job)) <= OwnerCap
          BY <3>3, <3>4, <5>2, <5>3, CapAssumption
        <5>5. QED
          BY <5>1, <5>4
      <4>2. CASE Owner[j] # Owner[job]
        <5>1. job \notin owned(j)
          BY <4>2
        <5>2. after(owned(j)) <= Charged(owned(j))
          BY <3>2, <5>1, ChargedGrows
        <5>3. Charged(owned(j)) <= OwnerCap
          BY DEF WithinCaps
        <5>4. QED
          BY <1>1, <5>2, <5>3, CapAssumption
      <4>3. QED
        BY <4>1, <4>2
    <3>7. QED
      BY <3>5, <3>6 DEF WithinCaps, Charged
  <2>4. QED
    BY <2>2, <2>3
<1>4. QED
  BY <1>2, <1>3

-----------------------------------------------------------------------------
(* The theorems.                                                           *)

LEMMA InitHolds == Init => IInv
<1> SUFFICES ASSUME Init PROVE IInv
  OBVIOUS
<1>1. /\ 0 \in 0..MaxClock /\ 0 \in 0..MaxBacks /\ 0 \in 0..MaxFaults
      /\ Down \in ProcessType /\ process = [s \in Sessions |-> Down]
  BY ClockAssumption, FaultAssumption, DownType DEF Init
<1>2. TypeOK
  BY <1>1, TypeParts DEF Init, DiskType, BookType, ClockType
<1>3. \A s \in Sessions : process[s].pc = "idle" /\ process[s].at = 0
  BY <1>1 DEF Down
<1>4. OneHolder
  BY <1>3 DEF OneHolder, Holds, Locked
<1>5. ClocksTell /\ CapturesTell /\ JailTells
  BY <1>3 DEF Init, ClocksTell, CapturesTell, JailTells
<1>6. Steps
  BY <1>3 DEF Steps, HandTells, InHand, CommitTells, Committing, SweepTells, Sorting
<1>7. CommittedIsWhole /\ AnnouncedStays
  BY DEF Init, CommittedIsWhole, AnnouncedStays
<1>8. WithinCaps
  <2>1. \A jobs : {m \in Counted : m[1] \in jobs} = {}
    BY DEF Init, Counted
  <2>2. \A jobs : Charged(jobs) = 0
    BY <2>1, FS_EmptySet DEF Charged
  <2>3. QED
    BY <2>2, CapAssumption DEF WithinCaps
<1>9. QED
  BY <1>2, <1>4, <1>5, <1>6, <1>7, <1>8 DEF IInv, Frame

LEMMA TypeActs ==
  ASSUME TypeOK, NEW s \in Sessions, HandTells(s), Acts(s)
  PROVE  TypeOK'
<1>1. CASE \/ (\E mode \in {"opening", "recover"} : Attach(s, mode)) \/ AttachPrune(s)
           \/ Prune(s) \/ Reserve(s) \/ Reconciled(s) \/ Retry(s)
  <2>1. UNCHANGED <<book, disk>>
    BY <1>1 DEF Attach, AttachPrune, Prune, Reserve, Reconciled, Retry
  <2>2. QED
    BY <1>1, <2>1, TypeQuiet
<1>2. CASE Rebase(s) \/ Reclaim(s) \/ Unlink(s) \/ Reclaimed(s) \/ Sort(s) \/ Jail(s)
  <2>1. UNCHANGED <<book, clock, faults>>
    BY <1>2 DEF Rebase, Reclaim, Unlink, Reclaimed, Sort, Jail
  <2>2. BookType' /\ ClockType'
    BY <2>1, TypeParts, TypesStay
  <2>3. QED
    BY <1>2, <2>2, TypeSweep
<1>3. CASE Advance(s) \/ Mark(s) \/ Move(s) \/ Commit(s) \/ Truncate(s) \/ Unmark(s)
  <2>1. UNCHANGED <<clock, faults>>
    BY <1>3 DEF Advance, Mark, Move, Commit, Truncate, Unmark
  <2>2. ClockType'
    BY <2>1, TypeParts, TypesStay
  <2>3. QED
    BY <1>3, <2>2, TypeCommit
<1>4. CASE CommitUnconfirmed(s)
  <2>1. ClockType'
    BY <1>4, TypeFaults DEF CommitUnconfirmed
  <2>2. QED
    BY <1>4, <2>1, TypeCommit
<1>5. CASE Crash(s) \/ PublishFails(s) \/ Stops(s)
  <2>1. Fault
    BY <1>5 DEF Crash, PublishFails, Stops
  <2>2. QED
    BY <1>5, <2>1, TypeFaults
<1>6. QED
  BY <1>1, <1>2, <1>3, <1>4, <1>5, TypeVerify, TypePublish DEF Acts, Work

LEMMA StepHolds == IInv /\ [Next]_vars => IInv'
<1> SUFFICES ASSUME IInv, [Next]_vars PROVE IInv'
  OBVIOUS
<1>1. /\ TypeOK /\ OneHolder /\ ClocksTell /\ CapturesTell /\ JailTells /\ Steps
      /\ CommittedIsWhole /\ AnnouncedStays /\ WithinCaps
      /\ \A s \in Sessions : StepTells(s) /\ HandTells(s) /\ SweepTells(s)
  BY DEF IInv, Frame, Steps, StepTells
<1>2. ASSUME NEW s \in Sessions, Acts(s) PROVE IInv'
  <2>1. TypeOK'
    BY <1>1, <1>2, TypeActs
  <2>2. OneHolder' /\ ClocksTell' /\ CapturesTell' /\ JailTells'
    BY <1>1, <1>2, HolderStep, ClockStep, CapturesStep, JailStep
  <2>3. Steps'
    BY <1>1, <1>2, StepsStep
  <2>4. CommittedIsWhole' /\ AnnouncedStays' /\ WithinCaps'
    BY <1>1, <1>2, WholeStep, AnnouncedStep, CapsStep
  <2>5. QED
    BY <2>1, <2>2, <2>3, <2>4 DEF IInv, Frame
<1>3. ASSUME Tick \/ SetBack PROVE IInv'
  <2>1. TypeOK' /\ ClocksTell' /\ CapturesTell' /\ JailTells' /\ Steps'
    BY <1>1, <1>3, TypeEnvironment, ClockEnvironment, CapturesEnvironment, JailEnvironment,
       StepsEnvironment
  <2>2. CommittedIsWhole' /\ AnnouncedStays' /\ WithinCaps'
    BY <1>1, <1>3, PromisesEnvironment
  <2>3. OneHolder'
    BY <1>1, <1>3 DEF Tick, SetBack, OneHolder, Holds
  <2>4. QED
    BY <2>1, <2>2, <2>3 DEF IInv, Frame
<1>4. CASE UNCHANGED vars
  BY <1>1, <1>4 DEF vars, clock, book, disk, IInv, Frame, TypeOK, OneHolder, Holds, ClocksTell,
     CapturesTell, JailTells, Steps, HandTells, InHand, CommitTells, Committing, Member,
     SweepTells, Sorting, CommittedIsWhole, AnnouncedStays, Readable, Expires, WithinCaps,
     Charged, Counted
<1>5. QED
  BY <1>2, <1>3, <1>4, NextIs

(* The lock, the clocks, the progress of every process and the files never *)
(* contradict each other.                                                  *)
THEOREM StoreInvariant == Spec => []IInv
  BY InitHolds, StepHolds, PTL DEF Spec

(* The store, its sessions and its clocks keep their types.                *)
THEOREM StoreTypeOK == Spec => []TypeOK
<1>1. IInv => TypeOK
  BY DEF IInv
<1>2. QED
  BY <1>1, StoreInvariant, PTL

(* A descriptor always has its whole blob, or a marker for the bytes past  *)
(* it, or a clock was set back (publish_descriptor, quality.rs:1122).      *)
THEOREM DescriptorsCommit == Spec => []CommittedIsWhole
<1>1. IInv => CommittedIsWhole
  BY DEF IInv
<1>2. QED
  BY <1>1, StoreInvariant, PTL

(* What a publisher was told is stored is never taken away before its time *)
(* ("Nothing live or unexpired is ever evicted", quality.rs:31).           *)
THEOREM StoredStays == Spec => []AnnouncedStays
<1>1. IInv => AnnouncedStays
  BY DEF IInv
<1>2. QED
  BY <1>1, StoreInvariant, PTL

(* What is claimed and what is published never exceed the caps             *)
(* (accounting, quality.rs:486).                                           *)
THEOREM CapsHold == Spec => []WithinCaps
<1>1. IInv => WithinCaps
  BY DEF IInv
<1>2. QED
  BY <1>1, StoreInvariant, PTL
=============================================================================
