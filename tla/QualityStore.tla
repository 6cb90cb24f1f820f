----------------------------- MODULE QualityStore -----------------------------
(***************************************************************************)
(* The durable store of quality artifacts: sessions of the server and the  *)
(* operator's commands share one directory under a lock that is tried and  *)
(* never awaited.  A job claims its bytes, writes a member beside the      *)
(* store, publishes the blob and then its descriptor, and gives its claim  *)
(* up; expired objects are reclaimed, and opening a session reconciles     *)
(* what a crash left.                                                      *)
(*                                                                         *)
(* Every file operation is durable when its step ends.  A member has one   *)
(* unit of bytes; a blob is long while it keeps preallocated bytes past    *)
(* them.  Names are random in the code, so a job is published once.        *)
(***************************************************************************)
EXTENDS Integers, FiniteSets, FiniteSetsExt

CONSTANTS
  Sessions,        (* processes: servers and operator commands             *)
  Jobs,
  Size,            (* members of each job, which it reserves as bytes      *)
  Owner,           (* of each job                                          *)
  OwnerCap, Cap,   (* QUALITY_MAX_OWNER_BYTES, QUALITY_MAX_GLOBAL_BYTES    *)
  TTL,             (* lifetime of a job's objects after their capture      *)
  MaxClock,        (* bound: seconds                                       *)
  MaxBacks,        (* bound: times the wall clock is set back              *)
  MaxFaults        (* bound: crashes and I/O errors                        *)

ASSUME SizeAssumption ==
  IsFiniteSet(Jobs) /\ "none" \notin Jobs /\ Size \in [Jobs -> Nat \ {0}]
ASSUME CapAssumption == Cap \in Nat /\ OwnerCap \in Nat
ASSUME ClockAssumption == TTL \in Nat \ {0} /\ MaxClock \in Nat
ASSUME FaultAssumption == MaxBacks \in Nat /\ MaxFaults \in Nat

VARIABLES
  wall,            (* the wall clock                                       *)
  projected,       (* origin of each session plus the time since           *)
  fresh,           (* jobs not yet captured                                *)
  created,         (* when each job's sources were captured                *)
  claims,          (* jobs with a reservation record                       *)
  parts,           (* jobs with an uncommitted member                      *)
  blob,            (* of each member: none, long or exact                  *)
  descriptors,     (* members with their commit marker                     *)
  markers,         (* members whose truncation is recorded                 *)
  jailed,          (* why a member was quarantined                         *)
  watermark,
  process,         (* what each process is doing                           *)
  told,            (* what a publisher was told of each member             *)
  latest,          (* history: the most advanced clock there was           *)
  backs, faults

clock == <<wall, projected, latest, backs>>
disk == <<claims, parts, blob, descriptors, markers, jailed, watermark>>
book == <<fresh, created, told>>
vars == <<clock, book, disk, process, faults>>

MembersOf(j) == {j} \X (1..Size[j])
Members == UNION {MembersOf(j) : j \in Jobs}

Locked == {"rebase", "reclaim", "unlink", "admit", "sort", "verify", "jail",
           "watermark", "mark", "move", "commit", "truncate", "unmark"}
Unlocked == {"idle", "captured", "member", "publish", "release", "retry", "prune"}
Modes == {"down", "blocked", "opening", "open", "recover", "prune"}

Down == [mode |-> "down", pc |-> "idle", job |-> "none", item |-> 0, at |-> 0,
         surplus |-> FALSE, after |-> "leave", target |-> {}, left |-> {}]

TypeOK ==
  /\ wall \in 0..MaxClock /\ projected \in [Sessions -> 0..MaxClock]
  /\ fresh \subseteq Jobs /\ created \in [Jobs -> 0..MaxClock]
  /\ claims \subseteq Jobs /\ parts \subseteq Jobs
  /\ blob \in [Members -> {"none", "long", "exact"}]
  /\ descriptors \subseteq Members /\ markers \subseteq Members
  /\ jailed \in [Members -> {"no", "clock", "missing", "size"}]
  /\ watermark \in 0..MaxClock
  /\ process \in [Sessions ->
       [mode : Modes, pc : Locked \cup Unlocked, job : Jobs \cup {"none"}, item : Nat,
        at : 0..MaxClock, surplus : BOOLEAN, after : {"admit", "sort", "leave"},
        target : SUBSET Members, left : SUBSET Members]]
  /\ told \in [Members -> {"nothing", "stored", "omitted"}]
  /\ latest \in 0..MaxClock /\ backs \in 0..MaxBacks /\ faults \in 0..MaxFaults

Init ==
  /\ wall = 0 /\ projected = [s \in Sessions |-> 0]
  /\ fresh = Jobs /\ created = [j \in Jobs |-> 0]
  /\ claims = {} /\ parts = {} /\ blob = [m \in Members |-> "none"]
  /\ descriptors = {} /\ markers = {} /\ jailed = [m \in Members |-> "no"]
  /\ watermark = 0 /\ process = [s \in Sessions |-> Down]
  /\ told = [m \in Members |-> "nothing"]
  /\ latest = 0 /\ backs = 0 /\ faults = 0

-----------------------------------------------------------------------------
(* Time, expiry and accounting.                                            *)

(* The hybrid clock of a session.                                          *)
Now(s) == Max({wall, projected[s]})
Expires(j) == created[j] + TTL
Expired(j, at) == at >= Expires(j)
Regressed == watermark > wall

(* The lock is held for the length of an operation and never awaited.      *)
LockFree == \A s \in Sessions : process[s].pc \notin Locked

(* A claim is charged whole, a released job what it published; a member    *)
(* is one unit of bytes, so what is charged is counted.                    *)
Counted == {m \in Members : m[1] \in claims \/ m \in descriptors}
Charged(jobs) == Cardinality({m \in Counted : m[1] \in jobs})

(* Fault: a claim is charged only what it has published so far.            *)
FitsPublished(j) ==
  /\ Cardinality(descriptors) + Size[j] <= Cap
  /\ Cardinality({m \in descriptors : Owner[m[1]] = Owner[j]}) + Size[j] <= OwnerCap

Fits(j) ==
  /\ Charged(Jobs) + Size[j] <= Cap
  /\ Charged({k \in Jobs : Owner[k] = Owner[j]}) + Size[j] <= OwnerCap

At(s, pc) == process[s].pc = pc
Set(s, new) == process' = [process EXCEPT ![s] = new]
Goto(s, pc) == Set(s, [process[s] EXCEPT !.pc = pc])
(* An operation ends, an operator's command with its process; it fails,    *)
(* and so does the opening of a session.                                   *)
Leave(s) ==
  IF process[s].mode \in {"opening", "open"} THEN [Down EXCEPT !.mode = "open"] ELSE Down
Fail(s) == Set(s, IF process[s].mode = "open" THEN Leave(s) ELSE Down)

-----------------------------------------------------------------------------
(* Opening, recovering and pruning.                                        *)

Reconciling(s, mode) ==
  Set(s, [Down EXCEPT !.mode = mode, !.pc = "rebase", !.after = "sort",
                      !.at = IF Regressed THEN wall ELSE Max({watermark, wall})])

(* open blocks a session whose clock is behind the watermark; recover      *)
(* rebases the watermark.                                                  *)
Attach(s, mode) ==
  /\ process[s].mode = "down" /\ LockFree
  /\ projected' = [projected EXCEPT ![s] = wall]
  /\ IF mode = "opening" /\ Regressed
     THEN Set(s, [Down EXCEPT !.mode = "blocked"])
     ELSE Reconciling(s, mode)
  /\ UNCHANGED <<wall, latest, backs, book, disk, faults>>

Rebase(s) ==
  /\ At(s, "rebase") /\ watermark' = process[s].at /\ Goto(s, "reclaim")
  /\ UNCHANGED <<clock, book, claims, parts, blob, descriptors, markers, jailed, faults>>

(* prune_expired looks at the clock before it has the lock.                *)
AttachPrune(s) ==
  /\ process[s].mode = "down" /\ ~Regressed
  /\ projected' = [projected EXCEPT ![s] = wall]
  /\ Set(s, [Down EXCEPT !.mode = "prune", !.pc = "prune"])
  /\ UNCHANGED <<wall, latest, backs, book, disk, faults>>

Prune(s) ==
  /\ At(s, "prune")
  /\ IF LockFree
     THEN Set(s, [process[s] EXCEPT !.pc = "reclaim", !.after = "leave", !.at = Now(s)])
     ELSE Set(s, Down)
  /\ UNCHANGED <<clock, book, disk, faults>>

(* reclaim: each expired pair, descriptor first, ...                       *)
Reclaim(s) ==
  /\ At(s, "reclaim")
  /\ \E m \in descriptors :
       /\ Expired(m[1], process[s].at)
       /\ descriptors' = descriptors \ {m}
       /\ Set(s, [process[s] EXCEPT !.pc = "unlink", !.target = {m}])
  /\ UNCHANGED <<clock, book, claims, parts, blob, markers, jailed, watermark, faults>>

Unlink(s) ==
  /\ At(s, "unlink")
  /\ blob' = [m \in Members |-> IF m \in process[s].target THEN "none" ELSE blob[m]]
  /\ Set(s, [process[s] EXCEPT !.pc = "reclaim", !.target = {}])
  /\ UNCHANGED <<clock, book, claims, parts, descriptors, markers, jailed, watermark, faults>>

(* ... then claims that expired, temporaries without a claim and markers   *)
(* without a descriptor.                                                   *)
Reclaimed(s) ==
  LET p == process[s]
      live == {j \in claims : ~Expired(j, p.at)}
  IN  /\ At(s, "reclaim") /\ \A m \in descriptors : ~Expired(m[1], p.at)
      /\ claims' = live /\ parts' = parts \cap live
      /\ markers' = markers \cap descriptors
      /\ IF p.after = "leave" THEN Set(s, Leave(s)) ELSE Goto(s, p.after)
      /\ UNCHANGED <<clock, book, blob, descriptors, jailed, watermark, faults>>

(* Fault: what is committed is read off the claims.                        *)
SortByClaim(s) ==
  /\ At(s, "sort")
  /\ blob' = [m \in Members |-> IF m[1] \in claims THEN blob[m] ELSE "none"]
  /\ Set(s, [process[s] EXCEPT !.pc = "verify", !.left = descriptors])
  /\ UNCHANGED <<clock, book, claims, parts, descriptors, markers, jailed, watermark, faults>>

(* reconcile discards blobs without a descriptor ...                       *)
Sort(s) ==
  /\ At(s, "sort")
  /\ blob' = [m \in Members |-> IF m \in descriptors THEN blob[m] ELSE "none"]
  /\ Set(s, [process[s] EXCEPT !.pc = "verify", !.left = descriptors])
  /\ UNCHANGED <<clock, book, claims, parts, descriptors, markers, jailed, watermark, faults>>

(* ... and verifies every pair: a long blob is truncated only on the word  *)
(* of its marker.                                                          *)
Reason(m, at) ==
  CASE created[m[1]] > at -> "clock"
    [] blob[m] = "none" -> "missing"
    [] blob[m] = "long" /\ m \notin markers -> "size"
    [] OTHER -> "no"

Verify(s) ==
  LET p == process[s] IN
  /\ At(s, "verify") /\ p.left # {}
  /\ LET m == CHOOSE n \in p.left : TRUE
         reason == Reason(m, p.at)
     IN  IF reason = "no"
         THEN /\ blob' = [blob EXCEPT ![m] = "exact"]
              /\ markers' = IF blob[m] = "long" THEN markers \ {m} ELSE markers
              /\ Set(s, [p EXCEPT !.left = @ \ {m}]) /\ UNCHANGED jailed
         ELSE /\ blob' = [blob EXCEPT ![m] = "none"]
              /\ jailed' = [jailed EXCEPT ![m] = IF @ = "no" THEN reason ELSE @]
              /\ Set(s, [p EXCEPT !.pc = "jail", !.target = {m}, !.left = @ \ {m}])
              /\ UNCHANGED markers
  /\ UNCHANGED <<clock, book, claims, parts, descriptors, watermark, faults>>

(* The blob is in quarantine, its descriptor follows.                      *)
Jail(s) ==
  /\ At(s, "jail")
  /\ descriptors' = descriptors \ process[s].target
  /\ Set(s, [process[s] EXCEPT !.pc = "verify", !.target = {}])
  /\ UNCHANGED <<clock, book, claims, parts, blob, markers, jailed, watermark, faults>>

Reconciled(s) ==
  /\ At(s, "verify") /\ process[s].left = {}
  /\ Set(s, Leave(s)) /\ UNCHANGED <<clock, book, disk, faults>>

-----------------------------------------------------------------------------
(* Publishing a job.                                                       *)

(* The sources are captured, at the wall clock, before the job runs.       *)
Capture(s, j) ==
  /\ process[s].mode = "open" /\ At(s, "idle") /\ j \in fresh
  /\ fresh' = fresh \ {j} /\ created' = [created EXCEPT ![j] = wall]
  /\ Set(s, [process[s] EXCEPT !.pc = "captured", !.job = j, !.item = 1])
  /\ UNCHANGED <<clock, told, disk, faults>>

(* reserve reclaims before it judges the claim; contention and expiry      *)
(* refuse it.                                                              *)
Reserve(s) ==
  /\ At(s, "captured")
  /\ IF LockFree /\ ~Expired(process[s].job, Now(s))
     THEN Set(s, [process[s] EXCEPT !.pc = "reclaim", !.after = "admit", !.at = Now(s)])
     ELSE Set(s, Leave(s))
  /\ UNCHANGED <<clock, book, disk, faults>>

Admit(s) ==
  /\ At(s, "admit")
  /\ IF Fits(process[s].job)
     THEN claims' = claims \cup {process[s].job} /\ Goto(s, "member")
     ELSE UNCHANGED claims /\ Set(s, Leave(s))
  /\ UNCHANGED <<clock, book, parts, blob, descriptors, markers, jailed, watermark, faults>>

Member(s) == <<process[s].job, process[s].item>>

(* A member is kept or omitted; then comes the next one, or the end.       *)
Settle(s, answer, next) ==
  LET p == process[s]
      on == IF next /\ p.item < Size[p.job] THEN "member" ELSE "release"
  IN  /\ told' = [told EXCEPT ![Member(s)] = answer]
      /\ Set(s, [p EXCEPT !.pc = on, !.surplus = FALSE, !.at = 0,
                          !.item = IF on = "member" THEN @ + 1 ELSE @])
Omit(s) == (\E next \in BOOLEAN : Settle(s, "omitted", next)) /\ UNCHANGED <<fresh, created>>

Authorized(s) == process[s].job \in claims /\ ~Expired(process[s].job, Now(s))

(* ingest_member writes the whole member under one lock.                   *)
Ingest(s) ==
  /\ At(s, "member")
  /\ IF LockFree /\ Authorized(s)
     THEN /\ parts' = parts \cup {process[s].job} /\ UNCHANGED book
          /\ \E surplus \in BOOLEAN :
               Set(s, [process[s] EXCEPT !.pc = "publish", !.surplus = surplus])
     ELSE Omit(s) /\ UNCHANGED parts
  /\ UNCHANGED <<clock, claims, blob, descriptors, markers, jailed, watermark, faults>>

(* publish_descriptor asks for everything again, under a lock of its own.  *)
Publish(s) ==
  /\ At(s, "publish")
  /\ IF LockFree /\ Authorized(s)
     THEN /\ Set(s, [process[s] EXCEPT !.pc = "watermark", !.at = Now(s)])
          /\ UNCHANGED book
     ELSE Omit(s)
  /\ UNCHANGED <<clock, disk, faults>>

(* Fault: the truncation is recorded once there is something to truncate.  *)
AdvanceUnmarked(s) ==
  /\ At(s, "watermark") /\ watermark' = process[s].at /\ Goto(s, "move")
  /\ UNCHANGED <<clock, book, claims, parts, blob, descriptors, markers, jailed, faults>>

Advance(s) ==
  /\ At(s, "watermark") /\ watermark' = process[s].at
  /\ Goto(s, IF process[s].surplus THEN "mark" ELSE "move")
  /\ UNCHANGED <<clock, book, claims, parts, blob, descriptors, markers, jailed, faults>>

Mark(s) ==
  /\ At(s, "mark") /\ markers' = markers \cup {Member(s)} /\ Goto(s, "move")
  /\ UNCHANGED <<clock, book, claims, parts, blob, descriptors, jailed, watermark, faults>>

(* The uncommitted member becomes the blob, ...                            *)
Move(s) ==
  /\ At(s, "move") /\ process[s].job \in parts /\ Goto(s, "commit")
  /\ parts' = parts \ {process[s].job}
  /\ blob' = [blob EXCEPT ![Member(s)] = IF process[s].surplus THEN "long" ELSE "exact"]
  /\ UNCHANGED <<clock, book, claims, descriptors, markers, jailed, watermark, faults>>

(* ... the descriptor commits it, and the surplus goes.                    *)
Stored(s) == Settle(s, "stored", TRUE) /\ UNCHANGED <<fresh, created>>

Commit(s) ==
  /\ At(s, "commit") /\ descriptors' = descriptors \cup {Member(s)}
  /\ IF process[s].surplus THEN Goto(s, "truncate") /\ UNCHANGED book ELSE Stored(s)
  /\ UNCHANGED <<clock, claims, parts, blob, markers, jailed, watermark, faults>>

Truncate(s) ==
  /\ At(s, "truncate") /\ blob' = [blob EXCEPT ![Member(s)] = "exact"]
  /\ Goto(s, "unmark")
  /\ UNCHANGED <<clock, book, claims, parts, descriptors, markers, jailed, watermark, faults>>

Unmark(s) ==
  /\ At(s, "unmark") /\ markers' = markers \ {Member(s)} /\ Stored(s)
  /\ UNCHANGED <<clock, claims, parts, blob, descriptors, jailed, watermark, faults>>

(* The claim is released; when that fails the session reconciles.          *)
Release(s) ==
  /\ At(s, "release")
  /\ IF LockFree
     THEN /\ claims' = claims \ {process[s].job} /\ Set(s, Leave(s))
          /\ parts' = IF process[s].job \in claims THEN parts \ {process[s].job} ELSE parts
     ELSE Goto(s, "retry") /\ UNCHANGED <<claims, parts>>
  /\ UNCHANGED <<clock, book, blob, descriptors, markers, jailed, watermark, faults>>

Retry(s) ==
  /\ At(s, "retry")
  /\ IF LockFree /\ ~Regressed THEN Reconciling(s, "open") ELSE Set(s, Leave(s))
  /\ UNCHANGED <<clock, book, disk, faults>>

-----------------------------------------------------------------------------
(* The environment.                                                        *)

Ceiling == Max({wall} \cup {projected[s] : s \in Sessions})
Tick ==
  /\ Ceiling < MaxClock /\ wall' = wall + 1
  /\ projected' = [s \in Sessions |-> IF process[s].mode = "down" THEN projected[s]
                                      ELSE projected[s] + 1]
  /\ latest' = Max({latest, wall'} \cup {projected'[s] : s \in Sessions})
  /\ UNCHANGED <<backs, book, disk, process, faults>>

SetBack ==
  /\ backs < MaxBacks /\ wall > 0 /\ wall' = wall - 1 /\ backs' = backs + 1
  /\ UNCHANGED <<projected, latest, book, disk, process, faults>>

Fault == faults < MaxFaults /\ faults' = faults + 1

(* A process dies; the system releases its lock.                           *)
Crash(s) ==
  /\ Fault /\ process[s].mode # "down" /\ Set(s, Down)
  /\ projected' = [projected EXCEPT ![s] = 0]
  /\ UNCHANGED <<wall, latest, backs, book, disk>>

(* An error before a step's effect ends the publication of the member; a   *)
(* write that fails removes what it wrote.                                 *)
PublishFails(s) ==
  /\ Fault
  /\ process[s].pc \in {"member", "watermark", "mark", "move", "commit", "truncate", "unmark"}
  /\ Omit(s)
  /\ UNCHANGED <<clock, disk>>

(* The descriptor is there but its durability could not be confirmed.      *)
CommitUnconfirmed(s) ==
  /\ Fault /\ At(s, "commit") /\ descriptors' = descriptors \cup {Member(s)} /\ Omit(s)
  /\ UNCHANGED <<clock, claims, parts, blob, markers, jailed, watermark>>

(* An error ends reclamation or reconciliation, a reservation, or the      *)
(* release.                                                                *)
Stops(s) ==
  /\ Fault /\ UNCHANGED <<clock, book, disk>>
  /\ \/ /\ process[s].pc \in {"rebase", "reclaim", "unlink", "admit", "sort", "verify", "jail"}
        /\ Fail(s)
     \/ At(s, "release") /\ Goto(s, "retry")

Work(s) ==
  \/ Rebase(s) \/ Prune(s) \/ Reclaim(s) \/ Unlink(s) \/ Reclaimed(s) \/ Sort(s)
  \/ Verify(s) \/ Jail(s) \/ Reconciled(s)
  \/ Reserve(s) \/ Admit(s) \/ Ingest(s) \/ Publish(s) \/ Advance(s) \/ Mark(s)
  \/ Move(s) \/ Commit(s) \/ Truncate(s) \/ Unmark(s) \/ Release(s) \/ Retry(s)

Next ==
  \/ \E s \in Sessions :
       \/ (\E mode \in {"opening", "recover"} : Attach(s, mode)) \/ AttachPrune(s)
       \/ (\E j \in Jobs : Capture(s, j)) \/ Work(s)
       \/ Crash(s) \/ PublishFails(s) \/ CommitUnconfirmed(s) \/ Stops(s)
  \/ Tick \/ SetBack

Spec == Init /\ [][Next]_vars
===============================================================================
