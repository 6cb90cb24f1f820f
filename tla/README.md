# Verification of rust-engineering-mcp

This directory holds TLA+ models of the parts of the server whose correctness
depends on interleavings, failures or crashes, the TLC configurations that
check them on small instances, and proofs that hold for every instance. The
server is an MCP server over stdio: a client asks for Rust tools (check, test,
format, dependency edits, quality gates ...), the server runs them against a
project in containers, and mutations are written back to the project through a
journal.

    tlc -workers 2 -config JobRace.cfg MCJobLifecycle.tla
    tlapm JobLifecycle_proofs.tla

The proofs are in `JobLifecycle_proofs`, `MutationJournal_proofs`,
`MutationPlans_proofs`, `ExecutionGateway_proofs`, `StdioSession_proofs`,
`QualityStore_proofs`, `AnalyzerSession_proofs` and `ProjectRegistry_proofs`.

## 1. Inventory

Paths are relative to `src/crates`. "Hard" is what an ordinary test hardly
reaches; `PROJECT.json` lists those places line by line under `hazards`.

| component | state | operations | hard | what makes it correct |
|---|---|---|---|---|
| background jobs (`application/src/job.rs`, `mcp-server/src/stdio.rs`, `stdio/tasks.rs`, `domain/src/job.rs`) | one record per job behind a mutex, a signal and a cleanup flag per job, a permit per job, a delivery mark per response, the clock | admit, the runner task (`run_quality_job`), tasks/get, tasks/update, tasks/cancel, the watchdog sweep every 100 ms, the shutdown sweep | runner, controls and sweeps interleave between any two registry calls; a deadline, a cancel, a revoked root and the completion race; clean-up may fail; the condition variable may wake early; the wall clock may refuse | one job at a time, the slot is kept by whatever still runs, settled records are final, a settled record means joined work, no slot is lost, every deadline is enforced |
| worker slot (`mcp-server/src/stdio/workers.rs`) | a semaphore of one, a panic latch, a session token, a token per call | `run`, `run_joined`, `admit`, `shutdown` | the waiter leaves while the blocking thread goes on; a panic between two reads of the latch | after a panic no work starts; a drained slot means ended work |
| transport admission (`stdio/admission.rs`, `stdio/budget.rs`) | request, notification and send permits, the ledger of outstanding ids, a failure flag | `receive`, `send` and its completion, `close`, dispatch of a request | ids reused before the flush completes, suppressed responses, failures while sends are pending | marks go to the right request, ids are unambiguous, permits bound everything in flight, the exit code is honest |
| mutation journal (`project-adapter/src/filesystem/macos/mutation.rs`, `mutation_state.rs`, `mutation_store.rs`, `mutation_port.rs`) | two record files per mutation, a temporary per file, the project's files | commit, undo, recover, replay, receipt, prune | the process dies between any two writes; records are torn; an editor saves a file; a temporary vanishes | all files or none, records and receipts are true, edits survive, recovery ends |
| mutation plans (`application/src/mutation.rs`, `stdio/mutation.rs`) | previewed plans with owner, expiry and completion | preview, admit, apply, revoke | an expiry in the middle of an apply; previews the client never received | a plan is applied at most once and only as reviewed |
| project registry (`application/src/lib.rs`, `source.rs`, `validation.rs`, `quality.rs`) | bounded capabilities with the identity they were opened with and the time of their last use | open, resolve with or without renewal, capture, and every tool that publishes through it | the lease runs out, the root is replaced and put back, or the call is cancelled between two of the half dozen looks one tool takes | an answer is about the project that was opened; only an answer renews a lease |
| ephemeral artifacts (`artifact-adapter/src/lib.rs`, `application/src/artifact_access.rs`, `stdio/resources.rs`) | logs with owner and expiry under byte and entry quotas | capture, read, remove, reap | one of several logs of a call fails after others were stored; a log ends while it is copied | a refused call leaves nothing nobody knows of; no log outlives its capability |
| durable quality artifacts (`project-adapter/src/filesystem/macos/quality.rs`, `application/src/quality_artifact.rs`, `stdio/quality_artifacts.rs`) | reservations, uncommitted members, blobs, descriptors, truncation markers, a clock watermark, a quarantine | open, reserve, ingest, publish, release, reconcile, recover, prune | crashes between two file operations; several processes whose clocks disagree; a clock set back | a descriptor always has its whole blob, nothing announced is taken away early, claims stay within the caps |
| execution gateway (`execution-adapter/src/*_gateway.rs`, `lib.rs`, `project_inspection.rs`, `rust_calibration.rs`) | one single-flight lock, a quarantine, the daemon's containers and volumes | open, calibrate, thirteen kinds of run, each with its own plan and cleanup | lost replies, cancellation or deadline in any step, a cleanup that fails half way, a panic, a kill | no run starts over leftovers, no writer stays beside untrusted code, answers are earned |
| analyzer session (`execution-adapter/src/lsp_session.rs`, `lsp_codec.rs`, `analyzer_gateway.rs`) | a child process, three bounded pipes, a decoder, ids awaited and answered | open, request, notify, await an event, refuse, close | both sides block on full pipes; duplicate, early and invented answers; a server that hangs, dies or closes one pipe; cancellation, deadline and kill racing its exit | a willing server is never locked out, every session ends, the summary is true of the process |
| catalog store (`project-adapter/src/catalog_store.rs`, `mcp-server/src/catalog_sync.rs`) | active catalog, rollback floor | install, load | crashes, older bundles | the version never goes back |
| catalog contents, semantic index, output parsers, statistics, command line, tool handlers | none that actors share | | | not modelled: pure or I/O only |

**How they interact.** The protocol library calls the transport's `receive`
and `send` and runs a handler for each request on one runtime thread
(`stdio.rs:1549`, a current-thread runtime). A handler takes the single worker
slot, either for the duration of a synchronous call (`Workers::run_joined`) or
for a background job (`reserve_job`). The blocking work runs on other threads
and calls the gateway. A response that was flushed sets a delivery mark, which
the watchdog reads to tell an orphaned job from one whose id the client knows.
Any failure of the transport sets `IoFailure`, which cancels the session token
that every worker and job polls. A tool that edits the project first stores a
plan; applying it runs the journal's commit inside a worker.

## 2. Modules

| module | models | role |
|---|---|---|
| `JobLifecycle` | the job registry, executor, permits, runner, controls, sweeps | core |
| `JobCapacity` | abstract: at most one task holds the slot, released only when nothing of it runs | specification |
| `JobProperties` | properties, inductive invariant, fairness, refinement to `JobCapacity` | properties |
| `JobLifecycle_proofs` | the theorems about jobs, with the refinement of `JobCapacity` | proofs |
| `MutationJournal` | the writer's commit, undo, recovery, replay, receipt, prune | core |
| `AtomicWorkspace` | abstract: a reviewed mutation applies to all its files in one step | specification |
| `JournalProperties` | properties, refinement to `AtomicWorkspace` | properties |
| `MutationJournal_proofs` | the theorems about the journal, with that refinement | proofs |
| `Admission` | `AdmittedTransport`, `AdmittedService`, `IoFailure` | component |
| `WorkerSlot` | `Workers::run`, `run_joined`, `admit`, the latch | component |
| `StdioSession` | `serve`/`main`: transport, handlers, workers and drain together | composition, properties |
| `StdioSession_proofs` | the theorems about the session | proofs |
| `MutationPlans` | previews, their delivery, commit, replay, recovery and retirement | component, properties |
| `MutationPlans_proofs` | the theorems about the plans | proofs |
| `GatewayPlans` | what each kind of run asks of the daemon, in order, and its cleanup | data of the next |
| `ExecutionGateway` | inspector, single-flight lock, calls and their replies, cleanup, quarantine, crashes | component |
| `GatewayProperties` | properties of the gateway | properties |
| `ExecutionGateway_proofs` | the theorems about the gateway | proofs |
| `QualityStore` | the durable artifact store, file operation by file operation | component |
| `QualityProperties` | properties of the store | properties |
| `QualityStore_proofs` | the theorems about the store | proofs |
| `ProjectRegistry` | capabilities, the logs kept for them and the tools that use both | component |
| `RegistryProperties` | properties of capabilities and logs, what is owed to them | properties |
| `ProjectRegistry_proofs` | the theorems about capabilities and logs | proofs |
| `AnalyzerSession` | the loop over a language server's pipes, the conversation, the end of the process; the server | component |
| `AnalyzerProperties` | properties of the conversation | properties |
| `AnalyzerSession_proofs` | the theorems about the conversation | proofs |
| `MCJobLifecycle`, `MCJournal`, `MCSession`, `MCPlans`, `MCGateway`, `MCQuality`, `MCRegistry`, `MCAnalyzer` | constants of the runs | TLC |

Operators that carry a comment starting with `Fault` are plausible mistakes in
one definition of the code (a lost guard, a swapped order, a missing reset).
No specification uses them; each is put in place of the definition it varies to
confirm that a property notices.

### 2.1 Background jobs

`JobLifecycle` makes each call of the registry's mutex one atomic action and
lets every other actor run between two calls of one executor operation.
`registry` is the map of `InMemoryJobRegistry`; `signal` and `cleaned` are the
two halves of `JobExecutionSignal`; `permit` is the `Option` in
`JobWorkerPermit`, and `SlotHolders` are the jobs with a permit whose record or
whose `AdmittedTask` still has an `Arc` to it; `runner` is `run_quality_job` as
a state machine; `sweep` is the watchdog followed by the shutdown sweep, a loop
over a snapshot of the records and of the clock; `client` are the controls;
`live` and `quarantined` are what the gateway left.

Choices worth knowing:

* Deadlines are cut at the horizon `MaxClock`, which is what keeps the state
  finite; the clock stops there.
* The admission paths that reject without a trace are left out; ids are random
  and not drawn again.
* `authority` is the outcome of `LiveJobAuthority::revalidate`, which may turn
  to refusal at any time for the owners in `Revocable`. The runner's
  revalidation and mutation inside one executor call are one action where
  nothing else can be seen in between.
* A panic under the gateway's lock is the quarantined branch of `RunnerEnd`, a
  panic outside is its "internal" outcome. Further looks at the signal between
  the end of the work and the completion write are merged into `RunnerDecide`.
* The watchdog stops on any error, a failed clean-up included, so the record of
  a failed clean-up never expires while the session lives.

### 2.2 Mutation journal

Every write to the disk is an action: the staging record, its rename to the
final one, the clone, the truncation and the rewrite of each temporary, each
exchange, each removal. `op` is the program counter of the operation that holds
the store's and the workspace's exclusive lock. Since that lock is taken
without waiting and a second caller fails at once, one operation runs at a
time. Between any two actions the process may die (`op` is lost, the disk
stays), a call may fail, a record may be torn, an editor may save a file and
somebody may remove a temporary (`TempsMayVanish`, the case the `manifest_patch`
branch of the recovery exists for).

A crash is the death of the process, not a loss of power: what was written
stays written. An error that only ends the operation is a crash. Bytes are
abstract: each mutation has its own, so a byte comparison of the code is an
equality of the model. Sequence numbers, checksums, idempotency keys, quotas,
metadata checks and the recovery of the legacy V1 records are left out.
`RecoveryRequired` is a status computed from the phase and never stored.

### 2.3 The stdio session

`Admission` models both halves of `send` separately: the ledger entry moves
into the send when the library hands the response over (`TakeEntry`), and the
flush completes, fails or is dropped later. `Leased` computes who still has a
clone of the permit: the handler, the ledger or a pending send. The library
(`rmcp`) is external: it cancels the request an id names, suppresses the
response of a cancelled request, notices the failure token and drops pending
sends when its loop has ended, as the comments and tests of the transport say.
Its other traffic may exhaust the notification and the send permits at any
time.

`WorkerSlot` separates the two reads of the latch and the semaphore in
`admit`, because a blocking thread may panic between them; two admissions never
interleave, since both run on the runtime thread (`RuntimeFree`). The `PanicLatch`
and the permit are dropped in two steps, in the order of the code. `GiveUp` is
the `select!` of `run`: the waiter leaves, the thread stays.

`StdioSession` instantiates `WorkerSlot` with the requests of `Admission`, adds
the handler that calls the workers once, and `serve`, `shutdown` and the exit
code. Jobs are in their own model; here the slot is free of them. The
quarantine that also turns the exit code into a failure is left out.

### 2.4 Mutation plans

`entries`, `created`, `token` and `completed` are the fields of `MutationPlans`
and of each `Plan`; `op` is the body that holds the worker slot, and the slot is
what makes the check of a plan in `resolve` and its use in the journal safe
although they are two steps. The waiters (`Deliver`, `Lose`) run on the runtime
thread between any two steps of a body: dropping a `PreviewRetention` that was
not told to retain clears the token of its plan, whether or not the body has
stored the plan yet. A body that meets the mutex while the runtime thread holds
it reports a busy lock; that is one of the failures `PreviewFails` and
`CallFails` stand for.

The journal is reduced to what `JournalProperties` shows of it: a first
publication needs the reviewed workspace and no unfinished record, and ends
with a receipt or with an error that leaves the record aborted, pending or
published; a recovery or a replay settles a record. A commit that fails before
its effect returns the error, so an aborted receipt can only come from a
replay. `recover` settles the record and does not retire the plan, as in the
code; `NeverReapplied` is therefore about receipts a commit of the plan
returned. Ids are random and never drawn twice. The user's edits are reduced to
the one that matters, the restoration of the reviewed bytes.

Left out: the tools' kinds, the project reference that a commit invalidates,
the lazily opened store, audit events.

### 2.5 The sandbox gateway

`GatewayPlans` writes down, for each of the thirteen kinds of run, the sequence
of requests its `execute` sends to the container daemon and the list its
cleanup walks. A request is *hard* when the code sends it through
`mutation_control` or `query_control`, which obey the caller's token and fail
closed, and soft when it goes through `control`. `ExecutionGateway` gives every
request its meaning, so each vertical is checked with the same replies: done,
refused, lost before or after the effect, or (for a creation) taking effect
after the gateway stopped waiting, which is what the comment at
`mutation_gateway.rs:117` guards against. `job` is the run that holds
`DockerGateway::busy`; `session` joins the flags of `RustProjectInspector` and
of the gateway; `runs` is the nonce in every name and label.

Choices worth knowing:

* The daemon is external. `LateCommit` is a creation nobody waits for; `tardy`
  records it for the properties.
* Calibration is one probe run of the kind "cargo" under the inspector's mutex;
  the code runs six scenarios of that shape.
* The three time slices of a deadline are one `expired` flag that may rise at
  any time. A guardian that died is an inspection that fails (`Ask`).
* `Take` lets the daemon refuse any removal, which covers the volume a
  container still mounts.
* A phase that was stopped by a cancellation, the deadline or a limit is not
  inspected (`Stopped`): a fix, a format, a resolution go on to their cleanup,
  as `execute_operation` and `completed` do. The ingests and exports of a
  resolution are not inspected either.
* `Open` refuses a daemon that still shows a labelled container or volume of an
  earlier session; a listing that fails seals the inspector. The next process is
  then part of `QuarantineStopsWork`: what it makes and starts never stands
  beside something it inherited (`Inherited`).
* A panic poisons both the single-flight lock and the inspector's mutex, which
  the panicking thread holds.
* A soft removal that fails quarantines at once; a hard one, or one in a
  cleanup, where the code does it: at the end of that cleanup.
* One run of a benchmark; the code repeats the pair per output volume. The
  conversation with the analyzer is part of its answer.

Observed while modelling, none of them stated otherwise by the repository: a
soft creation whose reply was lost may commit after the cleanup proved its
absence (`docs/architecture/execution-and-security.md` accepts this risk), and
`CleanSlate` excuses exactly those objects, as does `Inherited`, since they may
also appear after the next process has looked; the analyzer's ingest over its
output limit is reported as a total time-out (`analyzer_gateway.rs:1256`).

### 2.6 Durable quality artifacts

Each file operation that is made durable is an action: the claim, the member,
the watermark, the truncation marker, the rename to the blob, the descriptor,
the truncation, the removal of the marker, and in the other direction the
removal of a descriptor, of its blob, of claims. `process` is what each process
that shares the directory does; it holds `store.lock` in the states of `Locked`
and tries it, without waiting, everywhere else. `blob` tells a blob with
preallocated bytes past its size (`long`) from an exact one, which is what the
marker exists for. Each process judges time by `Now`, the later of the wall
clock and its own monotonic projection, and the wall clock may be set back.

Left out: the reads, what a descriptor says, files that are not the store's,
re-admission of one job, the free space test, names (random, so a job is
published once).

Observed while modelling: `publish_descriptor` stamps the watermark with its own
`now`, without the old watermark as a floor, so after a clock was set back a
descriptor may be newer than the watermark although the comment at
`quality.rs:1164` says it cannot; the reconciliation then quarantines it as a
clock anomaly, which `AnnouncedStays` allows. A publication may report an error
after its descriptor was renamed (`CommitUnconfirmed`), although
`quality_artifact.rs:237` says nothing is published on a failure.

### 2.7 Project capabilities and logs

A tool holds the registry's mutex and the log store's from its first step to its
answer, so tools follow one another and what interleaves is the world: time,
the directory at the project's root, cancellation. `Program` has the plan of
each operation, one instruction per call that looks at or changes something,
each with the recovery its caller performs on failure. `op.way` and `op.pc` are
the place in a plan: a failed operation goes over to the recovery of its
instruction, a failed capture to the plan of a rejection, a check whose log is
omitted to `CheckUnlogged`, and the rows of a log given up are in `op.given`.
The plans are named after the tools that share them: `tests` stands for nextest
and mutation testing, `gate` for the quality gate, `durable` for the tools that
publish into the durable store, `gate_v2` for the second quality gate, `prepare`
and `preview` for the two turns a mutation tool takes at the registry before a
plan exists, `receipt` for the receipt and the recovery of a mutation, `poll` for
`tasks/get` looking whether a log is still there. What others answer (the journal
about a receipt, the publisher, a policy, a comparison of sources) is `Consult`,
which may refuse. A gate looks at what is left of every log's retention
(`Retain`) before its last look at the caller; a stage of it may end the gate as
well as give up its log.
Both clocks count from an `Instant`, so the branches for a clock that runs
backwards are unreachable and left out.

Left out: the second reference of a semver or benchmark comparison and of the
second gate's baseline, redaction, bytes (a log is one unit), a poisoned mutex.

Observed while modelling: three operations renew the lease and may refuse
afterwards: `mutation_receipt` (`mutation.rs:214`), `finish_manifest_preview`
(`mutation.rs:155`) and the second gate, which judges its policy last
(`quality_v2.rs:527`). "Failed operations never renew a lease" is written for the
audit (`audit.rs:83`), which keeps to it; `LeaseFollowsAnswer` names the three.
Besides, `resolve_inner` renews a lease without looking at its
age again after the revalidation, so a lease that ran out during the I/O comes
back; coverage does not take its streams back when the final authorization fails
(`validation.rs:145`; nextest and mutation testing do), and a failure of entropy
leaves the earlier streams of any of them (`validation.rs:206`,
`mutation_test.rs:419`). These logs go with their capability or their own time.
`FailureLeavesNothing` names both exceptions. A resource read renews the lease
although the comment at `application/src/lib.rs:199` says reads cannot keep
authority alive (it is about the durable ones, which do not). A durable
publication may be committed when the last look at the capability fails.

### 2.8 The conversation with a language server

`todo` is the rest of the conversation, an item per request, notification or
wait, as `protocol` and `close` go through it; `pc` is where the loops of `send`
and `recv_until` are: `begin` an item, `guard`, write, `read`, look at the
`clock`, `pop` the inbox, then `leave` and `drain` in `wait_for_exit`. A pipe
holds `PipeRoom` frames, or parts of the one long frame there is, the document
of `didOpen`, which is longer than a pipe; the other parts are waited for with
the pipes of the other direction kept moving. `ids` is the `Correlator`; `child`
joins `fatal`, `reaped`, `stdout_closed`, the taken stdin and the handshake
(none, refused or complete). Time is not counted: a deadline may be observed
wherever the code looks at one (`RunOut`); the token is set by the caller
(`Cancel`), at `guard`, the only place that looks at it, and `Cancelled` is the
loop seeing it. `hurried` keeps which of the two came up.

`Kill` is `kill_and_reap`: the signal may fail, and so may the wait behind it.
A signal that failed leaves the server running, and the wait then blocks until
the process ends by itself: in `fail` (`held`), in the wait for the exit (`kept`)
or in the guard of the process (`lost`). `Drop` is that guard, which kills and
waits again for whoever was not seen to end.

The server is external. It reads one message at a time, answers with a result
or an error, blocks on a full pipe, leaves on `exit` or on the end of its stdin,
and says up to `MaxSaid` things of `Chatter` unasked (a busy status, a log line, a
request of its own; progress is dropped like a status nobody waits for, and the
run leaves it out). Beyond that it may misbehave `MaxFaults` times: a broken
frame, any answer to any id, death, a closed stdout or stdin, a hang; the same
budget pays for a kill or a wait of this side that fails.

Left out: the limits on bytes, frames and messages, which end a session as a
broken frame does; the framing; the conversion of answers, whose refusal is the
answer "error".

Observed while modelling: `SessionStop::Exited` is documented as a completed
`shutdown`/`exit` (`domain/src/analyzer.rs:1725`), but a session whose `shutdown`
was answered with an error is reported as exited when the server then leaves and
its end of file was not drained before the next `try_wait`, and as `Eof`
otherwise; `StopIsTrue` therefore states an exit after a farewell that was
complete or refused. "Nothing here ever blocks" (`lsp_session.rs:16`) is true of
the pipes; a kill whose signal fails is followed by an unbounded `wait()`
(`lsp_session.rs:644`), which `EndsInTime` excuses by name. A message already
decoded is handed out before the token and the deadline are looked at. A question
other than `references` gets its budget afresh after the document was sent. The
comment that a cancelled call is never reported as a timeout holds for `guard`,
not for the deadlines of `send` and `recv_until`, which are looked at first when
both come in one pass.

## 3. Runs

| run | instance | distinct states | question |
|---|---|---|---|
| `job_race` | 1 job, 1 control, a revocable root, budgets of 1, clock to 1, early wakes, failing wall clock, fairness | 0.59 M | every actor against one job; everything settles |
| `job_times` | 2 jobs competing, clock to 2 | 2.5 M | deadlines, orphans, quarantine, the slot; refinement of `JobCapacity` |
| `job_commit` | 1 job, 1 control | - | the first finding of section 6 |
| `journal_crash` | 3 mutations over 3 files (all, one, none), 3 faults | 0.55 M | atomicity, records, receipts; refinement of `AtomicWorkspace` |
| `journal_edit` | 2 overlapping mutations, an editor, 3 faults, fairness | 1.0 M | no edit is lost, recovery ends |
| `session` | 3 requests (two share an id), 2 permits | 0.69 M | admission, reuse of ids, panics, teardown |
| `plans` | 3 plans (one twice as large), 2 keys, quota of 2 plans and 3 bytes, life of one tick | 2.6 M | retention, quota, expiry, one application |
| `gateway` | all 13 kinds of run, 2 runs (one may be the calibration), 1 kill | 8.7 M | leftovers, writers, answers, quarantine |
| `quality` | 2 processes, jobs of 2 and 1 members under a cap of 2, life 1, clock to 2, one step back, 1 fault | 4.0 M | commitment, retention, caps |
| `quality_disk` | 1 process, the same jobs, 1 fault | - | the second finding of section 6 |
| `registry` | 2 capabilities, 3 ids, quota of 2 logs, leases of 2, logs of 1, clock to 2, the root replaced once, 1 failure | 5.7 M | current answers, renewals, leftovers |
| `analyzer` | 2 of the 3 shapes of a question, pipes of 1 frame, 2 messages unasked of 3 kinds, 1 misdeed or failed kill, fairness | 2.3 M | no deadlock, an end, a true summary |

What the properties say is in the comment above each of them:

* jobs: `SlotFollowsRecord`, `TerminalMeansJoined`, `SlotCoversExecution`,
  `SweepEnforces`, `FailureQuarantines`,
  `TerminalIsFinal`, `FirstIntentSticks`, `ImplementsCapacity`, `JobsSettle`,
  `ShutdownCompletes`, `SlotReturns`;
* journal: `WriteAhead`, `OutcomeIsWhole`, `ReceiptsAreTrue`, `PairReadable`,
  `OutcomeIsFinal`, `ImplementsAtomic`, `NoLostEdit`,
  `RecoverySettles`;
* session: `DeliveredIsAnswered`, `OneUnansweredPerId`, `NoWorkAfterPanic`,
  `ExitIsHonest`;
* plans: `DeliveredResolves`, `QuotaCountsPending`, `NeverReapplied`,
  `ExpiredNeverApplies`;
* gateway: `CleanSlate`, `SoleWriter`, `AnswerIsEarned`, `QuarantineStopsWork`;
* quality: `CommittedIsWhole`, `AnnouncedStays`, `WithinCaps`;
* registry: `AnswersAreCurrent`, `LeaseFollowsAnswer`, `FailureLeavesNothing`;
* analyzer: `StopIsTrue`, `PeaceIsEnough`, `EndsInTime`.

**Why the bounds are enough to be interesting.** Time: with budgets of one or
two ticks and a horizon of one or two, every deadline is reached before, at and,
in `job_times`, after every phase, and several coincide. `job_race` has the one
tick because its liveness needs every actor at once; its safety is proved for
all budgets and horizons (section 4). Jobs: two are the smallest
number for which the slot, a quota and a stale snapshot can go wrong; a third
only waits. Journal: one file exchanged and one not yet is the mixed state;
three files have an untouched one between them and several in each half. Three
faults allow a crash in a commit, in the recovery from it and in the recovery
from that. Session: two requests of one id and one of another give reuse
during a pending send while the other holds the last permit. Plans: with a
life of one tick and a horizon of one, every step meets a fresh and an expired
plan; three plans reach both limits of the quota, separately and together; the
plans of equal size and the keys are interchangeable and every property is a
safety property, so the symmetry is sound.
Gateway: the first run of a session is its calibration, so two runs give a
calibration and a run of any kind, or, after a kill, two calibrations with the
leftovers of the first; a run's objects carry its number, so a third run meets
nothing a second does not. Quality: a job of two members has a crash between
them, two jobs fill the cap in either order, and a life of one tick under a
clock to two puts every step before and after an expiry and a step back; the
two processes are interchangeable. Registry: two references of one directory
make one expire and be reaped while the other works, three ids under a quota of
two reach an omitted log, and a log that ends before its lease is met by every
look at one. (A missing `Retain` shows only with longer lives of both than a run
can carry: with leases of 3 and logs of 2 it violates `AnswersAreCurrent`; the
theorem holds for all.) All sets are interchangeable and all properties are
safety properties. Analyzer: the tightest pipes are the ones that lock first;
two messages unasked fill a pipe and leave the server blocked on the next; one
misdeed, or one failed kill, meets every state of the loop.

**Deadlock** is checked in the job, session, plans and analyzer runs, with a stuttering
step for the ended session. It is not in the others: a torn record blocks the
journal on purpose (docs/architecture/mutation.md), a sealed inspector or a
blocked store ends what its process may do, and the bounds on runs and on the
clock end the behaviours of the gateway, the store and the registry.

**Fairness.** Jobs: weak fairness of the clock, of the sweeper thread and of a
control that began, which the operating system and the blocking pool give;
nothing is assumed of the runner, whose work may hang, except in the premise of
`SlotReturns`. Journal: weak fairness of the operation in progress and strong
fairness of starting a recovery, that is, a user or the next preview asks for
recovery again and again; faults are bounded by `MaxFaults`; the property excuses
behaviours in which the editor saved over a file, where a conflict needs an
operator. Analyzer: weak fairness of the loop, which is one thread, and of the
server's process, which a fault may still hang; `EndsInTime` adds that a deadline
the loop looks at again and again has passed in the end (strong fairness of
`RunOut`) and excuses a wait for a process that no signal reached, and
`PeaceIsEnough` needs no deadline at all. The other components state no liveness:
plans, logs and artifacts promise nothing that must happen, and the teardown of
the session and the work of a run are bounded by time-outs that the models show
only as choices.

## 4. Proofs

`JobLifecycle_proofs` assumes `ConstantsAssumption` (natural budgets, an owner
for each job) and nothing else: the number of jobs, clients and owners, the
quotas and the horizon are arbitrary.

1. `TypeCorrect`: the type invariant, one lemma per action.
2. `SlotInductive`: `SlotCoversExecution` is not inductive. What makes it so:
   nothing exists of a job that was not admitted (`IdleUntouched`); processes
   exist only from the invocation on and survive it only into quarantine
   (`LiveAfterBegin`, `CollectFollowsWork`); the clean-up flag is raised over
   nothing and no work begins after it (`CleanedIsOver`); each of the three
   paths to a release (runner, watchdog, shutdown) has seen the flag and a
   settled record (`ReleaseIsEarned`); a record settled without the flag cannot
   expire, neither from the registry nor from the snapshot of a sweep
   (`UncleanIsKept`), so its `Arc` keeps the slot; and there is one holder
   (`OneHolder`). Together they are `SlotInvariant`.
3. From it `SlotSafety`, `SlotAgreement` and `JoinSafety`; and, from the type
   invariant alone, `TerminalFinality` and `IntentStability`, the two action
   properties.
4. `SlotAgreement` has a second half, that the slot of a settled job comes back.
   Its invariant is `GivesBack`: whoever settles a job over an observed clean-up
   goes on to the release in the same step (`RunnerGivesBack`,
   `SweepGivesBack`), and only that release, or the end of the record, takes the
   duty away.
5. `FailureCloses`: a failed clean-up closes the session. Its invariant is
   `FailureFacts`: the code of a failed clean-up is written only by a runner
   whose session is `Closing`, by a sweep that refused the session in the same
   step, or waits in the hands of a runner that is about to store it; nothing
   re-opens a session.
6. `JobsImplementCapacity`, the refinement. Each action is
   one step of `JobCapacity` or invisible: an admission is an `Accept` because
   ids are fresh; the work begins as a `Run` because whatever runs belongs to
   the one holder, who has not begun; a finalization is a `Settle` over nothing
   that runs, and a declared failure is a `Settle` as "failed"; a release, or
   the end of a runner whose record is gone, is a `GiveBack`. The hard step is
   the expiry: the watchdog removes a record on the strength of a snapshot, and
   that must not take the slot with it. `SnapshotIsReal` says a settled record
   in the snapshot is the one in the registry or has expired, and its clean-up
   did not fail (the snapshot was taken in an open session, `FailureCloses`);
   then its slot came back before, or its runner still owns it
   (`SlotAgreement`).
7. `SweepsEnforce`: a sweep of the watchdog that ended without an error left no
   active job past its work deadline, and no undelivered one past its own. The
   property is about the end of a sweep, so `SweepInvariant` carries it there:
   while the sweep runs, every active job older than its clock is still in the
   snapshot with the same admission time (`ToVisit`), is the one in hand, or has
   nothing due (`SweepOwes`). It needs that no record changes its admission time
   unless it is admitted anew, which then is not older than the sweep, and that a
   job in cleanup, which the sweep passes over, has an intent or no runner
   (`CleanupTold`).

`MutationPlans_proofs` assumes `PlansAssumption` (sizes, quotas and times are
natural numbers, the original workspace is nobody's plan). The invariant
`PlansInvariant` adds to the types: a token is retained exactly while the caller
waits or after delivery (`TokenFollowsWaiter`); a stored plan leaves the entries
only when revoked, retired or expired (`RememberedStays`); a told plan is
retired, or the body in the slot is about to retire it (`ToldIsRetired`); and a
body that publishes found its plan undecided and fresh at the time it was asked
for (`BodyMatches`), which still holds because the slot admits no second body.
From it follow `DeliveredPlansResolve`, `QuotaIsForPending` (the plans that
survive the prune of an admission are exactly the pending ones),
`PlansApplyOnce` and `ExpiredPlansStay`, the last two because only `Publish`
turns the workspace into a plan's bytes.

`ExecutionGateway_proofs` assumes `PlansAssumption` of `GatewayPlans`, which TLC
evaluates on the thirteen plans as they are: a plan is a non-empty sequence of
calls, its cleanup names every object its work makes, and a plan that fails
closed creates and runs only through hard calls. No proof looks into a plan, so
the theorems hold for any further kind of run that meets it, and for any number
of runs and kills. `CleanSlate` is not inductive. `GatewayInvariant` adds what
carries it from the first call of a run to the admission of the next: what the
run made is still ahead of its cleanup, or the cleanup has met dirt
(`CleanupCovers`); a creation given up costs a run that fails closed the
gateway, and any other its ordinary outcome (`LateIsPaidFor`); only a usable
gateway works, and a quarantine met on the way out is what the run answers
(`WorkIsAdmitted`); runs are numbered and the session saw only those after it
opened (`RunsInOrder`); and a cancellation that is reported was asked for
(`CancelIsAsked`). From it follow `CleanStart`, `HonestAnswers` and
`QuarantineHolds`; its second half, about the process that replaces another,
rests on `Replaced`: an open gateway has inherited nothing but what the daemon
made late, and before it is open nothing works.

`WritersAreAlone` (`SoleWriter`) depends on the order of the calls in each plan,
which `OrderAssumption` states and TLC evaluates: a container that is started was
made and not removed since, and is apart from whatever may stand beside it then
or be made later (`Stands`, `Apart`, `Ordered`); a removal a jump may have passed
does not count. `Standing` says that every object of the run at work was made by
a call its plan has not undone, `KeptApart` that the separation also holds of
creations still under way. An object of an earlier run carries another number.

`MutationJournal_proofs` assumes `JournalAssumption` (files are numbered,
mutations touch some of them and are no file content of another kind). Any
number of mutations, files, crashes, I/O errors, edits and lost temporaries is
covered. The invariant `IInv` has four parts besides the types:

1. `RecordsTell`: of a pair of records the staged one continues the one in place
   (`Follows`); a temporary exists only under an unfinished record, and under a
   cloned inode holds the reviewed bytes, the new ones or a torn mixture; a caller
   was told an outcome only if no record claims another one.
2. `OpTells`: what the operation in progress knows of its own records
   (`OpRecords`), its phase (`OpPhases`) and its temporaries (`OpTemps`). An undo
   is the odd one: it starts on the body in memory while the disk may hold an
   older record, or a newer one, whole or torn.
3. `HistoryTells`: for every file there is a set of contents the file had before,
   to which it never returns. A mutation writes a file once, over the reviewed
   bytes, and what a record claims or a receipt said decides whether it has
   (`MustBeNew`, `MustBeSeen`). The history is a bound variable of the invariant
   and no variable of the model; each exchange adds the displaced bytes to it. It
   is needed because the bytes alone do not tell "not yet" from "overwritten
   since".
4. `AbsentTells`: a record that does not exist has no contents.

From it follow `RecordBeforeEffect`, `TerminalIsWhole`, `ReceiptsStayTrue`,
`OwnRecordsAreRead` and `TerminalIsFinal`. `EditsAreKept` assumes
`~TempsMayVanish`: whoever deletes the temporary an edit was displaced into has
deleted the edit.

`JournalImplementsAtomic` is the refinement of `AtomicWorkspace`, under
`Editable = {}`; with an editor it does not hold, since bytes saved between the
last look at the workspace and the exchange are found only afterwards. Its
invariant `AInv` (`OneMutationUnderWay`) says that one mutation at a time is
prepared or has an open record, and that every file holds its bytes where it was
exchanged and the reviewed ones everywhere else; its phases fit what it touches.
`BeginCommit` establishes it by comparing the whole workspace with the plan while
no other record is open (`CommitStarts`), and without an editor only an exchange
changes a file (`FilesStep`). Then the first exchange is `Apply` and the later
ones are invisible (`ApplyView`); the first record, whole or torn, is `Begin`
(`PrepareView`); a terminal record in place is `Settle`, as "committed" exactly
when a file was exchanged (`SettleView`), whether a rename or a recovery that
promotes a staged record puts it there (`PersistView`, `RecoverView`); pruning is
`Forget`. Everything else leaves the view alone.

`StdioSession_proofs` assumes `AdmissionAssumption` (every request has an id,
some capacity) and `SessionAssumption`; the number of requests, ids and permits
is arbitrary. `LedgerTells`: until the close an unanswered request is the one its
id stands for in the ledger, and a send carries the entry of its own request;
`LoopEnded` adds that nothing is read once the loop has quit, which is why the
close may clear the ledger. From it follow `MarkedWasSent` and `IdNamesOne`. For
the slot, `SlotTells` ties the permit to the one call between its acquisition and
its release, and admissions do not overlap; `LatchTells` says that what passed the
second test of the latch runs before any panic, because the panicking thread
still has the permit. From it follow `PanicIsLast` and, with `DrainTells`,
`SuccessIsHonest`.

`QualityStore_proofs` assumes sizes, caps, clocks and faults to be natural
numbers and the jobs to be finitely many; any number of processes, jobs and
members is covered. `Frame` is what holds between the steps: one holder of the
lock, every judged time has been reached, jobs were captured before now unless a
clock went back, and only a clock puts anything into quarantine. `Steps` is what
each process knows: the member in hand was captured and is not past its job's
size (`HandTells`), how far a publication has come (`CommitTells`), and what
reclamation and reconciliation have done and are still to do (`SweepTells`). From
`StoreInvariant` follow `DescriptorsCommit`, `StoredStays` and `CapsHold`; the
last counts members, so a claim and what its job has published are finite sets
whose sizes are compared when a claim is made, spent and given up.

`AnalyzerSession_proofs` assumes `AnalyzerAssumption`; pipes of any size and any
number of misdeeds and unasked messages are covered. `Conversation` says where
the loop is in its script and that at most the last id is awaited; `Calm` what a
server without a fault cannot have done: it stays until the farewell is written,
and every answer on its way is to an id that was asked; and `Verdict` what the
end of a session rests on: a process that was reaped has ended, a session without
a fault left over a handshake or an end of file, and a token or deadline it names
came up. A kill may fail at any place, so that a process has ended is known from
the reaping alone. From them follows `StopsAreTrue`.

`ProjectRegistry_proofs` assumes `RegistryAssumption` and the `PlansAssumption`
of `RegistryProperties`, which TLC evaluates on the plans as they are: what each
instruction relies on among those after it (`Followed`), and what undoes a log
once one is staged (`Staging`). No proof looks into a plan beyond that. The
invariant `Obligations` says that whatever an operation has not established yet
is still ahead of it among the instructions it cannot skip: a look at the root
after the last capture, a look at the lease after the last that may end it, the
confirmation of a copy, the removal of a log by a recovery. From it follow
`RefusalsLeaveNothing`, `LeasesFollowAnswers` and `AnswersHoldTheirProject`. No
relation between the lives of leases and logs is assumed: `op.until` keeps the
ends of the logs a gate has staged, and `Retain` is firm, so a gate answers only
if it looked at them in its last turn. The run replaces the root once; the proof
covers any number of replacements.

**Only model-checked.** All liveness, which with ENABLED is out of the prover's
reach: `JobsSettle`, `ShutdownCompletes` and `SlotReturns` of the jobs,
`RecoverySettles` of the journal, `PeaceIsEnough` and `EndsInTime` of the
analyzer; and the two disagreements of section 6, which are counterexamples.
Every safety invariant, every action property and both refinements the passing
runs check are proved. What the proofs take as an assumption about concrete data,
the plans of the gateway and of the registry, TLC evaluates in every run.

## 5. Not modelled

The components marked in `PROJECT.json` as `not_modelled` with their reasons.
The repository has some 150 000 lines of implementation; by far the most are
closed tables of arguments, parsers of tool output and of contracts, schemas,
statistics, rendering and in-file tests, which keep no state that actors share
and have no order to get wrong. The models cover where state is kept, and of a
long handler the calls and decisions in it, not the arguments it builds.

Of the modelled components: the text of events and messages, the schema of
arguments, the serialisation of records, the bound on cached authorities, the
byte budgets and frame deadlines of the reader and the writer (their failure is
an input), the store quotas and the legacy recovery of the journal, the
supervisor's threads and pipes (its result is an input of the gateway), and
what sections 2.4 to 2.8 list.

## 6. Findings

`job_commit` states the comment above the commit point in `run_quality_job`
(`mcp-server/src/stdio.rs:535`): an intent observed before the completion write
wins. `finish` (`application/src/job.rs:735`) writes the completion whatever the
record's intent says; the runner looks at the signal before the write and not
in it, so an intent recorded in between loses to the result. The record still
settles once and its result is real; only the order the comment promises is
not kept.

`quality_disk` states the module comment of the durable store
(`quality.rs:24-27`): reclamation keeps accounting to what is on disk, and
on-disk bytes cannot outlive the caps within a session. A publication that fails
between the rename of its blob and the descriptor (`publish_descriptor`,
`quality.rs:1122`) leaves a blob that no descriptor and, once the job has given
up its claim, no reservation accounts for. `reclaim` walks descriptors, claims,
temporaries and markers and never such a blob; only the next open or recover
does. Later jobs of the session are admitted over it. The bytes are bounded by
what one job may claim each time it happens, and nothing is served from them.

## 7. Plan

1. `CatalogStore`: crashes in the replacement of the active catalog and of its
   rollback floor. `supervisor.rs`: threads, pipes and the order of the kill, the
   drain and the join.
2. `JobBudget`: the split of an asynchronous budget into phases as pure
   operators, checked over a grid of budgets and proved for all.
3. Proofs: what `MutationPlans` takes from the journal (`Publish`, `Replay`) as a
   theorem of `AtomicWorkspace`, so that with `JournalImplementsAtomic` the
   promise is proved of the code's steps; the split of `JobBudget`.
4. An abstract artifact store that publishes and expires in one step, refined by
   `QualityStore`; the composition of the plans with the journal itself, in
   place of the promise `Publish` and `Replay` stand for.
