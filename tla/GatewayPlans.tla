----------------------------- MODULE GatewayPlans -----------------------------
(***************************************************************************)
(* What each kind of sandboxed run asks of the container daemon, in order: *)
(* the volumes it creates, the guardians that keep them, the phases that   *)
(* fill, use and export them, and the cleanup that must leave nothing.     *)
(*                                                                         *)
(* A plan is a sequence of calls.  A call is "hard" when the code sends it *)
(* through mutation_control or query_control, which obey the caller's      *)
(* cancellation and fail closed, and soft when it goes through control.    *)
(* ExecutionGateway gives every call its meaning.                          *)
(***************************************************************************)
EXTENDS Naturals, Sequences, SequencesExt

Call(kind, on, hard) ==
  [call |-> kind, on |-> on, hard |-> hard,
   stopped |-> "go", nonzero |-> "go", skip |-> 0]

Soft(kind, on) == <<Call(kind, on, FALSE)>>
Hard(kind, on) == <<Call(kind, on, TRUE)>>

(* How a run goes on after a phase that was stopped or exited nonzero:     *)
(* "own" returns that phase's outcome, "signal" too unless its output was  *)
(* too long and "size" only if it was, "main" the outcome of the run it    *)
(* reports on, "error" a failure, and "go" continues.                      *)
Verdict(stopped, nonzero) ==
  <<[Call("verdict", "", FALSE) EXCEPT !.stopped = stopped, !.nonzero = nonzero]>>

(* Skips a block unless the last phase exited with zero; or at the run's   *)
(* own choice, which depends on what the phase printed.                    *)
Branch(block) == <<[Call("branch", "", FALSE) EXCEPT !.skip = Len(block)]>> \o block
Maybe(block) == <<[Call("maybe", "", FALSE) EXCEPT !.skip = Len(block)]>> \o block
Decide == Soft("decide", "")

Each(names, Part(_)) == FlattenSeq([i \in 1..Len(names) |-> Part(names[i])])

-----------------------------------------------------------------------------
(* The soft building blocks.                                               *)

Unstopped == Soft("stop", "")
Volume(v) == Soft("make", v) \o Soft("ask", v)

Guardian(c) ==
  Soft("unstopped", "") \o Soft("absent", c) \o Soft("make", c) \o Soft("ask", c)
    \o Soft("launch", c) \o Hard("ask", c)

Phase(c, stopped, nonzero) ==
  Unstopped \o Soft("absent", c) \o Soft("make", c) \o Unstopped \o Soft("ask", c)
    \o Unstopped \o Soft("attach", c) \o Soft("ended", c)
    \o Verdict(stopped, nonzero)

Removed(c) == Soft("rm", c) \o Soft("listed", c)
Ingest(c) == Phase(c, "own", "error") \o Removed(c)

(* The hard ones.                                                          *)
HardCreate(c) == Hard("absent", c) \o Hard("make", c) \o Hard("ask", c)
HardGuardian(c) == HardCreate(c) \o Hard("launch", c) \o Hard("ask", c)
HardRemove(c) == Hard("rm", c) \o Hard("listed", c)
Revalidate(guardians, gone) ==
  Each(guardians, LAMBDA c : Hard("ask", c)) \o Each(gone, LAMBDA c : Hard("absent", c))

-----------------------------------------------------------------------------
(* cargo commands: one source volume, one ingest, one run.                 *)
CargoWork ==
  Unstopped \o Volume("source") \o Ingest("ingest") \o Phase("run", "own", "own")

(* nextest: the trusted configuration is ingested before the source, and   *)
(* the report is exported from a run that exited, whatever its code.       *)
NextestWork ==
  Unstopped \o Volume("source") \o Volume("output") \o Guardian("guardian")
    \o Ingest("ingest") \o Ingest("ingest")
    \o Phase("run", "own", "go") \o Removed("run")
    \o Phase("export", "main", "main")

(* coverage: three reports of a run that passed; a report that fails only  *)
(* loses its own export.                                                   *)
Report(report, export) ==
  Phase(report, "go", "go")
    \o Branch(Removed(report) \o Phase(export, "go", "go") \o Removed(export))

CoverageWork ==
  Volume("source") \o Volume("output") \o Volume("target") \o Guardian("guardian")
    \o Ingest("ingest") \o Phase("run", "own", "own")
    \o Removed("run") \o Report("json report", "json export")
    \o Report("lcov report", "lcov export") \o Report("html report", "html export")

(* semver: the candidate and its baseline, a version probe, the comparison. *)
SemverWork ==
  Volume("source") \o Ingest("ingest") \o Volume("baseline") \o Ingest("ingest baseline")
    \o Phase("version", "own", "error") \o Soft("ask", "version") \o Removed("version")
    \o Phase("run", "own", "own")

(* mutation testing: a listing bounds the run before anything is built.    *)
MutantsWork ==
  Volume("source") \o Volume("output") \o Guardian("guardian") \o Ingest("ingest")
    \o Phase("list", "own", "own") \o Decide \o Removed("list")
    \o Phase("run", "own", "go") \o Removed("run")
    \o Phase("export outcomes", "main", "go") \o Removed("export outcomes")
    \o Phase("export lock", "main", "go") \o Removed("export lock")
    \o Phase("export bundle", "main", "main")

(* the analyzer: a session instead of a run.                               *)
AnalyzerWork ==
  Unstopped \o Volume("source") \o Ingest("ingest")
    \o Unstopped \o Soft("absent", "analyzer") \o Soft("make", "analyzer")
    \o Soft("ask", "analyzer") \o Unstopped \o Soft("attach", "analyzer")
    \o Verdict("main", "main")

-----------------------------------------------------------------------------
(* format and fix: every state change fails closed.                        *)
MutatorWork ==
  Hard("make", "source") \o Hard("ask", "source") \o HardGuardian("guardian")
    \o HardCreate("ingest") \o Hard("attach", "ingest") \o Verdict("own", "go")
    \o HardRemove("ingest") \o Verdict("own", "error") \o Hard("ask", "guardian")
    \o HardCreate("mutator") \o Hard("attach", "mutator") \o Hard("ended", "mutator")
    \o Verdict("own", "own") \o Decide \o HardRemove("mutator")
    \o Revalidate(<<"guardian">>, <<"ingest", "mutator">>)
    \o HardCreate("export") \o Hard("attach", "export") \o Verdict("signal", "go")
    \o HardRemove("export") \o Verdict("own", "error") \o Hard("ask", "guardian")

(* Resolution: every phase is removed before its outcome is judged, and    *)
(* the two that run cargo are inspected first.                             *)
HardVolume(v) == Hard("absent", v) \o Hard("make", v) \o Hard("ask", v)
Carried(c, stopped) ==
  HardCreate(c) \o Hard("attach", c) \o HardRemove(c) \o Verdict(stopped, "error")
Resolving(c) ==
  HardCreate(c) \o Hard("attach", c) \o Hard("ended", c) \o HardRemove(c)
    \o Verdict("own", "error")

ResolutionWork ==
  HardVolume("source") \o HardVolume("vendor")
    \o Each(<<"guardian", "vendor guardian">>, HardGuardian)
    \o Carried("ingest", "own") \o Carried("vendor ingest", "own")
    \o Revalidate(<<"guardian", "vendor guardian">>, <<"ingest", "vendor ingest">>)
    \o Resolving("resolve") \o Resolving("frozen")
    \o Revalidate(<<"guardian", "vendor guardian">>,
                  <<"resolve", "frozen", "ingest", "vendor ingest">>)
    \o Carried("export", "size")

(* Security and performance: the runtime is approved again before every    *)
(* container, and a phase that was stopped is never inspected.             *)
Approved(c) == Soft("ask", c) \o HardCreate(c)
ApprovedGuardian(c) == Approved(c) \o Hard("launch", c) \o Hard("ask", c)
Measured(c, nonzero) ==
  Approved(c) \o Hard("attach", c) \o Verdict("own", "go") \o Hard("ended", c)
    \o HardRemove(c) \o Hard("absent", c) \o Verdict("own", nonzero)

(* Inputs go in one at a time; after each, the guardians still run and no  *)
(* earlier container is left.                                              *)
Ingested(names, guardians) ==
  FlattenSeq([i \in 1..Len(names) |->
    Measured(names[i], "error") \o Revalidate(guardians, SubSeq(names, 1, i))])

(* The metadata of the resolved graph is read, then ingested as a policy;  *)
(* Miri adds a report volume and exports what its run wrote.               *)
SecurityGuardians == <<"guardian", "vendor guardian", "policy guardian">>
SecurityInputs == <<"ingest", "vendor ingest", "policy ingest">>

SecurityPlan(outputs, guardians, exports) ==
  Each(<<"source", "vendor", "policy">> \o outputs, HardVolume)
    \o Each(guardians, ApprovedGuardian) \o Ingested(SecurityInputs, guardians)
    \o Measured("metadata", "error")
    \o Revalidate(guardians, SecurityInputs \o <<"metadata">>)
    \o Measured("metadata ingest", "error")
    \o Revalidate(guardians, SecurityInputs \o <<"metadata", "metadata ingest">>)
    \o Measured("run", "go")
    \o Revalidate(guardians, SecurityInputs \o <<"metadata", "metadata ingest", "run">>)
    \o Each(exports, LAMBDA c : Measured(c, "error"))

SecurityWork == SecurityPlan(<<>>, SecurityGuardians, <<>>)
MiriWork ==
  SecurityPlan(<<"output">>, SecurityGuardians \o <<"output guardian">>, <<"export">>)

(* Performance: probes of the guest, then the measurement itself.          *)
PerformanceGuardians ==
  <<"guardian", "vendor guardian", "config guardian", "target guardian">>
PerformanceInputs == <<"ingest", "vendor ingest", "config ingest">>
Probed == PerformanceInputs \o <<"metadata", "cpu", "kernel">>

PerformancePlan(outputs, guardians, measurement, measured) ==
  Each(<<"source", "vendor", "config", "target">> \o outputs, HardVolume)
    \o Each(guardians, ApprovedGuardian) \o Ingested(PerformanceInputs, guardians)
    \o Measured("metadata", "error")
    \o Revalidate(guardians, PerformanceInputs \o <<"metadata">>)
    \o Measured("cpu", "go") \o Measured("kernel", "go")
    \o Maybe(Measured("governor", "go")) \o Revalidate(guardians, Probed)
    \o measurement \o Revalidate(guardians, Probed \o measured)

BloatMeasurements == <<"run", "crates", "size", "digest", "header">>
BloatWork ==
  PerformancePlan(<<>>, PerformanceGuardians,
                  Each(BloatMeasurements, LAMBDA c : Measured(c, "go")),
                  BloatMeasurements)

(* One run of a benchmark; each has an output volume of its own.           *)
BenchmarkWork ==
  PerformancePlan(<<"output">>, PerformanceGuardians \o <<"output guardian">>,
                  Measured("run", "go") \o Measured("export", "go"),
                  <<"run", "export">>)

ProfileWork ==
  PerformancePlan(<<"output">>, PerformanceGuardians \o <<"output guardian">>,
                  Measured("build", "go")
                    \o Branch(Measured("run", "go") \o Maybe(Measured("export", "go"))),
                  <<"build", "run", "export">>)

-----------------------------------------------------------------------------
(* Cleanup.  A volume is gated when the code leaves it alone unless every  *)
(* container before it is gone; otherwise the daemon is left to refuse.    *)
Sweep(c) == <<[on |-> c, volume |-> FALSE, gated |-> FALSE]>>
Drop(v, gated) == <<[on |-> v, volume |-> TRUE, gated |-> gated]>>

Joined(containers, volumes) ==
  Each(containers, Sweep) \o Each(volumes, LAMBDA v : Drop(v, TRUE))

(* The first volume goes with the containers, the others are tried anyway. *)
InTurn(containers, volumes) ==
  Each(containers, Sweep) \o Drop(Head(volumes), TRUE)
    \o Each(Tail(volumes), LAMBDA v : Drop(v, FALSE))

CargoCleanup == Joined(<<"ingest", "run">>, <<"source">>)
NextestCleanup == Joined(<<"ingest", "run", "export", "guardian">>, <<"source", "output">>)
SemverCleanup ==
  Joined(<<"ingest", "ingest baseline", "version", "run">>, <<"source", "baseline">>)
AnalyzerCleanup == Joined(<<"ingest", "analyzer">>, <<"source">>)

(* coverage and mutation testing try every volume, whatever is left.       *)
CoverageCleanup ==
  Each(<<"ingest", "run", "guardian", "json report", "json export", "lcov report",
         "lcov export", "html report", "html export">>, Sweep)
    \o Each(<<"source", "output", "target">>, LAMBDA v : Drop(v, FALSE))

MutantsCleanup ==
  Each(<<"ingest", "list", "run", "guardian", "export outcomes", "export bundle",
         "export lock">>, Sweep)
    \o Each(<<"source", "output">>, LAMBDA v : Drop(v, FALSE))

MutatorCleanup == Joined(<<"ingest", "mutator", "export", "guardian">>, <<"source">>)
ResolutionCleanup ==
  InTurn(<<"ingest", "vendor ingest", "resolve", "frozen", "export", "guardian",
           "vendor guardian">>, <<"source", "vendor">>)
SecurityContainers ==
  SecurityInputs \o <<"metadata", "metadata ingest", "run">> \o SecurityGuardians
SecurityCleanup == InTurn(SecurityContainers, <<"source", "vendor", "policy">>)
MiriCleanup ==
  InTurn(<<"output guardian", "export">> \o SecurityContainers,
         <<"source", "vendor", "policy", "output">>)
PerformanceContainers ==
  <<"ingest", "vendor ingest", "config ingest", "metadata", "cpu", "kernel", "run",
    "export", "build", "crates", "size", "digest", "header", "governor">>
    \o PerformanceGuardians
BloatCleanup == InTurn(PerformanceContainers, <<"source", "vendor", "config", "target">>)
OutputCleanup ==
  InTurn(PerformanceContainers \o <<"output guardian">>,
         <<"source", "vendor", "config", "target", "output">>)

-----------------------------------------------------------------------------
AllVerticals == {"cargo", "nextest", "coverage", "semver", "mutants", "analyzer",
                 "mutator", "resolution", "security", "miri", "bloat", "benchmark",
                 "profile"}

Work ==
  [cargo |-> CargoWork, nextest |-> NextestWork, coverage |-> CoverageWork,
   semver |-> SemverWork, mutants |-> MutantsWork, analyzer |-> AnalyzerWork,
   mutator |-> MutatorWork, resolution |-> ResolutionWork, security |-> SecurityWork,
   miri |-> MiriWork, bloat |-> BloatWork, benchmark |-> BenchmarkWork,
   profile |-> ProfileWork]

Cleanup ==
  [cargo |-> CargoCleanup, nextest |-> NextestCleanup, coverage |-> CoverageCleanup,
   semver |-> SemverCleanup, mutants |-> MutantsCleanup, analyzer |-> AnalyzerCleanup,
   mutator |-> MutatorCleanup, resolution |-> ResolutionCleanup,
   security |-> SecurityCleanup, miri |-> MiriCleanup, bloat |-> BloatCleanup,
   benchmark |-> OutputCleanup, profile |-> OutputCleanup]

(* How the outcome of the work is reconciled with a cancellation or a      *)
(* deadline: soft runs override it with what held when the work ended,     *)
(* the analyzer reports it beside its answer, hard runs look again after   *)
(* their cleanup.                                                          *)
Closing ==
  [v \in AllVerticals |->
    CASE v = "analyzer" -> "beside"
      [] v = "resolution" -> "cancelled again"
      [] v \in {"mutator", "security", "miri", "bloat", "benchmark", "profile"} ->
           "stopped again"
      [] OTHER -> "override"]

FailsClosed == {v \in AllVerticals : Closing[v] \in {"cancelled again", "stopped again"}}

(* What every kind of run has in common, and all that the theorems about   *)
(* the gateway need: the cleanup names whatever the work creates, and a    *)
(* kind that fails closed creates and runs nothing through a soft call.    *)
Calls == [call : STRING, on : STRING, hard : BOOLEAN,
          stopped : STRING, nonzero : STRING, skip : Nat]

ASSUME PlansAssumption ==
  \A v \in AllVerticals :
    /\ Work[v] \in Seq(Calls) /\ Work[v] # <<>>
    /\ Cleanup[v] \in Seq([on : STRING, volume : BOOLEAN, gated : BOOLEAN])
    /\ \A i \in DOMAIN Work[v] :
         /\ Work[v][i].call = "make" =>
              \E k \in DOMAIN Cleanup[v] : Cleanup[v][k].on = Work[v][i].on
         /\ Work[v][i].call \in {"make", "attach"} /\ v \in FailsClosed => Work[v][i].hard
===============================================================================
