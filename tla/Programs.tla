------------------------------ MODULE Programs ------------------------------
(***************************************************************************)
(* The programs a developer runs over one working copy: the example program *)
(* or the benchmark program, from the first registrar to the exit, and a    *)
(* regression tool.  The benchmark program leaves its results in a file,    *)
(* and the custom regression tool may be started after it on that file.     *)
(***************************************************************************)
EXTENDS ExampleRunner

CONSTANTS
    Body(_), Timings,           \* the benchmarks and what may be measured: BenchRunner's
    Disks, Calls, Spelling(_),  \* what a regression tool that runs alone may find
    WorkingCopies,              \* the file systems a benchmark run may find
    CallsAfter,                 \* the arguments of the comparison that follows it
    NameOf(_)                   \* a suite's or an operation's name as Regression has it

\* The runner: "examples", "bench" or "none".
VARIABLES tool, timing, next, position, foundCategory, suiteName, tableOpen, tableIsSolo,
          lastRowGroup, out, benchmark_results, resultTally, benched, written

\* The regression tool: "custom", "google" or "none", and what it has of its own
\* under a name that the runners have too.
VARIABLES comparer, reg_pc, reg_exit, reg_group, reg_out

VARIABLES disk, argv, left, baselines, baselineFile, currentFile, method, baseline, current,
          currentSuite, regression_results, json, markdown

registryVars == <<registry, category_counters, request>>
benchVars == <<timing, next, position, foundCategory, suiteName, tableOpen, tableIsSolo,
               lastRowGroup, out, benchmark_results, resultTally, benched, written>>
runnerVars == <<tool, registryVars, pc, exit, exampleVars, benchVars>>
comparisonVars == <<comparer, reg_pc, reg_exit, reg_group, reg_out, argv, left, baselines,
                    baselineFile, currentFile, method, baseline, current, currentSuite,
                    regression_results, json, markdown>>

vars == <<runnerVars, comparisonVars, disk>>

Bench == INSTANCE BenchRunner

Compare == INSTANCE Regression WITH
    tool <- comparer, pc <- reg_pc, exit <- reg_exit, lastRowGroup <- reg_group, out <- reg_out

-----------------------------------------------------------------------------
\* A runner starts in a working copy, or a regression tool runs alone.
Init ==
    /\ RegistryInit /\ ExampleInit /\ Bench!BenchInit
    /\ \/ /\ tool \in {"examples", "bench"} /\ comparer = "none"
          /\ disk \in WorkingCopies /\ argv = <<>>
       \/ /\ tool = "none" /\ comparer \in {"custom", "google"}
          /\ disk \in Disks /\ argv \in Calls
    /\ tool = "none" => request = CHOOSE r \in Requests : TRUE
    /\ tool = "none" => timing = CHOOSE t \in Timings : TRUE
    /\ Compare!Idle

\* The entries of benchmark_results.json, which the regression tool reads back.
Exported ==
    [exists |-> TRUE, valid |-> TRUE,
     entries |-> [i \in 1..Len(benchmark_results) |->
        LET r == benchmark_results[i]
        IN  [suite |-> NameOf(r.suite), op |-> NameOf(r.operation), iter |-> r.iterations,
             ns |-> timing[<<r.operation, r.iterations>>].c]]]

RunExamples == tool = "examples" /\ ExampleNext /\ UNCHANGED <<tool, benchVars, comparisonVars, disk>>

RunBench ==
    /\ tool = "bench" /\ Bench!BenchNext
    /\ disk' = IF written' /\ ~written THEN [disk EXCEPT !.custom = Exported] ELSE disk
    /\ UNCHANGED <<tool, exampleVars, comparisonVars>>

\* The developer compares the results after a run that succeeded.
StartComparison ==
    /\ tool = "bench" /\ pc = "done" /\ exit = 0 /\ comparer = "none"
    /\ comparer' = "custom"
    /\ argv' \in CallsAfter
    /\ UNCHANGED <<runnerVars, disk, reg_pc, reg_exit, reg_group, reg_out, left, baselines,
                   baselineFile, currentFile, method, baseline, current, currentSuite,
                   regression_results, json, markdown>>

RunComparison == Compare!Next /\ UNCHANGED runnerVars

Next == RunExamples \/ RunBench \/ StartComparison \/ RunComparison

Spec == Init /\ [][Next]_vars

-----------------------------------------------------------------------------
(* Properties of the runners.                                               *)

\* A run that succeeds has run exactly the suites that were asked for, each once, in
\* the order they registered: the one that is named, or the whole category, or
\* all of them (example_main, bench_main).
RunsRequested ==
    (pc = "done" /\ exit = 0) => Requested = (IF tool = "examples" THEN ran ELSE benched)

\* The rows of the benchmark program's output stand in tables of their kind
\* (ensureTable, closeTable).
BenchTables == Bench!BenchTables

\* Every tier of a suite's benchmarks, as it is recorded.
Tiers(suite) ==
    FlattenSeq([b \in 1..Len(Body(suite.stem)) |->
        LET bench == Body(suite.stem)[b]
        IN  [t \in 1..Len(bench.tiers) |->
               [suite |-> suite.name, operation |-> bench.name, iterations |-> bench.tiers[t]]]])

\* What the benchmark program measured for a row of the comparison.
TimesOf(row) ==
    {timing[<<r.operation, r.iterations>>].c :
        r \in {r \in Range(FlattenSeq([i \in 1..Len(benched) |-> Tiers(benched[i])])) :
                 <<NameOf(r.suite), NameOf(r.operation), r.iterations>> = row.key}}

\* From the measurement to the comparison: results that were written hold every
\* tier of every benchmark of the suites that ran, once and in order, solo ones
\* too; and in the comparison that follows, a row of the live side shows exactly
\* the time just measured for its suite, operation and tier, and 0 when that did
\* not run, never a time of an earlier run (BENCHMARK, exportJson, loadResults,
\* getCns).
ComparesWhatRan ==
    written =>
        /\ benchmark_results = FlattenSeq([i \in 1..Len(benched) |-> Tiers(benched[i])])
        /\ currentFile = 0 => \A i \in 1..Len(regression_results) :
              LET row == regression_results[i]
              IN  IF TimesOf(row) = {} THEN row.current_ns = 0
                  ELSE TimesOf(row) = {row.current_ns}

-----------------------------------------------------------------------------
(* Properties of the comparison, Regression's of the same names, for a tool  *)
(* that runs alone and for one that follows a benchmark run.                 *)

\* Reports match both snapshots entry by entry (printRegression, getCns).
ReportFaithful == Compare!ReportFaithful

\* The numbers of the versions decide what is compared with and how the versions are
\* listed (latestBaseline, printList).
NumbersDecide == Compare!NumbersDecide

\* The ids of the method listing resolve to the methods beside them
\* (printMethods, resolveMethodId).
ListedIdsResolve == Compare!ListedIdsResolve

\* Rows stand in the open table of their section, separated by operation
\* (setHeader, drawGroupSeparatorIfNeeded, endTable).
TableShape == Compare!TableShape

\* Every line of a table has the widths of its borders, but for the delta of an
\* extreme change (padCell, truncateCell).
CellsAligned == Compare!CellsAligned

\* A run that fails writes no report (main, applyMethodFilter).
ReportOnlyOnSuccess == Compare!ReportOnlyOnSuccess
=============================================================================
