-------------------------- MODULE GoogleRegression --------------------------
(***************************************************************************)
(* The regression tool of the Google Benchmark suite: a snapshot records   *)
(* one time per benchmark name, the table is chosen by the name, and there *)
(* is no iteration column and no line between operations.                  *)
(***************************************************************************)
EXTENDS Integers, Sequences, RegressionText

CONSTANTS Disks, Calls, Spelling(_)

VARIABLES disk, argv, pc, exit, left, baselines, baselineFile, currentFile,
          method, baseline, current, currentSuite, lastRowGroup,
          out, regression_results, json, markdown

\* The name without its last "_" segment.
baseName(name) == [name EXCEPT ![3] = 0]

Section(e) == baseName(e.op)
Key(e) == e.op

\* The bug to compare with: the names' tables are compared.
SameBase(r, e) == baseName(r.op) = baseName(e.op)

\* getCns compares the name: the iteration count is the library's own choice.
Same(r, e) == r.op = e.op

\* A "v" folder is a baseline of this tool when this tool's snapshot is in it.
Accepts(f) == f.v /\ f.google.exists
FileIn(f) == f.google
LiveFile(d) == d.google

\* Wider than the custom tool's: a benchmark's name is a suite and a method.
TEST_W == 32

Columns == <<TEST_W, VAL_W, VAL_W, DELTA_W>>
Separated == FALSE

HeadCells(section) ==
    <<NameCell(Spelling(section), TEST_W), padCell(Ascii(8), VAL_W), padCell(Ascii(8), VAL_W),
      padCell(<<1, 2, 0>>, DELTA_W)>>

RowCells(e, cns) ==
    LET maxNs == IF e.ns > cns THEN e.ns ELSE cns
    IN  <<NameCell(Spelling(e.op), TEST_W), ValueCell(cns, maxNs), ValueCell(e.ns, maxNs),
          DeltaCell(e.ns, cns)>>

Tool == INSTANCE RegressionTool

-----------------------------------------------------------------------------
(* The steps of the program, which this tool has its own copy of.           *)

Usage == Tool!printUsage
Arguments == Tool!ReadArguments
FindBaselines == (\E f \in left : Tool!Visit(f)) \/ Tool!latestBaseline
ListVersions == Tool!printList
ListMethods == Tool!SelectMethods \/ Tool!printMethods
ResolveId == Tool!Resolve
LoadResults == Tool!LoadBaseline \/ Tool!LoadCurrent
FilterMethod == Tool!applyMethodFilter
Compare == Tool!printComparisonRow \/ Tool!EndComparison
Summarise == Tool!printSummary
ExportReports == Tool!exportJson \/ Tool!exportMarkdown

Next ==
    \/ Usage \/ Arguments \/ FindBaselines \/ ListVersions \/ ListMethods
    \/ ResolveId \/ LoadResults \/ FilterMethod \/ Compare \/ Summarise \/ ExportReports
=============================================================================
