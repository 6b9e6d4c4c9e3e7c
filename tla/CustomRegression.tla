-------------------------- MODULE CustomRegression --------------------------
(***************************************************************************)
(* The regression tool of the custom benchmark suite: its snapshots record *)
(* a suite, an operation and an iteration tier with every time.            *)
(***************************************************************************)
EXTENDS Integers, Sequences, RegressionText

CONSTANTS Disks, Calls, Spelling(_)

VARIABLES disk, argv, pc, exit, left, baselines, baselineFile, currentFile,
          method, baseline, current, currentSuite, lastRowGroup,
          out, regression_results, json, markdown

Section(e) == e.suite
Key(e) == <<e.suite, e.op, e.iter>>

\* The bug to compare with: the tier is not compared.
SameOperation(r, e) == r.op = e.op

\* getCns compares the operation and the tier, but not the suite.
Same(r, e) == r.op = e.op /\ r.iter = e.iter

\* A "v" folder is a baseline of this tool whatever it holds.
Accepts(f) == f.v
FileIn(f) == f.custom
LiveFile(d) == d.custom

TEST_W == 26

Columns == <<TEST_W, ITER_W, VAL_W, VAL_W, DELTA_W>>
Separated == TRUE

\* The labels of the two value columns are a tag or "Current".
HeadCells(section) ==
    <<NameCell(Spelling(section), TEST_W), padCell(Ascii(10), ITER_W),
      padCell(Ascii(8), VAL_W), padCell(Ascii(8), VAL_W), padCell(<<1, 2, 0>>, DELTA_W)>>

RowCells(e, cns) ==
    LET maxNs == IF e.ns > cns THEN e.ns ELSE cns
    IN  <<NameCell(Spelling(e.op), TEST_W), padCell(Ascii(1) \o convertIter(e.iter), ITER_W),
          ValueCell(cns, maxNs), ValueCell(e.ns, maxNs), DeltaCell(e.ns, cns)>>

Tool == INSTANCE RegressionTool
=============================================================================
