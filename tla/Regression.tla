----------------------------- MODULE Regression -----------------------------
(***************************************************************************)
(* The two regression tools beside each other: a run of either of them over *)
(* the version folders that they share.                                    *)
(***************************************************************************)
CONSTANTS Disks, Calls, Spelling(_)

VARIABLES tool, disk, argv, pc, exit, left, baselines, baselineFile, currentFile,
          method, baseline, current, currentSuite, lastRowGroup,
          out, regression_results, json, markdown

vars == <<tool, disk, argv, pc, exit, left, baselines, baselineFile, currentFile,
          method, baseline, current, currentSuite, lastRowGroup,
          out, regression_results, json, markdown>>

Custom == INSTANCE CustomRegression
Google == INSTANCE GoogleRegression

Idle == Custom!Tool!Idle

Init == tool \in {"custom", "google"} /\ Custom!Tool!Init

RunCustom == tool = "custom" /\ Custom!Tool!Next /\ UNCHANGED tool
RunGoogle == tool = "google" /\ Google!Next /\ UNCHANGED tool

Next == RunCustom \/ RunGoogle

Spec == Init /\ [][Next]_vars

-----------------------------------------------------------------------------
\* Each of the following is the property of the same name of RegressionTool, for
\* the tool that runs.

\* Reports have one row per requested entry, with the times of the same measurement
\* (printRegression, getCns).
ReportFaithful == IF tool = "custom" THEN Custom!Tool!ReportFaithful ELSE Google!Tool!ReportFaithful

\* The numbers of the versions decide what a run without tags compares against and
\* how the versions are listed (latestBaseline, printList).
NumbersDecide == IF tool = "custom" THEN Custom!Tool!NumbersDecide ELSE Google!Tool!NumbersDecide

\* A run without tags compares against the newest version: a Baseline is said to be
\* "ordered by semantic version so the newest baseline can be found"
\* (custom/support/helpers.h:84-85, google/support/helpers.h:96-97).
NewestBaseline == IF tool = "custom" THEN Custom!Tool!NewestBaseline ELSE Google!Tool!NewestBaseline

\* The ids of the method listing resolve to the methods beside them
\* (printMethods, resolveMethodId).
ListedIdsResolve ==
    IF tool = "custom" THEN Custom!Tool!ListedIdsResolve ELSE Google!Tool!ListedIdsResolve

\* Rows stand in the open table of their section, separated by operation
\* (setHeader, drawGroupSeparatorIfNeeded, endTable).
TableShape == IF tool = "custom" THEN Custom!Tool!TableShape ELSE Google!Tool!TableShape

\* Every line of a table has the widths of its borders (padCell, truncateCell).
CellsAligned == IF tool = "custom" THEN Custom!Tool!CellsAligned ELSE Google!Tool!CellsAligned

\* A run that fails writes no report (main, applyMethodFilter).
ReportOnlyOnSuccess ==
    IF tool = "custom" THEN Custom!Tool!ReportOnlyOnSuccess ELSE Google!Tool!ReportOnlyOnSuccess

\* A comparison counted for the current side was measured on the current side: the
\* summary is said to count how many the current side won, and getCns gives 0
\* for a benchmark that was renamed, removed or filtered out
\* (custom/support/framework.h:58-60, google/support/helpers.h:202-204).
WinsAreMeasured == IF tool = "custom" THEN Custom!Tool!WinsAreMeasured ELSE Google!Tool!WinsAreMeasured
=============================================================================
