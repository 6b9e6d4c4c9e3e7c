----------------------------- MODULE BenchRunner -----------------------------
(***************************************************************************)
(* The custom benchmark program: it runs the requested suites while it     *)
(* looks for them, opens and closes result tables as comparison and solo   *)
(* rows arrive, records every measurement of the library's side, tallies   *)
(* the comparisons, and writes the results the regression tool reads.      *)
(***************************************************************************)
EXTENDS SuiteRegistry

CONSTANTS
    Body(_),      \* a suite's benchmarks: [name, solo, tiers]
    Timings       \* what may be measured: functions of <<name, tier>> to [c, s]

VARIABLES timing, next, position, foundCategory, suiteName, tableOpen, tableIsSolo,
          lastRowGroup, out, benchmark_results, resultTally, benched, written

benchVars == <<timing, next, position, foundCategory, suiteName, tableOpen, tableIsSolo,
               lastRowGroup, out, benchmark_results, resultTally, benched, written>>

registryVars == <<registry, category_counters, request>>
printed == <<suiteName, tableOpen, tableIsSolo, lastRowGroup, out>>

BenchInit ==
    /\ timing \in Timings
    /\ next = 1 /\ position = <<1, 1>> /\ foundCategory = FALSE
    /\ suiteName = "" /\ tableOpen = FALSE /\ tableIsSolo = FALSE /\ lastRowGroup = ""
    /\ out = <<>> /\ benchmark_results = <<>>
    /\ resultTally = [customWins |-> 0, standardWins |-> 0, ties |-> 0]
    /\ benched = <<>> /\ written = FALSE

printHelpOrList ==
    /\ Registered /\ request.kind \in {"help", "list"}
    /\ Return(0)
    /\ UNCHANGED <<registryVars, benchVars>>

StartScan ==
    /\ Registered /\ request.kind \in {"all", "word"}
    /\ Goto("scan")
    /\ UNCHANGED <<registryVars, benchVars>>

\* A suite that is not asked for is passed over, any other begins: its name is
\* set and no table is open.
beginSuite ==
    /\ pc = "scan" /\ next <= Len(registry)
    /\ LET suite == registry[next]
       IN  IF request.kind = "all" \/ IsExact(suite) \/ IsCategory(suite)
           THEN /\ suiteName' = suite.name /\ tableOpen' = FALSE /\ lastRowGroup' = ""
                /\ foundCategory' = (foundCategory \/ (request.kind = "word" /\ ~IsExact(suite)))
                /\ position' = <<1, 1>> /\ Goto("suite") /\ UNCHANGED next
           ELSE /\ next' = next + 1 /\ Goto("scan")
                /\ UNCHANGED <<suiteName, tableOpen, lastRowGroup, foundCategory, position>>
    /\ UNCHANGED <<registryVars, timing, tableIsSolo, out, benchmark_results, resultTally,
                   benched, written>>

Line(kind, solo, name) == [kind |-> kind, solo |-> solo, suite |-> suiteName, name |-> name]

\* The bug to compare with: an open table of the other kind is used as it is.
NeedsTableOpenOnly(solo) == ~tableOpen

\* Whether a row needs a new table: none is open, or one of the other kind.
NeedsTable(solo) == ~tableOpen \/ tableIsSolo # solo

\* The lines ensureTable prints: the end of a table of the other kind, and the
\* header of the new one.
ensureTable(solo) ==
    IF ~NeedsTable(solo) THEN <<>>
    ELSE (IF tableOpen THEN <<Line("bottom", tableIsSolo, "")>> ELSE <<>>)
         \o <<Line("head", solo, "")>>

drawGroupSeparatorIfNeeded(solo, group, name) ==
    IF group \notin {"", name} THEN <<Line("separator", solo, "")>> ELSE <<>>

\* pct is 0 without a reference time, otherwise its sign is that of s - c.
Tally(c, s) ==
    [resultTally EXCEPT !.customWins = @ + (IF s # 0 /\ s > c THEN 1 ELSE 0),
                        !.standardWins = @ + (IF s # 0 /\ s < c THEN 1 ELSE 0),
                        !.ties = @ + (IF s = 0 \/ s = c THEN 1 ELSE 0)]

\* The bug to compare with: a solo measurement is not recorded.
RecordPaired(bench, tier) ==
    IF bench.solo THEN benchmark_results
    ELSE Append(benchmark_results, [suite |-> suiteName, operation |-> bench.name, iterations |-> tier])

\* Every measurement of the library's own side is recorded.
Record(bench, tier) ==
    Append(benchmark_results, [suite |-> suiteName, operation |-> bench.name, iterations |-> tier])

\* One tier of one benchmark: measured, recorded, and printed as a row of the kind
\* of table it needs.
benchRow ==
    /\ pc = "suite" /\ position[1] <= Len(Body(registry[next].stem))
    /\ LET bench == Body(registry[next].stem)[position[1]]
           tier == bench.tiers[position[2]]
           time == timing[<<bench.name, tier>>]
           group == IF NeedsTable(bench.solo) THEN "" ELSE lastRowGroup
       IN  /\ benchmark_results' = Record(bench, tier)
           /\ out' = out \o ensureTable(bench.solo)
                         \o drawGroupSeparatorIfNeeded(bench.solo, group, bench.name)
                         \o <<Line("row", bench.solo, bench.name)>>
           /\ tableOpen' = TRUE
           /\ tableIsSolo' = IF NeedsTable(bench.solo) THEN bench.solo ELSE tableIsSolo
           /\ lastRowGroup' = bench.name
           /\ resultTally' = IF bench.solo THEN resultTally ELSE Tally(time.c, time.s)
           /\ position' = IF position[2] < Len(bench.tiers) THEN <<position[1], position[2] + 1>>
                          ELSE <<position[1] + 1, 1>>
    /\ UNCHANGED <<registryVars, pc, exit, timing, next, foundCategory, suiteName, benched, written>>

\* The bug to compare with: any match ends the search.
StopsAtMatch(suite) == request.kind = "word"

\* An exact match ends the search; after a category's suite it goes on.
Stops(suite) == request.kind = "word" /\ IsExact(suite)

closeTable ==
    /\ pc = "suite" /\ position[1] > Len(Body(registry[next].stem))
    /\ out' = IF tableOpen THEN Append(out, Line("bottom", tableIsSolo, "")) ELSE out
    /\ tableOpen' = FALSE
    /\ benched' = Append(benched, registry[next])
    /\ next' = next + 1
    /\ Goto(IF Stops(registry[next]) THEN "summary" ELSE "scan")
    /\ UNCHANGED <<registryVars, timing, position, foundCategory, suiteName, tableIsSolo,
                   lastRowGroup, benchmark_results, resultTally, written>>

EndScan ==
    /\ pc = "scan" /\ next > Len(registry)
    /\ IF request.kind = "all" \/ foundCategory THEN Goto("summary") ELSE Return(1)
    /\ UNCHANGED <<registryVars, benchVars>>

Total == resultTally.customWins + resultTally.standardWins + resultTally.ties

\* The summary prints nothing when nothing was compared.
printSummary ==
    /\ pc = "summary"
    /\ out' = IF Total = 0 THEN out ELSE Append(out, Line("summary", FALSE, ""))
    /\ Goto("export")
    /\ UNCHANGED <<registryVars, timing, next, position, foundCategory, suiteName, tableOpen,
                   tableIsSolo, lastRowGroup, benchmark_results, resultTally, benched, written>>

\* The results replace those of the run before, whatever suites that one ran, or
\* they are dropped without a word when the file cannot be opened.
exportResults ==
    /\ pc = "export"
    /\ written' \in BOOLEAN
    /\ Return(0)
    /\ UNCHANGED <<registryVars, timing, next, position, foundCategory, printed,
                   benchmark_results, resultTally, benched>>

BenchNext ==
    \/ \E f \in Files : Register(f) /\ UNCHANGED benchVars
    \/ printHelpOrList \/ StartScan \/ beginSuite \/ benchRow \/ closeTable \/ EndScan
    \/ printSummary \/ exportResults

-----------------------------------------------------------------------------
Kind(i) == IF i \in 1..Len(out) THEN out[i].kind ELSE "none"

\* Every row stands, with only rows and separators of its own kind between, under a
\* header of its kind and its suite; a line separates two rows of one table when
\* their operations differ; no table is left open when the program exits; and the
\* summary has counted each comparison row once (ensureTable, closeTable,
\* drawGroupSeparatorIfNeeded, printSummary).
BenchTables ==
    /\ \A i \in 1..Len(out) : Kind(i) = "row" =>
          \E j \in 1..(i - 1) :
              /\ Kind(j) = "head" /\ out[j].solo = out[i].solo /\ out[j].suite = out[i].suite
              /\ \A k \in (j + 1)..i : Kind(k) \in {"row", "separator"} /\ out[k].solo = out[i].solo
    /\ \A i \in 1..Len(out) :
          (Kind(i) = "row" /\ Kind(i + 1) = "row") => out[i].name = out[i + 1].name
    /\ \A i \in 1..Len(out) : Kind(i) = "separator" =>
          Kind(i - 1) = "row" /\ Kind(i + 1) = "row" /\ out[i - 1].name # out[i + 1].name
    /\ pc = "done" => Cardinality({i \in 1..Len(out) : Kind(i) = "head"})
                        = Cardinality({i \in 1..Len(out) : Kind(i) = "bottom"})
    /\ pc = "done" => Total = Cardinality({i \in 1..Len(out) : Kind(i) = "row" /\ ~out[i].solo})
=============================================================================
