--------------------------- MODULE RegressionTool ---------------------------
(***************************************************************************)
(* One run of a regression tool, from its arguments to its exit: it finds  *)
(* the snapshots under benchmarks/baselines, loads a baseline and a current *)
(* one, prints a comparison row for every entry of the baseline, the tables *)
(* they stand in and a summary, and writes the reports.  Any exception ends *)
(* it with exit code 1.  The two tools of the repository are copies of one *)
(* program that differ in the constant operators below; the definitions    *)
(* here follow the custom one.                                             *)
(*                                                                         *)
(* A name is a triple: the code of its first character, a number for the   *)
(* spelling of the rest, and one for its last "_" segment (0: none).  A    *)
(* folder has the rank of its name among all spellings, the three numbers  *)
(* its name parses to (<<>>: none), whether the rest of its name makes it  *)
(* a pre-release, and its two snapshot files.                              *)
(***************************************************************************)
EXTENDS Integers, Sequences, FiniteSets, SequencesExt, RegressionText

CONSTANTS
    Disks,          \* the file systems a run may find
    Calls,          \* the argument lists: sequences of words
    Section(_),     \* the table an entry belongs to
    Key(_),         \* what an entry measures
    Same(_, _),     \* what getCns compares
    Accepts(_),     \* whether a directory entry is one of this tool's baselines
    FileIn(_),      \* the snapshot of this tool in a version folder
    LiveFile(_),    \* the results of the last local benchmark run
    Columns,        \* the column widths of the comparison table
    HeadCells(_),   \* the cells of a table's header
    RowCells(_, _), \* the cells of a comparison row
    Separated       \* whether a line separates the operations of a table

VARIABLES disk, argv, pc, exit, left, baselines, baselineFile, currentFile,
          method, baseline, current, currentSuite, lastRowGroup,
          out, regression_results, json, markdown

files == <<baselineFile, currentFile, method>>
table == <<baseline, current, currentSuite, lastRowGroup, regression_results>>
report == <<json, markdown>>

Live == 0
Unwritten == [written |-> FALSE, content |-> <<>>]

\* Before its arguments are read.
Idle ==
    /\ pc = "arguments" /\ exit = 0
    /\ left = {} /\ baselines = <<>>
    /\ baselineFile = Live /\ currentFile = Live /\ method = <<>>
    /\ baseline = <<>> /\ current = <<>>
    /\ currentSuite = <<>> /\ lastRowGroup = <<>> /\ out = <<>>
    /\ regression_results = <<>>
    /\ json = Unwritten /\ markdown = Unwritten

Init == disk \in Disks /\ argv \in Calls /\ Idle

Return(code) == pc' = "done" /\ exit' = code
Goto(next) == pc' = next /\ exit' = exit

\* The file a path names: a path of no folder opens nothing.
File(path) ==
    IF path = Live THEN LiveFile(disk)
    ELSE IF \E f \in disk.folders : f.name = path
         THEN FileIn(CHOOSE f \in disk.folders : f.name = path)
         ELSE [exists |-> FALSE, valid |-> FALSE, entries |-> <<>>]

\* loadResults: it throws when the file cannot be opened or parsed.
Loads(path) == File(path).exists /\ File(path).valid

-----------------------------------------------------------------------------
(* Lookups in a loaded snapshot.                                            *)

\* The time of the first entry that measures the same, 0 when there is none.
getCns(results, e) ==
    LET hits == SelectSeq(results, LAMBDA r : Same(r, e))
    IN  IF hits = <<>> THEN 0 ELSE hits[1].ns

uniqueOperations(results) ==
    FoldLeft(LAMBDA ops, r : IF Contains(ops, r.op) THEN ops ELSE Append(ops, r.op), <<>>, results)

filterByOperation(results, op) == SelectSeq(results, LAMBDA r : r.op = op)

toupper(c) == IF c \in 97..122 THEN c - 32 ELSE c

Lexicographic(a, b) ==
    \E i \in 1..Len(a) : a[i] < b[i] /\ \A j \in 1..(i - 1) : a[j] = b[j]

\* The bug to compare with: the sort tells capitals from small letters.
BeforeCased(a, b) == Lexicographic(a, b)

Before(a, b) == Lexicographic([a EXCEPT ![1] = toupper(@)], [b EXCEPT ![1] = toupper(@)])

\* The operations in the order of their upper-case spelling, cut into groups of
\* neighbours with the same first letter.
groupMethodsByLetter(operations) ==
    LET sorted == SortSeq(operations, Before)
        add(groups, op) ==
            LET letter == toupper(op[1])
            IN  IF groups # <<>> /\ Last(groups).letter = letter
                THEN [groups EXCEPT ![Len(groups)].members = Append(@, op)]
                ELSE Append(groups, [letter |-> letter, members |-> <<op>>])
    IN  FoldLeft(add, <<>>, sorted)

\* The members of the first group with the letter of an id, from the id's index
\* on: empty when the id names nothing.
resolveMethodId(id, path) ==
    LET groups == groupMethodsByLetter(uniqueOperations(File(path).entries))
        hits == SelectSeq(groups, LAMBDA g : g.letter = toupper(id.letter))
    IN  IF hits = <<>> \/ id.index = 0 \/ id.index > Len(hits[1].members) THEN <<>>
        ELSE <<[kind |-> "name", name |-> hits[1].members[id.index]]>>

-----------------------------------------------------------------------------
(* The arguments.                                                           *)

Command(kind, n) == Len(argv) = n /\ argv[1].kind = kind

printUsage == 
    /\ pc = "arguments" /\ Command("help", 1)
    /\ Return(0)
    /\ UNCHANGED <<disk, argv, left, baselines, files, table, out, report>>

\* How many leading arguments are version tags: at most two count.
versionCount ==
    IF argv = <<>> \/ argv[1].kind # "tag" THEN 0
    ELSE IF Len(argv) >= 2 /\ argv[2].kind = "tag" THEN 2 ELSE 1

\* The words after the tags are the method filter (Calls has at most one word
\* there: the tool joins several into one name).
ReadArguments ==
    /\ pc = "arguments" /\ ~Command("help", 1)
    /\ left' = disk.folders
    /\ IF Command("list", 1)
       THEN Goto("list") /\ UNCHANGED files
       ELSE IF Command("methods", 1) \/ Command("methods", 2)
       THEN Goto("methods") /\ UNCHANGED files
       ELSE /\ method' = SubSeq(argv, versionCount + 1, Len(argv))
            /\ baselineFile' = IF versionCount = 0 THEN Live ELSE argv[versionCount].tag
            /\ currentFile' = IF versionCount = 2 THEN argv[1].tag ELSE Live
            /\ Goto(IF versionCount = 0 THEN "newest" ELSE "resolve")
    /\ UNCHANGED <<disk, argv, baselines, table, out, report>>

\* The bug to compare with: the folders' names are compared as text.
LaterByName(f, g) == f.name > g.name

\* The order of Baseline: by the three numbers, then by the text of the folder's
\* name; what follows the numbers is in the name only.
Later(f, g) == Lexicographic(Append(g.version, g.name), Append(f.version, f.name))

\* The next entry of the directory, in whatever order the file system gives them.
\* A folder of this tool whose name does not parse ends the run.  The search
\* for the newest keeps one baseline, the listings keep them all.
Visit(f) ==
    /\ pc \in {"list", "methods", "newest"} /\ f \in left
    /\ left' = left \ {f}
    /\ IF ~Accepts(f)
       THEN Goto(pc) /\ UNCHANGED baselines
       ELSE IF f.version = <<>>
       THEN Return(1) /\ UNCHANGED baselines
       ELSE /\ Goto(pc)
            /\ baselines' = IF pc # "newest" THEN Append(baselines, f)
                            ELSE IF baselines = <<>> \/ Later(f, baselines[1]) THEN <<f>>
                            ELSE baselines
    /\ UNCHANGED <<disk, argv, files, table, out, report>>

latestBaseline ==
    /\ pc = "newest" /\ left = {}
    /\ IF baselines = <<>>
       THEN Return(1) /\ UNCHANGED baselineFile
       ELSE Goto("resolve") /\ baselineFile' = baselines[1].name
    /\ UNCHANGED <<disk, argv, left, baselines, currentFile, method, table, out, report>>

-----------------------------------------------------------------------------
(* The listings.                                                            *)

Oldest(f, g) == Later(g, f)

printList ==
    /\ pc = "list" /\ left = {}
    /\ out' = [i \in 1..Len(baselines) |->
                  [kind |-> "version", name |-> SortSeq(baselines, Oldest)[i].name]]
    /\ Return(0)
    /\ UNCHANGED <<disk, argv, left, baselines, files, table, report>>

\* The baselines to list the methods of: all, or the one the tag names.
SelectMethods ==
    /\ pc = "methods" /\ left = {}
    /\ LET sorted == SortSeq(baselines, Oldest)
           named == SelectSeq(sorted, LAMBDA f : argv[2].kind = "tag" /\ f.name = argv[2].tag)
       IN  IF Len(argv) = 1
           THEN baselines' = sorted /\ Goto("groups")
           ELSE IF named = <<>>
           THEN Return(1) /\ UNCHANGED baselines
           ELSE baselines' = <<named[1]>> /\ Goto("groups")
    /\ UNCHANGED <<disk, argv, left, files, table, out, report>>

MethodLines(path) ==
    LET groups == groupMethodsByLetter(uniqueOperations(File(path).entries))
    IN  FlattenSeq([i \in 1..Len(groups) |->
            [j \in 1..Len(groups[i].members) |->
                [kind |-> "method", path |-> path, name |-> groups[i].members[j],
                 id |-> [letter |-> groups[i].letter, index |-> j]]]])

\* One version after the other; one whose snapshot does not load ends the run.
printMethods ==
    /\ pc = "groups"
    /\ IF baselines = <<>>
       THEN Return(0) /\ UNCHANGED <<baselines, out>>
       ELSE IF ~Loads(baselines[1].name)
       THEN Return(1) /\ UNCHANGED <<baselines, out>>
       ELSE /\ Goto(pc)
            /\ out' = out \o MethodLines(baselines[1].name)
            /\ baselines' = Tail(baselines)
    /\ UNCHANGED <<disk, argv, left, files, table, report>>

-----------------------------------------------------------------------------
(* Loading both sides.                                                      *)

\* An id is looked up in the baseline's own listing.
Resolve ==
    /\ pc = "resolve"
    /\ IF method = <<>> \/ method[1].kind # "id"
       THEN Goto("baseline") /\ UNCHANGED method
       ELSE IF ~Loads(baselineFile) \/ resolveMethodId(method[1], baselineFile) = <<>>
       THEN Return(1) /\ UNCHANGED method
       ELSE Goto("baseline") /\ method' = resolveMethodId(method[1], baselineFile)
    /\ UNCHANGED <<disk, argv, left, baselines, baselineFile, currentFile, table, out, report>>

LoadBaseline ==
    /\ pc = "baseline"
    /\ IF Loads(baselineFile)
       THEN Goto("current") /\ baseline' = File(baselineFile).entries
       ELSE Return(1) /\ UNCHANGED baseline
    /\ UNCHANGED <<disk, argv, left, baselines, files, current, currentSuite, lastRowGroup,
                   regression_results, out, report>>

LoadCurrent ==
    /\ pc = "current"
    /\ IF Loads(currentFile)
       THEN Goto("filter") /\ current' = File(currentFile).entries
       ELSE Return(1) /\ UNCHANGED current
    /\ UNCHANGED <<disk, argv, left, baselines, files, baseline, currentSuite, lastRowGroup,
                   regression_results, out, report>>

\* The bug to compare with: only the baseline has to have the method.
BothHaveBaseline(b, c) == b # <<>>

\* Neither side may turn out to have nothing of the method.
BothHave(b, c) == b # <<>> /\ c # <<>>

\* The method as a name: a word that is neither tag nor id.
Named == IF method[1].kind = "name" THEN method[1].name ELSE <<>>

applyMethodFilter ==
    /\ pc = "filter"
    /\ LET b == filterByOperation(baseline, Named)
           c == filterByOperation(current, Named)
       IN  IF method = <<>>
           THEN Goto("compare") /\ UNCHANGED <<baseline, current>>
           ELSE /\ baseline' = b /\ current' = c
                /\ IF BothHave(b, c) THEN Goto("compare") ELSE Return(1)
    /\ UNCHANGED <<disk, argv, left, baselines, files, currentSuite, lastRowGroup,
                   regression_results, out, report>>

-----------------------------------------------------------------------------
(* The comparison.                                                          *)

drawBorder(kind) == [kind |-> kind, cells |-> Columns]

Widths(cells) == [i \in 1..Len(cells) |-> displayWidth(cells[i])]

setHeader(section) ==
    <<drawBorder("top"),
      [kind |-> "head", section |-> section, cells |-> Widths(HeadCells(section))],
      drawBorder("middle")>>

endTable == drawBorder("bottom")

\* The bug to compare with: a new table keeps the last row's operation.
GroupAfterHeaderKept(group) == group

\* A new table forgets the operation of the last row.
GroupAfterHeader(group) == <<>>

\* A line between two operations of one table.
drawGroupSeparatorIfNeeded(group, op) ==
    IF Separated /\ group # <<>> /\ group # <<op>> THEN <<drawBorder("separator")>> ELSE <<>>

RowLine(e, cns) ==
    [kind |-> "row", section |-> Section(e), op |-> e.op, cells |-> Widths(RowCells(e, cns))]

\* The next entry of the baseline: its table's header when the section changes,
\* then its row, which is recorded too.
printComparisonRow ==
    /\ pc = "compare" /\ Len(regression_results) < Len(baseline)
    /\ LET e == baseline[Len(regression_results) + 1]
           cns == getCns(current, e)
           new == currentSuite # <<Section(e)>>
           group == IF new THEN GroupAfterHeader(lastRowGroup) ELSE lastRowGroup
       IN  /\ out' = out \o (IF new /\ currentSuite # <<>> THEN <<endTable>> ELSE <<>>)
                         \o (IF new THEN setHeader(Section(e)) ELSE <<>>)
                         \o drawGroupSeparatorIfNeeded(group, e.op)
                         \o <<RowLine(e, cns)>>
           /\ regression_results' =
                  Append(regression_results, [key |-> Key(e), baseline_ns |-> e.ns, current_ns |-> cns])
           /\ currentSuite' = <<Section(e)>>
           /\ lastRowGroup' = IF Separated THEN <<e.op>> ELSE group
    /\ UNCHANGED <<disk, argv, pc, exit, left, baselines, files, baseline, current, report>>

EndComparison ==
    /\ pc = "compare" /\ Len(regression_results) = Len(baseline)
    /\ out' = IF currentSuite # <<>> THEN Append(out, endTable) ELSE out
    /\ Goto("summary")
    /\ UNCHANGED <<disk, argv, left, baselines, files, table, report>>

Count(Counted(_, _)) ==
    Len(SelectSeq(regression_results, LAMBDA r : Counted(r.baseline_ns, r.current_ns)))

printSummary ==
    /\ pc = "summary"
    /\ out' = IF regression_results = <<>> THEN out
              ELSE Append(out, [kind |-> "summary", faster |-> Count(Faster),
                                slower |-> Count(Slower), tied |-> Count(Noise)])
    /\ Goto("json")
    /\ UNCHANGED <<disk, argv, left, baselines, files, table, report>>

\* The reports are skipped without a word when their directory cannot be written.
exportJson ==
    /\ pc = "json"
    /\ json' = IF disk.writable THEN [written |-> TRUE, content |-> regression_results] ELSE json
    /\ Goto("markdown")
    /\ UNCHANGED <<disk, argv, left, baselines, files, table, out, markdown>>

\* What setHeader, printComparisonRow and printSummary added to the buffer.
markdown_buffer == SelectSeq(out, LAMBDA line : line.kind \in {"head", "row", "summary"})

exportMarkdown ==
    /\ pc = "markdown"
    /\ markdown' = IF disk.writable THEN [written |-> TRUE, content |-> markdown_buffer] ELSE markdown
    /\ Return(0)
    /\ UNCHANGED <<disk, argv, left, baselines, files, table, out, json>>

Next ==
    \/ printUsage \/ ReadArguments
    \/ \E f \in left : Visit(f)
    \/ latestBaseline \/ printList \/ SelectMethods \/ printMethods
    \/ Resolve \/ LoadBaseline \/ LoadCurrent \/ applyMethodFilter
    \/ printComparisonRow \/ EndComparison \/ printSummary \/ exportJson \/ exportMarkdown

-----------------------------------------------------------------------------
(* Properties.                                                              *)

\* What entry of a snapshot, if any, measures what key names.
Measured(path, key) == {i \in 1..Len(File(path).entries) : Key(File(path).entries[i]) = key}

\* The entries of the baseline file that the run was asked to compare.
Asked == IF method = <<>> THEN File(baselineFile).entries
         ELSE filterByOperation(File(baselineFile).entries, Named)

\* A written report has one row for every entry the run was asked about, in the
\* order of the baseline, with the baseline's time and the time the current
\* snapshot recorded for the same section, operation and tier (0 when it has
\* none) (printRegression, getCns).
ReportFaithful ==
    json.written =>
        /\ Len(json.content) = Len(Asked)
        /\ \A i \in 1..Len(Asked) :
              LET row == json.content[i]
                  found == Measured(currentFile, Key(Asked[i]))
              IN  /\ row.key = Key(Asked[i]) /\ row.baseline_ns = Asked[i].ns
                  /\ IF found = {} THEN row.current_ns = 0
                     ELSE \A j \in found : row.current_ns = File(currentFile).entries[j].ns

Chosen == {f \in disk.folders : f.name = baselineFile}
NewestChosen == versionCount = 0 /\ pc \in
    {"resolve", "baseline", "current", "filter", "compare", "summary", "json", "markdown"}

\* Semantic versioning: the numbers decide, and a pre-release comes before the
\* release of the same numbers.
Precedence(f) == Append(f.version, IF f.prerelease THEN 0 ELSE 1)

\* Without a tag the comparison is against the newest version there is a folder
\* for: none of this tool's folders has a later semantic version (Baseline is
\* said to be ordered by semantic version so that the newest can be found).
NewestBaseline ==
    NewestChosen => \E f \in Chosen : \A g \in disk.folders :
        Accepts(g) => ~Lexicographic(Precedence(f), Precedence(g))

\* As far as the numbers go, whatever the order in which the directory lists the
\* folders: without a tag no folder of this tool has greater numbers than the
\* one that is compared with, and the listing of the versions shows every one
\* of them once and never goes back in numbers (latestBaseline, printList).
NumbersDecide ==
    /\ NewestChosen => \E f \in Chosen : \A g \in disk.folders :
          Accepts(g) => ~Lexicographic(f.version, g.version)
    /\ LET shown == SelectSeq(out, LAMBDA line : line.kind = "version")
           at(i) == CHOOSE f \in disk.folders : f.name = shown[i].name
       IN  shown # <<>> =>
              /\ Len(shown) = Cardinality({f \in disk.folders : Accepts(f)})
              /\ \A i, j \in 1..Len(shown) : i < j =>
                    shown[i] # shown[j] /\ ~Lexicographic(at(j).version, at(i).version)

\* The method listing shows every operation of a snapshot once, and the [LetterN]
\* id beside each one resolves, against the same snapshot, to that operation
\* (printMethods, groupMethodsByLetter, resolveMethodId).
ListedIdsResolve ==
    \A f \in disk.folders :
        LET listed == {i \in 1..Len(out) : out[i].kind = "method" /\ out[i].path = f.name}
        IN  listed # {} =>
                /\ {out[i].name : i \in listed} = {File(f.name).entries[j].op : j \in 1..Len(File(f.name).entries)}
                /\ \A i, j \in listed : out[i].name = out[j].name => i = j
                /\ \A i \in listed : resolveMethodId(out[i].id, f.name)
                                        = <<[kind |-> "name", name |-> out[i].name]>>

Kind(i) == IF i \in 1..Len(out) THEN out[i].kind ELSE "none"

\* Every row stands in an open table under the header of its own section, a
\* separator stands between two rows of different operations of one table and
\* nowhere else, and a run that succeeds has closed its tables (setHeader,
\* drawGroupSeparatorIfNeeded, endTable).
TableShape ==
    /\ \A i \in 1..Len(out) : Kind(i) = "row" =>
          \E j \in 1..(i - 1) :
              /\ Kind(j) = "head" /\ out[j].section = out[i].section /\ Kind(j - 1) = "top"
              /\ \A k \in (j + 1)..(i - 1) : Kind(k) \in {"middle", "row", "separator"}
    /\ \A i \in 1..Len(out) : Kind(i) = "separator" =>
          Kind(i - 1) = "row" /\ Kind(i + 1) = "row" /\ out[i - 1].op # out[i + 1].op
    /\ Separated => \A i \in 1..Len(out) :
          (Kind(i) = "row" /\ Kind(i + 1) = "row") => out[i].op = out[i + 1].op
    /\ (pc = "done" /\ exit = 0) =>
          \A i \in 1..Len(out) : Kind(i) = "top" =>
              \E j \in i..Len(out) : Kind(j) = "bottom"
                  /\ \A k \in (i + 1)..j : Kind(k) # "top"

\* The recorded comparison that the row on line i shows.
Compared(i) == regression_results[Cardinality({j \in 1..i : Kind(j) = "row"})]

\* A change of eight digits of per cent: the baseline took 100000 times as long.
Extreme(row) == row.current_ns # 0 /\ row.baseline_ns \div row.current_ns >= 100000

\* Every line of a table is as wide, cell by cell, as its borders: a long name in
\* multi-byte characters is cut to its column, and durations, bars and deltas
\* fit theirs, but for the delta of an extreme change, since padCell cuts
\* nothing (truncateCell, padCell, displayWidth).
CellsAligned ==
    \A i \in 1..Len(out) : Kind(i) \in {"head", "row"} =>
        /\ Len(out[i].cells) = Len(Columns)
        /\ \A c \in 1..Len(Columns) :
              \/ out[i].cells[c] = Columns[c]
              \/ Kind(i) = "row" /\ c = Len(Columns) /\ Extreme(Compared(i))

\* A report is only written by a run that succeeds or is about to, and under a
\* method filter only when both snapshots have the method: a run that fails
\* leaves the reports of the run before it (applyMethodFilter, main).
ReportOnlyOnSuccess ==
    json.written \/ markdown.written =>
        /\ exit = 0
        /\ method # <<>> => \A path \in {baselineFile, currentFile} :
              \E i \in 1..Len(File(path).entries) : File(path).entries[i].op = Named

\* What the summary's rows say: the current side wins a comparison when it was
\* measured and took less time (printSummary).
WinsAreMeasured ==
    pc = "done" => \A i \in 1..Len(regression_results) :
        LET row == regression_results[i]
        IN  Faster(row.baseline_ns, row.current_ns) => Measured(currentFile, row.key) # {}
=============================================================================
