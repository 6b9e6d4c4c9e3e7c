---------------------------- MODULE ExampleRunner ----------------------------
(***************************************************************************)
(* The example program: it lists its suites, or runs one of them, those of *)
(* a category, or all, and closes a run of several with a summary.         *)
(***************************************************************************)
EXTENDS SuiteRegistry

VARIABLES todo,      \* the suites still to run
          counted,   \* the category count of the summary, 0 for a single suite
          ran,       \* the suites that ran
          listing,   \* the groups printed by list
          summary    \* the summary box: <<>> or <<[examples, categories]>>

exampleVars == <<todo, counted, ran, listing, summary>>

ExampleInit == todo = <<>> /\ counted = 0 /\ ran = <<>> /\ listing = <<>> /\ summary = <<>>

printUsage ==
    /\ Registered /\ request.kind = "help"
    /\ Return(0)
    /\ UNCHANGED <<registry, category_counters, request, exampleVars>>

printExampleSuiteList ==
    /\ Registered /\ request.kind = "list"
    /\ listing' = Grouped
    /\ Return(0)
    /\ UNCHANGED <<registry, category_counters, request, todo, counted, ran, summary>>

\* The categories of the registry, each counted once.
CategoryCount == Cardinality({registry[i].category : i \in 1..Len(registry)})

printAllExampleSuite ==
    /\ Registered /\ request.kind = "all"
    /\ todo' = registry /\ counted' = CategoryCount
    /\ Goto("run")
    /\ UNCHANGED <<registry, category_counters, request, ran, listing, summary>>

\* The first suite that the request names or identifies runs alone; otherwise all
\* suites of the category; otherwise the request is unknown.
SelectExamples ==
    /\ Registered /\ request.kind = "word"
    /\ LET exact == SelectSeq(registry, IsExact)
           category == SelectSeq(registry, IsCategory)
       IN  IF exact # <<>>
           THEN todo' = <<exact[1]>> /\ UNCHANGED counted /\ Goto("run")
           ELSE IF category # <<>>
           THEN todo' = category /\ counted' = 1 /\ Goto("run")
           ELSE UNCHANGED <<todo, counted>> /\ Return(1)
    /\ UNCHANGED <<registry, category_counters, request, ran, listing, summary>>

\* The header and the body of the next suite.
runSuite ==
    /\ pc = "run" /\ todo # <<>>
    /\ ran' = Append(ran, Head(todo))
    /\ todo' = Tail(todo)
    /\ UNCHANGED <<registry, category_counters, request, pc, exit, counted, listing, summary>>

printRunSummary ==
    /\ pc = "run" /\ todo = <<>>
    /\ summary' = IF counted = 0 THEN <<>>
                  ELSE <<[examples |-> Len(ran), categories |-> counted]>>
    /\ Return(0)
    /\ UNCHANGED <<registry, category_counters, request, todo, counted, ran, listing>>

ExampleNext ==
    \/ \E f \in Files : Register(f) /\ UNCHANGED exampleVars
    \/ printUsage \/ printExampleSuiteList \/ printAllExampleSuite \/ SelectExamples
    \/ runSuite \/ printRunSummary
=============================================================================
