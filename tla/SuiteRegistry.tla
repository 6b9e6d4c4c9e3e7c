---------------------------- MODULE SuiteRegistry ----------------------------
(***************************************************************************)
(* The registry of the example program and of the benchmark program: each  *)
(* source file of a suite registers itself during static initialization,   *)
(* in an order the language leaves open between files, and gets an id from *)
(* its directory's first letter and a counter per directory.               *)
(***************************************************************************)
EXTENDS Naturals, Sequences, FiniteSets, SequencesExt

CONSTANTS
    Files,        \* the suites' files: [category, stem]
    Id(_, _),     \* the text of an id: a category's first letter and a number
    Plain(_),     \* a name or a request as it is compared: prettified, in lower case
    Lower(_),     \* a category as it is compared: in lower case
    Requests      \* the command lines: [kind |-> "all", "list", "help" or "word", word]

VARIABLES registry, category_counters, request, pc, exit

\* No suite is called like a category, and no two are called the same.
ASSUME Names == \A f, g \in Files :
                    /\ Plain(f.stem) # Lower(g.category)
                    /\ Plain(f.stem) = Plain(g.stem) => f = g

Categories == {f.category : f \in Files}

RegistryInit ==
    /\ registry = <<>>
    /\ category_counters = [c \in Categories |-> 0]
    /\ request \in Requests
    /\ pc = "static" /\ exit = 0

Return(code) == pc' = "done" /\ exit' = code
Goto(next) == pc' = next /\ exit' = exit

\* The bug to compare with: the number is the length of the run of files of the
\* same directory.
NumberInRun(category) ==
    IF registry # <<>> /\ Last(registry).category = category
    THEN category_counters[category] + 1 ELSE 1

\* The number a new suite of a category gets.
Number(category) == category_counters[category] + 1

\* The registrar of one file.
Register(f) ==
    /\ pc = "static"
    /\ \A i \in 1..Len(registry) : registry[i].name # Plain(f.stem)
    /\ category_counters' = [category_counters EXCEPT ![f.category] = Number(f.category)]
    /\ registry' = Append(registry, [id |-> Id(f.category, Number(f.category)),
                                     category |-> f.category, name |-> Plain(f.stem),
                                     stem |-> f.stem])
    /\ UNCHANGED <<request, pc, exit>>

\* main starts when every file has registered.
Registered == pc = "static" /\ Len(registry) = Cardinality(Files)

IsExact(suite) == Plain(request.word) \in {suite.name, Plain(suite.id)}
IsCategory(suite) == Plain(request.word) = Lower(suite.category)

\* The suites in groups of neighbours of one category, as the list prints them.
Grouped ==
    FoldLeft(LAMBDA groups, s :
                IF groups = <<>> \/ Last(groups)[1].category # s.category
                THEN Append(groups, <<s>>)
                ELSE [groups EXCEPT ![Len(groups)] = Append(@, s)],
             <<>>, registry)

-----------------------------------------------------------------------------
\* Whatever the order of registration, an id belongs to one suite and is, among the
\* suites' ids, the only one that a request for it can mean
\* (ExampleRegistrar, BenchRegistrar, main).
IdsIdentify ==
    \A i, j \in 1..Len(registry) :
        Plain(registry[i].id) \in {Plain(registry[j].id), registry[j].name} => i = j

\* The suites a request asks for: the one it names or whose id it is, otherwise
\* those of the category, in the order of the registry.
Requested ==
    IF request.kind = "all" THEN registry
    ELSE IF request.kind # "word" THEN <<>>
    ELSE IF \E i \in 1..Len(registry) : IsExact(registry[i])
    THEN SelectSeq(registry, IsExact)
    ELSE SelectSeq(registry, IsCategory)
=============================================================================
