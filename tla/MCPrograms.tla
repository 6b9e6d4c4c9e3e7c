----------------------------- MODULE MCPrograms -----------------------------
EXTENDS Programs, MCSnapshots

MCFiles == {[category |-> "core", stem |-> "bind_it"], [category |-> "core", stem |-> "reset"],
            [category |-> "utility", stem |-> "swap"]}

MCId(c, n) == (IF c = "core" THEN "C" ELSE "U") \o ToString(n)

MCPlain(t) == CASE t = "bind_it" -> "bind it" [] t = "Bind_It" -> "bind it" [] t = "C1" -> "c1"
                [] t = "C2" -> "c2" [] t = "U1" -> "u1" [] t = "CORE" -> "core" [] OTHER -> t

\* The directories of suites have names in small letters.
MCLower(category) == category

MCRequests == {[kind |-> k, word |-> ""] : k \in {"all", "list", "help"}}
               \cup {[kind |-> "word", word |-> w] :
                       w \in {"Bind_It", "swap", "c2", "U1", "CORE", "utility", "c9"}}

Bench3(n, s) == [name |-> n, solo |-> s, tiers |-> <<10000, 100000, 1000000>>]
MCBody(stem) ==
    CASE stem = "bind_it" -> <<Bench3("Fn::bind", FALSE), Bench3("Ref::bind", TRUE), Bench3("Mo::bind", FALSE)>>
      [] stem = "reset" -> <<Bench3("Fn::reset", TRUE), Bench3("Mo::reset", TRUE)>>
      [] OTHER -> <<[Bench3("Fn::swap", FALSE) EXCEPT !.tiers = <<1, 10, 100>>]>>

Rows == {<<n, t>> : n \in {"Fn::bind", "Ref::bind", "Mo::bind", "Fn::reset", "Mo::reset", "Fn::swap"},
                    t \in {1, 10, 100, 10000, 100000, 1000000}}

\* The names of the suites and their operations as triples, and the folder of a
\* baseline that the same suites were recorded for, one operation of which
\* has gone since.
MCNameOf(n) ==
    CASE n = "bind it" -> <<98, 11, 0>> [] n = "reset" -> <<114, 12, 0>> [] n = "swap" -> <<115, 13, 0>>
      [] n = "Fn::bind" -> <<70, 14, 0>> [] n = "Ref::bind" -> <<82, 15, 0>>
      [] n = "Mo::bind" -> <<77, 16, 0>> [] n = "Fn::reset" -> <<70, 17, 0>>
      [] n = "Mo::reset" -> <<77, 18, 0>> [] OTHER -> <<70, 19, 0>>

\* The library slower, equal, a clock too coarse for one side or the other, and a
\* time of its own for every row, faster or slower than the standard's.
MCTimings ==
    {[r \in Rows |-> p] : p \in {[c |-> 2, s |-> 1], [c |-> 2, s |-> 2],
                                  [c |-> 0, s |-> 1], [c |-> 1, s |-> 0]}}
    \cup {[r \in Rows |-> [c |-> 100 * MCNameOf(r[1])[2] + (r[2] % 97), s |-> 1650]]}

Recorded(s, o, i, t) == Entry(MCNameOf(s), MCNameOf(o), i, t)

recorded ==
    Snapshot(<<Recorded("bind it", "Fn::bind", 10000, 2), Recorded("bind it", "Fn::bind", 1000000, 2),
               Recorded("bind it", "Ref::bind", 100000, 1), Entry(MCNameOf("bind it"), call, 10000, 4),
               Recorded("reset", "Mo::reset", 100000, 3), Recorded("swap", "Fn::swap", 1, 2),
               Recorded("swap", "Fn::swap", 100, 1)>>)

vbench == Folder(1, <<10, 0, 0>>, recorded, Absent)

\* With the results of an earlier run, and with none yet.
earlier == Snapshot(<<Recorded("reset", "Mo::reset", 100000, 9), Recorded("bind it", "Fn::bind", 10000, 9)>>)
MCWorkingCopies == {Disk({vbench}, earlier, Absent, TRUE), Disk({vbench}, Absent, Absent, TRUE)}

MCCallsAfter == {<<>>, <<Tag(1), Name(MCNameOf("Fn::swap"))>>}
=============================================================================
