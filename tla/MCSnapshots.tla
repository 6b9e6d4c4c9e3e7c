----------------------------- MODULE MCSnapshots -----------------------------
(***************************************************************************)
(* The file systems and the argument lists that the regression tools are    *)
(* checked on.                                                             *)
(***************************************************************************)
EXTENDS Integers, Sequences

\* Operations and suites: "call", "Copy", a long name of two-byte characters that
\* starts with "P", and two names with a last "_" segment that share a table.
call == <<99, 1, 0>>
copy == <<67, 2, 0>>
long == <<80, 3, 0>>
one == <<66, 4, 1>>
two == <<66, 4, 2>>
suiteA == <<65, 5, 0>>
suiteB == <<66, 6, 0>>

MCSpelling(name) == IF name[2] = 3 THEN [i \in 1..60 |-> IF i % 2 = 1 THEN 2 ELSE 0]
                    ELSE [i \in 1..(4 + name[3]) |-> 1]

Entry(s, o, i, t) == [suite |-> s, op |-> o, iter |-> i, ns |-> t]
Snapshot(es) == [exists |-> TRUE, valid |-> TRUE, entries |-> es]
Absent == [exists |-> FALSE, valid |-> FALSE, entries |-> <<>>]
Garbled == [exists |-> TRUE, valid |-> FALSE, entries |-> <<>>]

\* The snapshots of the custom suite: three tiers' worth of two suites, a second
\* one in which operations are missing and times differ, and an empty one.
full == Snapshot(<<Entry(suiteA, call, 10000, 200), Entry(suiteA, call, 100000, 999996),
                   Entry(suiteA, copy, 10000, 201), Entry(suiteB, copy, 1000000, 5),
                   Entry(suiteB, long, 10000, 0)>>)
part == Snapshot(<<Entry(suiteB, long, 10000, 3), Entry(suiteA, call, 100000, 2000),
                   Entry(suiteA, call, 10000, 201)>>)
none == Snapshot(<<>>)

\* A change that needs eight digits of per cent.
slow == Snapshot(<<Entry(suiteA, call, 10000, 300000), Entry(suiteA, copy, 10000, 300)>>)
quick == Snapshot(<<Entry(suiteA, call, 10000, 1), Entry(suiteA, copy, 10000, 100)>>)

\* The snapshots of the Google suite, in which a table's names need not be together.
gfull == Snapshot(<<Entry(0, one, 7, 100), Entry(0, two, 8, 150), Entry(0, call, 7, 40),
                    Entry(0, copy, 9, 41)>>)
gpart == Snapshot(<<Entry(0, two, 9, 100), Entry(0, call, 7, 1500), Entry(0, one, 5, 101)>>)
gslow == Snapshot(<<Entry(0, call, 7, 300000), Entry(0, one, 7, 300)>>)
gquick == Snapshot(<<Entry(0, call, 7, 1), Entry(0, one, 7, 100)>>)

\* The folders v9.0.0, v10.0.0 (whose name comes before it as text), v10.0.1,
\* v10.0.0-rc1, one that is no version, and a directory of another kind.
Folder(n, ver, c, g) ==
    [name |-> n, v |-> TRUE, version |-> ver, prerelease |-> FALSE, custom |-> c, google |-> g]
v10 == Folder(1, <<10, 0, 0>>, full, gfull)
v10rc == [Folder(2, <<10, 0, 0>>, part, gpart) EXCEPT !.prerelease = TRUE]
v101 == Folder(3, <<10, 0, 1>>, part, Absent)
v9 == Folder(4, <<9, 0, 0>>, part, gpart)
unversioned == Folder(5, <<>>, full, Absent)
other == [Folder(6, <<>>, Absent, Absent) EXCEPT !.v = FALSE]
vempty == Folder(7, <<11, 0, 0>>, Absent, gfull)
vgarbled == Folder(8, <<8, 0, 0>>, Garbled, Garbled)

Disk(fs, c, g, w) == [folders |-> fs, custom |-> c, google |-> g, writable |-> w]

MCDisks ==
    {Disk({v10, v9, other}, part, gpart, TRUE), Disk({v9, v10, v101}, full, gfull, TRUE),
     Disk({v10, v10rc}, full, gpart, FALSE), Disk({v10, unversioned}, full, gfull, TRUE),
     Disk({v10, vempty, vgarbled}, part, gfull, TRUE), Disk({v9, v10}, Absent, Garbled, TRUE),
     Disk({other}, full, gfull, TRUE), Disk({v10}, none, none, TRUE),
     Disk({Folder(4, <<9, 0, 0>>, none, none)}, full, gfull, TRUE),
     Disk({Folder(4, <<9, 0, 0>>, slow, gslow)}, quick, gquick, TRUE)}

Tag(n) == [kind |-> "tag", tag |-> n]
Name(n) == [kind |-> "name", name |-> n]
MethodId(l, i) == [kind |-> "id", letter |-> l, index |-> i]
Word(k) == [kind |-> k]

Methods == {<<>>} \cup {<<Name(n)>> : n \in {call, copy, long, one}}
             \cup {<<MethodId(99, 1)>>, <<MethodId(67, 2)>>, <<MethodId(67, 9)>>, <<MethodId(88, 1)>>, <<MethodId(66, 0)>>}

MCCalls == {<<Word("help")>>, <<Word("list")>>, <<Word("methods")>>,
            <<Word("methods"), Tag(4)>>, <<Word("methods"), Tag(9)>>, <<Word("methods"), Name(call)>>,
            <<Tag(1), Word("list")>>}
           \cup {v \o m : v \in {<<>>, <<Tag(1)>>, <<Tag(4), Tag(1)>>, <<Tag(1), Tag(4)>>}, m \in Methods}
=============================================================================
