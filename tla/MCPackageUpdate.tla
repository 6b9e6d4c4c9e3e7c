-------------------------- MODULE MCPackageUpdate --------------------------
(* PackageUpdate for TLC: the texts of the root CMakeLists.txt.             *)
EXTENDS PackageUpdate, TLC

\* A comment of the file speaks of "project()" (CMakeLists.txt:14), before the call
\* that has the VERSION (CMakeLists.txt:27-31).
MCCMake == <<Unversioned, Old>>

\* Every tag is on the default branch, or some are on a maintenance branch only.
MCSources == [Tags -> Branches]
AllDefault == {[t \in Tags |-> Default]}

\* The recipes of the repository have what the script looks for.
MCMatching == Recipes
=============================================================================
