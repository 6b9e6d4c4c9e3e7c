---------------------------- MODULE PackageUpdate ----------------------------
(***************************************************************************)
(* The update of the package manifests after a release tag: jobs of the    *)
(* workflow check out the default branch, rewrite the manifests one after  *)
(* the other with the update script, commit them to a branch of the tag    *)
(* and open a pull request for it, which merges by itself into the branch  *)
(* that has the tag: the default one if it does.  A job may fail at every  *)
(* step, several may run at once, and any number of jobs may be started    *)
(* for one tag (a re-run, or a dispatch by hand).                          *)
(*                                                                         *)
(* A recipe is the tag whose version and hashes it names.  CMakeLists.txt  *)
(* is the sequence of its "project(...)" texts, comments included: each is *)
(* the tag its VERSION names, or Unversioned.                              *)
(***************************************************************************)
EXTENDS Naturals, Sequences

CONSTANTS
    Runs,         \* the workflow's jobs
    Tags,         \* the release tags
    Branches,     \* the branches on the remote, but for those of the jobs
    Default,      \* the default one
    Sources,      \* which branch may have which tag: functions of Tags to Branches
    Old,          \* the release the manifests name in the beginning
    Unversioned,  \* a "project()" that has no VERSION
    NoTag, NoTree,
    CMake,        \* the "project(...)" texts of the root CMakeLists.txt
    Matching      \* the recipes in which the script finds what it rewrites

Named == Tags \cup {Old}
Texts == Named \cup {Unversioned}

ASSUME TagsAssumption ==
    /\ Old \notin Tags /\ Unversioned \notin Named /\ NoTag \notin Tags
    /\ CMake \in Seq({Old, Unversioned})
    /\ Default \in Branches /\ Sources \subseteq [Tags -> Branches]

Recipes == {"conanfile.py", "conandata.yml", "portfile.cmake", "vcpkg.json"}

\* The other two are written anew, or as a field of the parsed file.
ASSUME MatchingAssumption ==
    /\ Matching \subseteq Recipes
    /\ {"conandata.yml", "vcpkg.json"} \subseteq Matching

Trees == [cmake : Seq(Texts), recipe : [Recipes -> Named]]

ASSUME NoTreeAssumption == NoTree \notin Trees

VARIABLES
    source,    \* the branch that has each tag
    tip,       \* the branches
    branch,    \* the tags' update branches on the remote: [tree, base]
    pull,      \* their pull requests
    auto,      \* the tags whose pull request merges by itself
    tag, pc,   \* each job's tag and next step
    base,      \* the tree a job checked out
    work,      \* the tree it works on
    faulted    \* the jobs that met a fault of their own

vars == <<source, tip, branch, pull, auto, tag, pc, base, work, faulted>>
remote == <<source, tip, branch, pull, auto>>

NoBranch == [tree |-> NoTree, base |-> NoTree]

\* The manifests where the branches part.
Fork == [cmake |-> CMake, recipe |-> [m \in Recipes |-> Old]]

Init ==
    /\ source \in Sources
    /\ tip = [b \in Branches |-> Fork]
    /\ branch = [t \in Tags |-> NoBranch]
    /\ pull = [t \in Tags |-> "none"] /\ auto = {}
    /\ tag = [r \in Runs |-> NoTag] /\ pc = [r \in Runs |-> "idle"]
    /\ base = [r \in Runs |-> Fork] /\ work = [r \in Runs |-> Fork]
    /\ faulted = {}

Goto(r, next) == pc' = [pc EXCEPT ![r] = next]

-----------------------------------------------------------------------------
(* The steps of a job.                                                      *)

\* A tag is pushed, or a job for it is started by hand.
Start(r, t) ==
    /\ pc[r] = "idle"
    /\ tag' = [tag EXCEPT ![r] = t]
    /\ Goto(r, "checkout")
    /\ UNCHANGED <<remote, base, work, faulted>>

\* The default branch is checked out, whichever branch has the tag.
Checkout(r) ==
    /\ pc[r] = "checkout"
    /\ base' = [base EXCEPT ![r] = tip[Default]] /\ work' = [work EXCEPT ![r] = tip[Default]]
    /\ Goto(r, "cmake")
    /\ UNCHANGED <<remote, tag, faulted>>

\* The first "project(...)" of the text is the one that is rewritten, and only the
\* VERSION in it.
BumpProject(texts, t) ==
    [texts EXCEPT ![1] = IF @ = Unversioned THEN Unversioned ELSE t]

\* The script gives up when there is none.
WriteCMake(r) ==
    /\ pc[r] = "cmake"
    /\ IF work[r].cmake = <<>>
       THEN Goto(r, "failed") /\ faulted' = faulted \cup {r} /\ UNCHANGED work
       ELSE /\ work' = [work EXCEPT ![r].cmake = BumpProject(@, tag[r])]
            /\ Goto(r, "conanfile.py") /\ UNCHANGED faulted
    /\ UNCHANGED <<remote, tag, base>>

\* The step after the rewriting of a recipe.
After(m) == CASE m = "conanfile.py" -> "conandata.yml"
              [] m = "conandata.yml" -> "portfile.cmake"
              [] m = "portfile.cmake" -> "vcpkg.json"
              [] m = "vcpkg.json" -> "commit"

\* The next recipe is rewritten in place: the version, and the hash with it.  One
\* in which nothing matches stays as it is, without an error.
WriteRecipe(r) ==
    /\ pc[r] \in Recipes
    /\ work' = IF pc[r] \in Matching THEN [work EXCEPT ![r].recipe[pc[r]] = tag[r]] ELSE work
    /\ Goto(r, After(pc[r]))
    /\ UNCHANGED <<remote, tag, base, faulted>>

\* The commit is made on a fresh branch of the job's own clone; without a
\* difference the job ends well.
Commit(r) ==
    /\ pc[r] = "commit"
    /\ Goto(r, IF work[r] = base[r] THEN "unchanged" ELSE "push")
    /\ UNCHANGED <<remote, tag, base, work, faulted>>

\* The bug to compare with: a branch that an earlier job left refuses the push.
AcceptsPushUnforced(t) == branch[t] = NoBranch

\* The push is forced: a branch that is there already is replaced.
AcceptsPush(t) == TRUE

Push(r) ==
    /\ pc[r] = "push"
    /\ IF AcceptsPush(tag[r])
       THEN /\ branch' = [branch EXCEPT ![tag[r]] = [tree |-> work[r], base |-> base[r]]]
            /\ Goto(r, "pull")
       ELSE UNCHANGED branch /\ Goto(r, "failed")
    /\ UNCHANGED <<source, tip, pull, auto, tag, base, work, faulted>>

\* A pull request into the branch that has the tag is opened unless one is open.
OpenPull(r) ==
    /\ pc[r] = "pull"
    /\ pull' = [pull EXCEPT ![tag[r]] = "open"]
    /\ auto' = IF pull[tag[r]] = "open" THEN auto ELSE auto \ {tag[r]}
    /\ Goto(r, "auto")
    /\ UNCHANGED <<source, tip, branch, tag, base, work, faulted>>

EnableMerge(r) ==
    /\ pc[r] = "auto"
    /\ auto' = IF pull[tag[r]] = "open" THEN auto \cup {tag[r]} ELSE auto
    /\ Goto(r, "offered")
    /\ UNCHANGED <<source, tip, branch, pull, tag, base, work, faulted>>

Working(r) == pc[r] \notin {"idle", "failed", "unchanged", "offered"}

\* The bug to compare with: the job goes on to the commit after the script fails.
FaultStepIgnored(r) == IF pc[r] \in Recipes THEN "commit" ELSE "failed"

\* Where a fault takes a job.
FaultStep(r) == "failed"

\* A step fails (the archive is missing, a file cannot be read, parsed or written,
\* the network is down, the job is cancelled): the job ends there, with what it
\* has written so far.
Fault(r) ==
    /\ Working(r)
    /\ faulted' = faulted \cup {r}
    /\ Goto(r, FaultStep(r))
    /\ UNCHANGED <<remote, tag, base, work>>

-----------------------------------------------------------------------------
(* GitHub merges a pull request when the two sides agree on every file that  *)
(* both have changed since their last common commit: the one the job has    *)
(* checked out, or where the default branch and another one part.           *)

Merges(ours, theirs, common) == theirs = common \/ ours = common \/ ours = theirs

Merged(ours, theirs, common) == IF theirs = common THEN ours ELSE theirs

CommonBase(t) == IF source[t] = Default THEN branch[t].base ELSE Fork

Merge(t) ==
    /\ pull[t] = "open" /\ t \in auto
    /\ LET ours == tip[source[t]]
           theirs == branch[t].tree
           common == CommonBase(t)
       IN  /\ Merges(ours.cmake, theirs.cmake, common.cmake)
           /\ \A m \in Recipes : Merges(ours.recipe[m], theirs.recipe[m], common.recipe[m])
           /\ tip' = [tip EXCEPT ![source[t]] =
                  [cmake |-> Merged(ours.cmake, theirs.cmake, common.cmake),
                   recipe |-> [m \in Recipes |->
                       Merged(ours.recipe[m], theirs.recipe[m], common.recipe[m])]]]
    /\ pull' = [pull EXCEPT ![t] = "merged"]
    /\ auto' = auto \ {t}
    /\ UNCHANGED <<source, branch, tag, pc, base, work, faulted>>

-----------------------------------------------------------------------------
Step(r) ==
    \/ Checkout(r) \/ WriteCMake(r) \/ WriteRecipe(r)
    \/ Commit(r) \/ Push(r) \/ OpenPull(r) \/ EnableMerge(r)

Next ==
    \/ \E r \in Runs : (\E t \in Tags : Start(r, t)) \/ Step(r) \/ Fault(r)
    \/ \E t \in Tags : Merge(t)

\* The runner carries out the next step of every job it has started.
Spec == Init /\ [][Next]_vars /\ \A r \in Runs : WF_vars(Step(r))

-----------------------------------------------------------------------------
(* Properties.                                                              *)

Uniform(tree, t) == \A m \in Matching : tree.recipe[m] = t

\* The recipes of a branch name one release (all four, as what the script looks for
\* is in the repository's), whatever jobs failed, ran at once or were repeated: a
\* package manager never finds the version of one release with the hash of
\* another (update.yml, update_package_files.py).
RecipesAgree == \A b \in Branches : \E t \in Named : Uniform(tip[b], t)

\* A job that meets no fault of its own ends with its tag's update offered: there is
\* a pull request for it, or there was nothing to change.  What an earlier job
\* left behind, a branch without a pull request or an open one, does not stop it
\* (update.yml:119-142).
FaultlessJobsOffer ==
    \A r \in Runs : pc[r] = "checkout" ~>
        r \in faulted \/ pc[r] = "unchanged" \/ (tag[r] # NoTag /\ pull[tag[r]] # "none")

\* update.yml:3-4: the job bumps the version in the Conan recipe, the vcpkg port and
\* the root CMakeLists.txt, so that they name one release on the default branch.
CMakeFollows ==
    \E t \in Named : /\ Uniform(tip[Default], t)
                     /\ \A i \in 1..Len(tip[Default].cmake) :
                           tip[Default].cmake[i] \in {t, Unversioned}

(***************************************************************************)
(* The inductive invariant: a tree that a job has checked out or that is   *)
(* the base of a branch agrees on one release, the recipes before the next *)
(* one to be rewritten name the job's tag, and a branch names its own tag.  *)
(***************************************************************************)
Agrees(tree) == \E t \in Named : Uniform(tree, t)

Order(m) == CASE m = "conanfile.py" -> 1 [] m = "conandata.yml" -> 2
              [] m = "portfile.cmake" -> 3 [] m = "vcpkg.json" -> 4

\* How many recipes a job at a step has rewritten.
Done(step) == IF step \in Recipes THEN Order(step) - 1
              ELSE IF step \in {"commit", "push"} THEN 4 ELSE 0

Steps == {"idle", "checkout", "cmake", "commit", "push", "pull", "auto",
          "failed", "unchanged", "offered"} \cup Recipes

TypeOK ==
    /\ source \in [Tags -> Branches] /\ tip \in [Branches -> Trees]
    /\ branch \in [Tags -> [tree : Trees, base : Trees] \cup {NoBranch}]
    /\ pull \in [Tags -> {"none", "open", "merged"}]
    /\ auto \subseteq Tags /\ faulted \subseteq Runs
    /\ tag \in [Runs -> Tags \cup {NoTag}] /\ pc \in [Runs -> Steps]
    /\ base \in [Runs -> Trees] /\ work \in [Runs -> Trees]

\* The files a job writes and pushes (update_package_files.py, git add).
JobsWhole ==
    \A r \in Runs :
        /\ pc[r] # "idle" => tag[r] \in Tags
        /\ Agrees(base[r])
        /\ \A m \in Matching : Order(m) <= Done(pc[r]) => work[r].recipe[m] = tag[r]

\* The branches a pull request may be open for.
BranchesWhole ==
    \A t \in Tags :
        /\ branch[t] # NoBranch => Uniform(branch[t].tree, t) /\ Agrees(branch[t].base)
        /\ pull[t] # "none" => branch[t] # NoBranch

\* A job opens a pull request only after it has pushed the branch.
PushedFirst == \A r \in Runs : pc[r] \in {"pull", "auto"} => branch[tag[r]] # NoBranch

IInv == TypeOK /\ RecipesAgree /\ JobsWhole /\ BranchesWhole /\ PushedFirst
=============================================================================
