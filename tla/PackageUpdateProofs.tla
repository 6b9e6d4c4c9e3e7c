------------------------ MODULE PackageUpdateProofs ------------------------
(***************************************************************************)
(* Proofs about PackageUpdate, for any number of jobs and release tags and *)
(* any CMakeLists.txt: no failure, repetition or overlap of jobs leaves    *)
(* the recipes of a branch naming two releases.                            *)
(***************************************************************************)
EXTENDS PackageUpdate, SequenceTheorems, TLAPS

\* What JobsWhole says of one job.
JobWhole(r) ==
  /\ pc[r] # "idle" => tag[r] \in Tags
  /\ Agrees(base[r])
  /\ \A m \in Matching : Order(m) <= Done(pc[r]) => work[r].recipe[m] = tag[r]

\* A step of job r that leaves the remote and the other jobs alone.
OwnStep(r) ==
  /\ UNCHANGED remote
  /\ \A q \in Runs \ {r} : /\ tag'[q] = tag[q] /\ pc'[q] = pc[q]
                           /\ base'[q] = base[q] /\ work'[q] = work[q]

LEMMA Orders ==
  ASSUME NEW m \in Recipes
  PROVE  /\ Order(m) \in 1..4
         /\ After(m) \in Steps \ {"idle", "pull", "auto"}
         /\ Done(m) = Order(m) - 1
         /\ Done(After(m)) = Order(m)
         /\ \A k \in Recipes : Order(k) = Order(m) => k = m
BY DEF Recipes, Order, After, Done, Steps

LEMMA BranchIsNot == NoBranch \notin [tree : Trees, base : Trees]
BY NoTreeAssumption DEF NoBranch

LEMMA Rewritten ==
  ASSUME NEW texts \in Seq(Texts), texts # <<>>, NEW t \in Tags
  PROVE  BumpProject(texts, t) \in Seq(Texts)
<1> DEFINE e == IF texts[1] = Unversioned THEN Unversioned ELSE t
<1>1. 1 \in 1..Len(texts)
  BY EmptySeq, LenProperties
<1>2. e \in Texts
  BY DEF Texts, Named
<1>3. BumpProject(texts, t) = [texts EXCEPT ![1] = e]
  BY DEF BumpProject
<1> HIDE DEF e
<1> QED BY <1>1, <1>2, <1>3, ExceptSeq

LEMMA ForkWhole == Fork \in Trees /\ Uniform(Fork, Old) /\ Old \in Named
<1>1. Seq({Old, Unversioned}) \subseteq Seq(Texts)
  BY DEF Texts, Named
<1> QED BY <1>1, TagsAssumption, MatchingAssumption DEF Fork, Trees, Named, Uniform

\* Most steps of a job disturb nothing but its own place and working copy.
LEMMA OwnStepWhole ==
  ASSUME IInv, NEW r \in Runs, OwnStep(r), TypeOK', JobWhole(r)',
         pc'[r] \in {"pull", "auto"} => branch[tag'[r]] # NoBranch
  PROVE  IInv'
<1>1. source' = source /\ tip' = tip /\ branch' = branch /\ pull' = pull
  BY DEF OwnStep, remote
<1>2. RecipesAgree' /\ BranchesWhole'
  BY <1>1 DEF IInv, RecipesAgree, BranchesWhole
<1>3. ASSUME NEW q \in Runs PROVE JobWhole(q)'
  <2>1. CASE q = r
    BY <2>1
  <2>2. CASE q # r
    <3>1. JobWhole(q)
      BY DEF IInv, JobsWhole, JobWhole
    <3> QED BY <3>1, <2>2 DEF OwnStep, JobWhole
  <2> QED BY <2>1, <2>2
<1>4. JobsWhole'
  BY <1>3 DEF JobsWhole, JobWhole
<1>5. PushedFirst'
  BY <1>1 DEF IInv, PushedFirst, OwnStep
<1> QED BY <1>2, <1>4, <1>5 DEF IInv

-----------------------------------------------------------------------------
(* The steps of a job                                                       *)

LEMMA StartWhole ==
  ASSUME IInv, NEW r \in Runs, NEW t \in Tags, Start(r, t)
  PROVE  IInv'
<1>1. OwnStep(r) /\ TypeOK'
  BY DEF Start, Goto, OwnStep, IInv, TypeOK, Steps, remote
<1>2. pc'[r] = "checkout" /\ tag'[r] = t /\ Done(pc'[r]) = 0
  BY DEF Start, Goto, IInv, TypeOK, Done, Recipes
<1>3. JobWhole(r)'
  BY <1>2, Orders, MatchingAssumption DEF Start, IInv, JobsWhole, JobWhole
<1> QED BY <1>1, <1>2, <1>3, OwnStepWhole

LEMMA CheckoutWhole ==
  ASSUME IInv, NEW r \in Runs, Checkout(r)
  PROVE  IInv'
<1>1. OwnStep(r) /\ TypeOK'
  BY TagsAssumption DEF Checkout, Goto, OwnStep, IInv, TypeOK, Steps, remote
<1>2. pc'[r] = "cmake" /\ tag'[r] \in Tags /\ base'[r] = tip[Default] /\ Done(pc'[r]) = 0
  BY TagsAssumption DEF Checkout, Goto, IInv, TypeOK, JobsWhole, Done, Recipes
<1>3. JobWhole(r)'
  BY <1>2, TagsAssumption, Orders, MatchingAssumption DEF IInv, RecipesAgree, Agrees, JobWhole
<1> QED BY <1>1, <1>2, <1>3, OwnStepWhole

LEMMA WriteCMakeWhole ==
  ASSUME IInv, NEW r \in Runs, WriteCMake(r)
  PROVE  IInv'
<1>1. /\ pc[r] = "cmake" /\ tag[r] \in Tags
      /\ work[r] \in Trees /\ work[r].cmake \in Seq(Texts)
  BY DEF WriteCMake, IInv, TypeOK, JobsWhole, Trees
<1>2. OwnStep(r)
  BY DEF WriteCMake, Goto, OwnStep, IInv, TypeOK, remote
<1>3. CASE work[r].cmake = <<>>
  <2>1. pc'[r] = "failed" /\ tag'[r] \in Tags /\ base' = base /\ Done(pc'[r]) = 0
    BY <1>1, <1>3 DEF WriteCMake, Goto, IInv, TypeOK, Done, Recipes
  <2>2. TypeOK'
    BY <1>3 DEF WriteCMake, Goto, IInv, TypeOK, Steps, remote
  <2>3. JobWhole(r)'
    BY <2>1, Orders, MatchingAssumption DEF IInv, JobsWhole, JobWhole
  <2> QED BY <1>2, <2>1, <2>2, <2>3, OwnStepWhole
<1>4. CASE work[r].cmake # <<>>
  <2>1. /\ pc'[r] = "conanfile.py" /\ tag'[r] \in Tags /\ base' = base
        /\ Done(pc'[r]) = 0
    BY <1>1, <1>4 DEF WriteCMake, Goto, IInv, TypeOK, Done, Order, Recipes
  <2> DEFINE tree == [work[r] EXCEPT !.cmake = BumpProject(@, tag[r])]
  <2>2. tree \in Trees
    BY <1>1, <1>4, Rewritten DEF Trees
  <2>3. work' = [work EXCEPT ![r] = tree]
    BY <1>4 DEF WriteCMake
  <2> HIDE DEF tree
  <2>4. work' \in [Runs -> Trees]
    BY <2>2, <2>3 DEF IInv, TypeOK
  <2>5. pc' \in [Runs -> Steps]
    BY <1>4 DEF WriteCMake, Goto, IInv, TypeOK, Steps, Recipes
  <2>6. TypeOK'
    BY <1>4, <2>4, <2>5 DEF WriteCMake, IInv, TypeOK, remote
  <2>7. JobWhole(r)'
    BY <2>1, Orders, MatchingAssumption DEF IInv, JobsWhole, JobWhole
  <2> QED BY <1>2, <2>1, <2>6, <2>7, OwnStepWhole
<1> QED BY <1>3, <1>4

LEMMA WriteRecipeWhole ==
  ASSUME IInv, NEW r \in Runs, WriteRecipe(r)
  PROVE  IInv'
<1> DEFINE p == pc[r]
           tree == IF p \in Matching THEN [work[r] EXCEPT !.recipe[p] = tag[r]] ELSE work[r]
<1>1. /\ p \in Recipes /\ tag[r] \in Tags /\ tag[r] \in Named
      /\ work[r] \in Trees /\ work[r].recipe \in [Recipes -> Named]
  BY DEF WriteRecipe, IInv, TypeOK, JobsWhole, Trees, Recipes, Named
<1>2. tree \in Trees
  BY <1>1 DEF Trees
<1>3. /\ \A k \in Recipes \ {p} : tree.recipe[k] = work[r].recipe[k]
      /\ p \in Matching => tree.recipe[p] = tag[r]
  BY <1>1 DEF Trees
<1>4. /\ work' = [work EXCEPT ![r] = tree] /\ pc' = [pc EXCEPT ![r] = After(p)]
      /\ UNCHANGED <<remote, tag, base, faulted>>
  BY DEF WriteRecipe, Goto, IInv, TypeOK
<1> HIDE DEF p, tree
<1>5. /\ After(p) \in Steps \ {"idle", "pull", "auto"}
      /\ Done(After(p)) = Order(p)
  BY <1>1, Orders
<1>6. OwnStep(r) /\ TypeOK'
  BY <1>2, <1>4, <1>5 DEF OwnStep, IInv, TypeOK, remote
<1>7. pc'[r] = After(p) /\ work'[r] = tree /\ tag' = tag /\ base' = base
  BY <1>4 DEF IInv, TypeOK
<1>8. ASSUME NEW k \in Matching, Order(k) <= Order(p)
      PROVE  tree.recipe[k] = tag[r]
  <2>1. CASE k = p
    BY <2>1, <1>3
  <2>2. CASE k # p
    <3>1. Order(k) <= Done(pc[r])
      BY <2>2, <1>1, <1>8, Orders, MatchingAssumption DEF p
    <3>2. work[r].recipe[k] = tag[r]
      BY <3>1 DEF IInv, JobsWhole
    <3> QED BY <3>2, <2>2, <1>3, MatchingAssumption
  <2> QED BY <2>1, <2>2
<1>9. JobWhole(r)'
  BY <1>1, <1>5, <1>7, <1>8 DEF IInv, JobsWhole, JobWhole
<1> QED BY <1>5, <1>6, <1>7, <1>9, OwnStepWhole

LEMMA CommitWhole ==
  ASSUME IInv, NEW r \in Runs, Commit(r)
  PROVE  IInv'
<1>1. OwnStep(r) /\ TypeOK'
  BY DEF Commit, Goto, OwnStep, IInv, TypeOK, Steps, remote
<1>2. pc'[r] \in {"unchanged", "push"} /\ pc[r] = "commit" /\ UNCHANGED <<tag, base, work>>
  BY DEF Commit, Goto, IInv, TypeOK
<1>3. Done(pc'[r]) <= Done(pc[r]) /\ Done(pc'[r]) \in 0..4 /\ Done(pc[r]) = 4
  BY <1>2 DEF Done, Recipes
<1>4. JobWhole(r)'
  BY <1>2, <1>3, Orders, MatchingAssumption DEF IInv, JobsWhole, JobWhole
<1> QED BY <1>1, <1>2, <1>4, OwnStepWhole

LEMMA FaultWhole ==
  ASSUME IInv, NEW r \in Runs, Fault(r)
  PROVE  IInv'
<1>1. OwnStep(r) /\ TypeOK'
  BY DEF Fault, FaultStep, Goto, OwnStep, IInv, TypeOK, Steps, remote
<1>2. pc'[r] = "failed" /\ pc[r] # "idle" /\ UNCHANGED <<tag, base, work>>
  BY DEF Fault, FaultStep, Working, Goto, IInv, TypeOK
<1>3. Done(pc'[r]) = 0
  BY <1>2 DEF Done, Recipes
<1>4. JobWhole(r)'
  BY <1>2, <1>3, Orders, MatchingAssumption DEF IInv, JobsWhole, JobWhole
<1> QED BY <1>1, <1>2, <1>4, OwnStepWhole

-----------------------------------------------------------------------------
(* The steps on the remote                                                  *)

\* Only a working copy whose four recipes were all rewritten is pushed.
LEMMA PushWhole ==
  ASSUME IInv, NEW r \in Runs, Push(r)
  PROVE  IInv'
<1> DEFINE t == tag[r]
           b == [tree |-> work[r], base |-> base[r]]
<1>1. pc[r] = "push" /\ t \in Tags /\ Done("push") = 4
  BY DEF Push, IInv, JobsWhole, Done, Recipes
<1>2. b \in [tree : Trees, base : Trees] /\ b # NoBranch
  BY BranchIsNot DEF IInv, TypeOK
<1>3. Uniform(work[r], t) /\ Agrees(base[r])
  BY <1>1, Orders, MatchingAssumption DEF IInv, JobsWhole, Uniform
<1>4. Uniform(b.tree, t) /\ Agrees(b.base)
  BY <1>3
<1>5. /\ branch' = [branch EXCEPT ![t] = b] /\ pc' = [pc EXCEPT ![r] = "pull"]
      /\ UNCHANGED <<source, tip, pull, auto, tag, base, work, faulted>>
  BY DEF Push, AcceptsPush, Goto
<1> HIDE DEF t, b
<1>6. TypeOK'
  BY <1>1, <1>2, <1>5 DEF IInv, TypeOK, Steps
<1>7. RecipesAgree'
  BY <1>5 DEF IInv, RecipesAgree
<1>8. Done("pull") = 0
  BY DEF Done, Recipes
<1>9. JobsWhole'
  BY <1>1, <1>5, <1>8, Orders, MatchingAssumption DEF IInv, TypeOK, JobsWhole, t
<1>10. /\ branch'[t] = b
       /\ \A u \in Tags \ {t} : branch'[u] = branch[u]
  BY <1>1, <1>5 DEF IInv, TypeOK
<1>11. BranchesWhole'
  BY <1>2, <1>4, <1>5, <1>10 DEF IInv, BranchesWhole
<1>12. PushedFirst'
  BY <1>1, <1>2, <1>5, <1>10 DEF IInv, TypeOK, JobsWhole, PushedFirst, t
<1> QED BY <1>6, <1>7, <1>9, <1>11, <1>12 DEF IInv

LEMMA OfferWhole ==
  ASSUME IInv, NEW r \in Runs, OpenPull(r) \/ EnableMerge(r)
  PROVE  IInv'
<1>1. /\ pc[r] \in {"pull", "auto"} /\ tag[r] \in Tags /\ branch[tag[r]] # NoBranch
      /\ pc'[r] \in {"auto", "offered"}
      /\ \A q \in Runs \ {r} : pc'[q] = pc[q]
      /\ UNCHANGED <<source, tip, branch, tag, base, work, faulted>>
  BY DEF OpenPull, EnableMerge, Goto, IInv, TypeOK, JobsWhole, PushedFirst
<1>2. TypeOK'
  BY <1>1 DEF OpenPull, EnableMerge, Goto, IInv, TypeOK, Steps
<1>3. Done(pc'[r]) = 0
  BY <1>1 DEF Done, Recipes
<1>4. ASSUME NEW q \in Runs PROVE JobWhole(q)'
  <2>1. JobWhole(q)
    BY DEF IInv, JobsWhole, JobWhole
  <2>2. CASE q = r
    BY <1>1, <1>3, <2>1, <2>2, Orders, MatchingAssumption DEF JobWhole
  <2>3. CASE q # r
    BY <1>1, <2>1, <2>3 DEF JobWhole
  <2> QED BY <2>2, <2>3
<1>5. JobsWhole'
  BY <1>4 DEF JobsWhole, JobWhole
<1>6. \A u \in Tags : pull'[u] # "none" => pull[u] # "none" \/ u = tag[r]
  BY DEF OpenPull, EnableMerge, IInv, TypeOK
<1>7. BranchesWhole' /\ RecipesAgree'
  BY <1>1, <1>6 DEF IInv, BranchesWhole, RecipesAgree
<1>8. PushedFirst'
  BY <1>1 DEF IInv, PushedFirst
<1> QED BY <1>2, <1>5, <1>7, <1>8 DEF IInv

\* A merge takes all recipes from one side: each side agrees, and so does the base.
LEMMA MergeWhole ==
  ASSUME IInv, NEW t \in Tags, Merge(t)
  PROVE  IInv'
<1> DEFINE into == source[t]
           ours == tip[into]
           theirs == branch[t].tree
           common == CommonBase(t)
           recipe == [m \in Recipes |->
                        Merged(ours.recipe[m], theirs.recipe[m], common.recipe[m])]
           cmake == Merged(ours.cmake, theirs.cmake, common.cmake)
           tree == [cmake |-> cmake, recipe |-> recipe]
<1>1. into \in Branches /\ ours \in Trees
  BY DEF IInv, TypeOK
<1>2. /\ branch[t] # NoBranch /\ theirs \in Trees /\ branch[t].base \in Trees
      /\ Uniform(theirs, t) /\ \E u \in Named : Uniform(branch[t].base, u)
  BY DEF Merge, IInv, TypeOK, BranchesWhole, Agrees
<1>3. PICK o \in Named : Uniform(ours, o)
  BY <1>1 DEF IInv, RecipesAgree
<1>4. PICK u \in Named : Uniform(common, u)
  BY <1>2, ForkWhole DEF CommonBase
<1>5. /\ tip' = [tip EXCEPT ![into] = tree]
      /\ pull' = [pull EXCEPT ![t] = "merged"] /\ auto' = auto \ {t}
      /\ UNCHANGED <<source, branch, tag, pc, base, work, faulted>>
  BY DEF Merge
<1>6. \A m \in Matching : recipe[m] = (IF t = u THEN o ELSE t)
  BY <1>2, <1>3, <1>4, MatchingAssumption DEF Uniform, Merged
<1>7. recipe \in [Recipes -> Named] /\ cmake \in Seq(Texts)
  BY <1>1, <1>2 DEF Merged, Trees
<1>8. tree \in Trees /\ \A m \in Matching : tree.recipe[m] = (IF t = u THEN o ELSE t)
  BY <1>6, <1>7, MatchingAssumption DEF Trees
<1> HIDE DEF into, ours, theirs, common, recipe, cmake, tree
<1>9. TypeOK'
  BY <1>5, <1>8 DEF IInv, TypeOK
<1>10. Agrees(tree)
  BY <1>3, <1>8 DEF Agrees, Uniform, Named
<1>11. ASSUME NEW b \in Branches PROVE Agrees(tip'[b])
  BY <1>1, <1>5, <1>10 DEF IInv, TypeOK, RecipesAgree, Agrees
<1>12. RecipesAgree'
  BY <1>11 DEF RecipesAgree, Agrees
<1>13. BranchesWhole'
  BY <1>2, <1>5 DEF IInv, TypeOK, BranchesWhole
<1>14. JobsWhole' /\ PushedFirst'
  BY <1>5 DEF IInv, JobsWhole, PushedFirst
<1> QED BY <1>9, <1>12, <1>13, <1>14 DEF IInv

-----------------------------------------------------------------------------
(* The invariant                                                            *)

LEMMA InitWhole == Init => IInv
<1> SUFFICES ASSUME Init PROVE IInv
  OBVIOUS
<1>1. Old \in Named /\ \A c \in Branches : tip[c] = Fork
  BY DEF Init, Named
<1>2. source \in [Tags -> Branches]
  BY TagsAssumption DEF Init
<1>3. TypeOK
  BY <1>2, ForkWhole DEF Init, TypeOK, Steps
<1>4. Done("idle") = 0
  BY DEF Done, Recipes
<1>5. ASSUME NEW r \in Runs PROVE JobWhole(r)
  <2>1. pc[r] = "idle" /\ base[r] = Fork
    BY DEF Init
  <2>2. Agrees(base[r])
    BY <1>1, <2>1, ForkWhole DEF Agrees
  <2> QED BY <2>1, <2>2, <1>4, Orders, MatchingAssumption DEF JobWhole
<1>6. RecipesAgree /\ BranchesWhole /\ PushedFirst
  BY <1>1, ForkWhole DEF Init, RecipesAgree, BranchesWhole, PushedFirst
<1> QED BY <1>3, <1>5, <1>6 DEF IInv, JobsWhole, JobWhole

LEMMA NextWhole == IInv /\ [Next]_vars => IInv'
<1> SUFFICES ASSUME IInv, [Next]_vars PROVE IInv'
  OBVIOUS
<1>1. CASE UNCHANGED vars
  BY <1>1 DEF vars, IInv, TypeOK, RecipesAgree, JobsWhole, BranchesWhole, PushedFirst
<1>2. CASE Next
  BY <1>2, StartWhole, CheckoutWhole, WriteCMakeWhole, WriteRecipeWhole, CommitWhole,
     FaultWhole, PushWhole, OfferWhole, MergeWhole DEF Next, Step
<1> QED BY <1>1, <1>2

\* The type invariant, and what is true of every job and branch at every moment: a
\* branch that is pushed names its tag in all four recipes, and its base one release
\* (update.yml:47-144, update_package_files.py:84-154).
THEOREM Invariant == Spec => []IInv
BY InitWhole, NextWhole, PTL DEF Spec

\* The recipes of every branch name one release, whatever jobs failed, ran at once
\* or were repeated.
THEOREM RecipesAlwaysAgree == Spec => []RecipesAgree
<1>1. IInv => RecipesAgree
  BY DEF IInv
<1> QED BY <1>1, Invariant, PTL
=============================================================================
