# A verification of FunctionPro

FunctionPro is a header-only C++ library of callable wrappers: `Function`
(copyable), `MoveOnlyFunction` and `FunctionRef` (non-owning). Around it are two
tools that compare benchmark results, the runners of the benchmarks and the
examples, three fuzz harnesses, and a script with a workflow that updates the
package manifests after a release. This directory holds TLA+ models of all of
them, TLC configurations that check them on small instances, and proofs for
TLAPS. Paths below are relative to `src/`; `tpp:n` is a line of
`include/FunctionPro/Function.tpp`.

## 1. The system

| Part | State | Operations | Interacts with |
|---|---|---|---|
| `Detail/CallableStorage.h` | a union of a 40-byte buffer (64-bit) and a heap pointer; nothing says which is active | `inlineSlot`, `heapSlot` | is the storage of `Function` and `MoveOnlyFunction`, and the local `tmp` of copy assignment and of swap |
| `Detail/SBOTraits.h`, `VTable.h`, `VTableFactory.h` | none; one constant vtable per callable type | `invoke`, `copy` (may throw), `move`, `destroy` (both noexcept) | run the constructors, the destructor and `operator()` of the stored callable, which is user code |
| `Function` | `vtable_`, `storage_` | 5 constructors, destructor, 2 assignments, call, `reset`, `swap`, `bool`, `==` | calls the vtable; no locks, no atomics |
| `MoveOnlyFunction` | the same | the same without copies; its call is not const | the same |
| `FunctionRef` | a pointer and an invoker | bind, copy, call, `bool`, `==` | points to a callable it does not own |
| `regression/` (custom and google) | the snapshots under `benchmarks/baselines`, the rows of a comparison, the table being printed, two reports | list, methods, compare | reads what `benchmarks/` writes |
| `benchmarks/custom`, `examples` (runners) | a registry filled by static constructors; the open table, the tally, the recorded results | list, run by name, id or category, summary, export | call the suites; the export is the regression tool's live side |
| `scripts/update_package_files.py`, `.github/workflows/update.yml` | five manifests, a branch and a pull request for every tag | checkout, five rewrites, commit, forced push, pull request, automatic merge | several jobs share the remote repository |
| `fuzz/` | two wrappers or one reference, and an oracle beside each | one library operation for each input byte, and its check | the library |

What is hard in it:

- **The union has no discriminant.** Every cast in `VTableFactory` is right only
  if `vtable_` and `storage_` agree. They disagree inside every operation: between
  a clone and its move, between `destroy` and `vtable_ = nullptr` (tpp:154-155),
  between the three moves of a swap (tpp:181-183).
- **User code runs at these points.** A copy constructor may throw (tpp:69, 86),
  any of it takes time, other threads run meanwhile, and it may use the very
  Functions that are being operated on.
- **Ownership is by pointer for large callables and by value for small ones**, and
  swaps and assignments mix both.
- **There is no synchronisation.** What threads may do together is a rule for the
  client; `operator() const` invites sharing, but the callable it runs is not const.
- **A FunctionRef owns nothing**: its callable may die, and may rebind or destroy
  the FunctionRef it is called through.
- **Orders nobody chose**: of directory entries (baselines), of static constructors
  (registries), of update jobs. Results must not depend on them.
- **Partial results**: a run that fails half way, a snapshot without an operation,
  a script that stops between two manifests, a job repeated over what an earlier
  one left on the remote.

`Function` is correct if it never touches a callable that is not there or is of
another type, if every callable has one owner and none is lost, if pointers of a
callable into itself survive moves, and if to its user it is a variable that
holds a callable by value, with the strong guarantee of copy assignment.
`FunctionRef` is correct if a call runs what was bound, as it was bound, while
that lives. The regression tools are correct if they choose the newest version
and attribute every difference to the right entry, the runners if exactly what
was asked for runs and is counted once, the updater if all manifests name one
release, and a fuzz harness if it raises no false alarm.

## 2. Modules

| Module | Contents |
|---|---|
| `CallableStorage` | storages, heap cells, `fits`, and the vtable operations as updates of the memory |
| `Function` | the operations of `Function` as steps of threads; the safety properties |
| `FunctionInvariant`, `FunctionProofs` | the inductive invariant `IInv`; the theorems about `Function` |
| `FunctionValues` | the abstract specification: variables that hold callables by value |
| `FunctionRefinement`, `FunctionRefinementProofs` | the mapping from `Function` to `FunctionValues`; that `Function` implements it |
| `ReentrantFunction` | callables that use Functions of their own thread; its own mapping to `FunctionValues` |
| `ReentrantInvariant`, `ReentrantProofs` | its inductive invariants `NestedInv` and `NestedValuesInv`; its theorems about memory |
| `ReentrantRefinementProofs` | that nested operations implement `FunctionValues` |
| `MoveOnlyFunction`, `MoveOnlyProofs` | the operations of `MoveOnlyFunction`, made of `Function`'s actions; that it implements `Function`, races on nothing and copies nothing |
| `FunctionRef`, `FunctionRefProofs` | references, the client's objects, nested calls; the theorems of `FunctionRef`, of its fuzz harness and of the two as clients |
| `FuzzOwning`, `FuzzInvariant`, `FuzzProofs` | the fuzz harnesses of the two owning wrappers, over `Function`; their inductive invariant `FuzzInv`; their theorems |
| `FuzzFunctionRef` | the fuzz harness of `FunctionRef`, with its invariant `HarnessInv` |
| `FunctionRefClients` | `FunctionRef` with either any client or this harness, for the run |
| `RegressionText` | the widths of what the regression tools print, and when a difference is noise |
| `RegressionTool` | one run of a regression tool, with the differences between the two as constant operators |
| `CustomRegression`, `GoogleRegression`, `Regression` | its two instances, and a run of either |
| `SuiteRegistry` | suites registered by static constructors, ids, and what a request matches |
| `ExampleRunner`, `BenchRunner` | the two programs over it |
| `Programs` | the programs a developer runs over one working copy: a runner, a regression tool, or the benchmark program and then the comparison of what it exported |
| `PackageUpdate`, `PackageUpdateProofs` | the update jobs and the remote; their theorems |
| `MC...` | constants for TLC: sizes, snapshots and argument lists (`MCSnapshots`), suites, tags |

### Function: state

`mem.obj[l]` is the callable at location `l`: a slot (inline) or a heap cell.
It has a type, a value (its captured state), the address an internal pointer of
it refers to (`self`), and a phase of life: its constructor is running (`raw`), it
is `live`, its destructor is running (`dying`). `mem.ptr[s]` is the union's heap
pointer of slot `s`, `Junk` once the buffer was written. A slot is the `storage_`
of a Function, or a thread's local `tmp`. `vt[w]` is `vtable_`, and `alive` tells
where a Function object exists. `act[a]` is the point thread `a` has reached in
its operation. `defined` becomes FALSE when an operation does what C++ leaves
undefined: it calls, moves or destroys a callable that is not live and of the
vtable's type, or constructs over one.

### Function: steps

A step is the library's code from the return of one call into the callable's code
to the entry of the next one. Nothing else can be told apart: a copy assignment
that replaces an inline callable by another is `CopyAssign` (guards, `copy`
entered), `FinishBuild` (`copy` returns, `reset` enters the old destructor),
`FinishKill` (`vtable_ = nullptr`, `move` entered), `StepMove` (the move
constructor is done, the destructor of the source is entered), `FinishRetire`
(destructor done, `vtable_ = other.vtable_`). `ThrowBuild` takes the place of
`FinishBuild` when a constructor throws. Between any two of them other threads
run.

| Code | Actions |
|---|---|
| `Function()`, `Function(nullptr)` | `DefaultConstruct` |
| `Function(T&&)` tpp:41 | `Construct`, then `FinishBuild` or `ThrowBuild` |
| `Function(const Function&)` tpp:61 | `CopyConstruct`, then the same |
| `operator=(const Function&)` tpp:75 | `CopyAssign` and the chain above |
| `Function(Function&&)`, `operator=(Function&&)` tpp:100, 111 | `MoveConstruct`, `MoveAssign` |
| `swap` tpp:159 and the free `swap` | `Swap`, then up to three `StepMove` (`AfterMove` says what comes next) |
| `reset`, `~Function` tpp:150, 56 | `Reset`, `Destroy`, then `FinishKill` |
| `operator()` tpp:132 | `Call`, `FinishCall` |

Assignments of a new callable or of `nullptr` are, in the code too, the
construction of a temporary, a move assignment and a destruction. Operations that
change nothing are stutters and have no action: calling an empty Function
(`bad_function_call`), `new` without memory (`bad_alloc`), `reset` of an empty
Function, self-assignment and self-swap. `bool`, `==` and `!=` read `vtable_`.

`MoveOnlyFunction.tpp` repeats these bodies line by line without the two copies,
so the module takes the actions over. What differs is the client's rule: its
`operator()` is not const, and `MoveOnlyCall` needs the object for itself even
when the callable does not change.

Definitions whose comment begins with "Mutant" or "The bug to compare with" are not used by the models. Each is
a wrong version of the definition below it, a guard, a reset or a store left out,
and `PROJECT.json` says which property it violates in which run.

### Function: the client

`Begin` lets a thread start an operation that changes a Function only when no
other thread uses it, and one that reads it when no other changes it: the rule of
every standard container. A call changes its Function if the callable changes
itself. That last clause is what `ShareCalls = TRUE` removes: then a call counts
as a read because `operator()` is const. No action after `Begin` looks at the
other threads. A callable's own code may use other Functions under the same rule;
what it then does is what another thread does at the same point, so the
interleaving covers it.

### Calls back into the same thread

`ReentrantFunction` keeps a `stack` of operations in progress: the innermost
callable's code may begin another one at each of its own points (constructor,
move, destructor, `operator()`). It uses the threads of `Function` as levels, so
that every action is `Function`'s own. `Between`, `Pinned` and `Awaited` state what
such code may not touch, and they are as weak as the code allows. While a copy
is being made, the target may be emptied, refilled and swapped, because the code
looks at `vtable_` only afterwards (tpp:85-89). While the old callable of a move
assignment is destroyed, the source may change, because `other.vtable_` is read
after `reset()` (tpp:114-121). While `reset()` runs a destructor, its Function may
not be used at all, since `vtable_` is cleared after it (tpp:154-155); and a
callable may not destroy itself while it runs (tpp:138).

### FunctionRef

`ref[r]` is `ptr_` and the lambda's kind (`function`, `object`, `const`). `calls` is
the stack of calls in progress, each with the copy of `ptr_` it was entered with.
`meant[r]` is history: what the client bound, `Dangling` once that died. The
client may do anything but call through a FunctionRef whose callable died or is a
null function pointer, or destroy an object that is running. A dead object's
address may be used for a new one.

### Fuzz harnesses

`FuzzOwning` turns each byte of the input into tasks: the library operations the
case performs and the checks it makes, in its order, and the new value of the
oracle. Tasks run to completion, one after the other, as `Function`'s actions
under one thread. A `std::function` that was moved from is `Unspecified`, which is
why the harness assigns `nullptr` to it. `HasWork` says which tasks change
something: not those of a wrapper with itself or of empty ones, for which
`Function` has no action (above). A task with work that cannot be done is one
whose `new` finds no memory; the exception leaves the harness, which ends.
`FuzzFunctionRef` puts the operations of its harness on `FunctionRef`'s actions
in the same way. `FuzzSpec` and `FuzzRefSpec` are two programs and two specifications.

### Regression tools

The variables are the file system a run finds (`disk`), its arguments, the place
in the program, what it has loaded, what it has printed (`out`: table lines with
the width of every cell, not their text) and the two reports. `Visit` takes
directory entries in any order. Each exception is `Return(1)` at the place where it
is thrown. A name is a triple (first character, spelling, last `_` segment), which
is all that grouping, comparing and cutting of names tell apart; a version tag is
known by the rank of its spelling; `prerelease` is the suffix that `parseBaseline`
drops. Times are whole nanoseconds below 2 000 000, because TLC's integers have 32
bits; that is enough for a percentage of eight digits, which is wider than its
column. The two tools differ in their tables too: the column of names has 26
characters in the custom tool and 32 in the google one.

### Runners

`Register(f)` happens for the files in any order. A request is a list, help,
everything, or a word, which is compared without case with names, ids and
categories. `ExampleRunner` selects first and then runs; `BenchRunner` scans the
registry and runs what matches, as its `main` does. A name is compared by its
prettified spelling (`Plain`), a category in small letters only (`Lower`). A tier
of a benchmark is one step: its time is any of `Timings`. The export may come to
nothing without an error, when the file cannot be opened.

`Programs` puts the runners and the regression tools over one `disk`. What the
benchmark program exports (`Exported`) becomes the results of the working copy,
which may hold those of an earlier run, and `StartComparison` starts the custom
regression tool on them.

### Update jobs

A job's steps are those of the workflow: `Checkout`, `WriteCMake`, four times
`WriteRecipe`, `Commit`, `Push`, `OpenPull`, `EnableMerge`. `Fault` may end a job
before any of them. A job checks out the default branch, but its pull request is
for the branch that has the tag, `source[t]`, which is the default one if that has
it. `WriteRecipe` changes nothing, without an error, in a recipe outside `Matching`:
one in which the script does not find what it rewrites. (The version and the
hash of a recipe are one value; a portfile in which the script finds one of
them only is not modelled.) `Merge` is GitHub's: a pull request with auto-merge merges, at
any time, when git's three-way merge has no conflict in any file; the common ancestor
is what the job checked out or, for another branch, where the branches part (`Fork`). `Start` may pick
any tag, any number of times. CMakeLists.txt is the list of its texts that look
like `project(...)`, comments included, of which the script rewrites the first.

## 3. What TLC checks

| Run | Bounds | Question |
|---|---|---|
| `threads` | 2 threads, 3 Functions, 3 types, 3 cells, values 0..1 | can any history of operations, overlapping or not, leak, double-delete, confuse types, overflow the buffer, or race? |
| `refinement` | 2 threads, 2 Functions, 2 types, 4 cells | does `Function` behave as a value? |
| `reentrant` | 3 levels, 2 Functions, 2 types, 3 cells | the same, when callables use Functions of their own thread |
| `move_only` | 2 threads, 3 MoveOnlyFunctions, 2 types, 3 cells, `ShareCalls` | is a callable ever duplicated, or run by two threads? |
| `shared_call` | as `threads`, with `ShareCalls` | violated, see section 5 |
| `function_ref` | 2 FunctionRefs (the harness: a temporary too), 2 functions, 1 variable, 2 objects (1 const), values 1..3, 2 nested calls | does a call run what was bound, as it was bound? can an input make the third harness abort, or a call of it reach another callable? |
| `fuzz` | the two owning harnesses' own wrappers and callables, a callable counts to 2, 4 cells | can an input of any length make a harness abort, disagree with its oracle, or leak? |
| `programs` | both runners, every order of registration, every request; after the benchmarks a comparison, in 2 working copies; both regression tools alone, 10 file systems, 47 argument lists | are the suites asked for run and identified, is what was measured what is compared, are rows, tables and reports right, and does a failed run leave no report? |
| `missing_operation`, `pre_release` | both regression tools alone, the same | violated, see section 5 |
| `package_update` | 3 jobs, 2 tags, 2 branches, a fault at any step | do the recipes of a branch agree, and does a job end with its update offered? |
| `cmake_version` | 1 job, 1 tag | violated, see section 5 |

`Defined`, `Ownership`, `NoLeak`, `OwnAddress` and `BufferHolds` are conjunctions
about every state, those inside an operation too; `Kept(s)` is who holds what
while storages and vtables disagree. `IInv` implies all of them; that TLC checks
it as well is what makes the proofs worth starting.
`NestedValuesInv` (which contains `NestedInv`, and so `Defined`), `FuzzInv` and
`HarnessInv` (which `HarnessKnows` claims of the harness only) are the other inductive
invariants, checked for the same reason.
`BehavesAsValues` is the refinement: it says that a copy is independent of its
source, that a move empties its source, that an assignment whose copy throws
leaves its target as it was, and that an operation takes effect at once and never
half. `OperationsEnd` says that it ends. `CopiesItsSource` is what the refinement
needs of a copy in progress: nobody changes the source until the copy constructor
has returned. `ImplementsNested` says what `BehavesAsValues` does of operations within
operations, with one difference: a move assignment takes effect when the old callable
is gone, since its destructor may still use the source. `NestedOperationsEnd` says that
they end.
`NeverCopied` is an action property: the number of slots that hold a callable of
a type grows only when the construction of one from the client's callable ends.
`RunsWhatWasBound` and `ChangesAsBound` compare what a FunctionRef does with what
the client meant. `OracleAgrees` compares, between two bytes of a fuzz input,
each wrapper's callable with its oracle, which the harness itself can only do by
calling both. `ReportFaithful` recomputes the rows from the two snapshots,
`NumbersDecide` the maximum from the directory as far as the three numbers go (that
pre-releases come before their release is `NewestBaseline`, which fails), and
`ListedIdsResolve` feeds each id of a listing back to the lookup. `TableShape`,
`CellsAligned` and `BenchTables` are grammars of the printed lines; `CellsAligned`
exempts the delta of a change by a factor of 100 000, since `padCell` shortens
nothing. `ComparesWhatRan` follows a time from the measurement through the exported
file to the row of the comparison: the row has the time just measured for its
suite, operation and tier, or 0 when that did not run, and never one of an earlier
run. `RecipesAgree` says of every branch that its four recipes name one release;
`FaultlessJobsOffer` is liveness.

Why the bounds are enough. Three types fill the buffer to the byte (40), exceed
it by one (41), and fit by size but not by alignment (16 bytes aligned to 16), so
each pair of an inline and a heap callable meets in swaps and assignments. Three
cells for three Functions and a `tmp` make `new` run out. Two values tell a
copy's state from its source's. Three Functions and two threads allow two
operations that share a source, and one that is alone. The refinement run has no
symmetry (it checks liveness) and a cell for every storage, so that an operation
in it fails only when a constructor throws. Three levels put an operation
into one that is itself inside another, with two Functions to fight about. Two
FunctionRefs allow a copy whose source is rebound or destroyed while the copy is
called, and two nested calls a callable that calls again what it has rebound. The file systems of `programs`
hold a version that is newer but smaller as text (v10.0.0 and v9.0.0), a
pre-release, a folder that does not parse, snapshots that are missing, garbled or
empty, a directory that cannot be written, entries that are missing on one
side, times at the limits of noise and of units, and a time 300 000 times another.
Its suites have two categories, and benchmarks of both kinds, with several tiers,
in one suite; one of the timings gives every row a time of its own, so that
a row with another row's time is seen. The benchmark program finds the results of an
earlier run, or none, and a baseline with entries it does not measure. Three jobs
for two tags allow a repetition while another tag is merged, each tag on the
default branch or on another. The
theorems cover other values of the constants where there is one.

`CHECK_DEADLOCK FALSE` stands in the runs of programs that end: `fuzz`,
`programs`, `package_update`, `missing_operation`, `pre_release` and `cmake_version`.

Fairness: `WF_vars(Continue(a))` for every thread of `Function`. The library has no
loop and waits for nothing, so an operation ends if the callable's code returns;
that is the assumption. `ReentrantFunction` needs `SF` for the same: code that
begins operations again and again disables the end of the one it is in, each time
for a while, and the assumption is that it does so finitely often.
`PackageUpdate` has `WF_vars(Step(r))`: the runner executes the next step of a job
it has started; nothing is assumed of merges, of starts, or of faults.

## 4. What is proved

`FunctionProofs` proves, for any sets of Functions, threads, heap cells, types and
values, and any sizes and alignments:

| Theorem | States |
|---|---|
| `Invariance` | `Spec => []IInv` |
| `TypeCorrectness` | `Spec => []TypeOK` |
| `DefinedBehaviour` | `Spec => []Defined` |
| `SoleOwnership` | `Spec => []Ownership` |
| `NothingLeaks` | `Spec => []NoLeak` |
| `AddressesFollow` | `Spec => []OwnAddress` |
| `BufferIsEnough` | `Spec => []BufferHolds` |
| `RaceFreedom` | `~ShareCalls` implies `Spec => []NoDataRace` |

`FunctionRefinementProofs` proves, for clients that follow the rule (`~ShareCalls`):

| Theorem | States |
|---|---|
| `CopiesAreOfTheSource` | `Spec => []CopiesItsSource` |
| `FunctionIsValue` | `Spec => BehavesAsValues` |

`MoveOnlyProofs` proves:

| Theorem | States |
|---|---|
| `MoveOnlyIsFunction` | `MoveOnlySpec => Spec`, so the seven theorems of `FunctionProofs` before its last hold of it too |
| `MoveOnlyRaceFreedom` | `MoveOnlySpec => []NoDataRace`, whatever `ShareCalls` is |
| `NoCallableIsCopied` | `MoveOnlySpec => NeverCopied`, for finitely many objects and threads |

`ReentrantProofs` proves, for any number of levels too:

| Theorem | States |
|---|---|
| `NestedInvariance` | `NestedSpec => []NestedInv` |
| `NestedTypes` | `NestedSpec => []TypeOKNested` |
| `NestedDefined` | `NestedSpec => []Defined` |
| `NestedOwners` | `NestedSpec => []NestedOwnership` |

`ReentrantRefinementProofs` proves, under the same assumptions and with no rule
about threads, as there is one:

| Theorem | States |
|---|---|
| `NestedValuesInvariance` | `NestedSpec => []NestedValuesInv` |
| `NestedIsValue` | `NestedSpec => ImplementsNested` |

The assumptions are those of `CallableStorage` on its constants: sizes are
naturals, and Functions, threads, cells, `Null`, `Junk`, `NoType` and `NoObject`
are different things; and of `FunctionRefinement`, that `NoObject`, `Null` and
`NoType` are none of the values and calls they stand beside. TLC evaluates them
in every run.

The argument: none of the properties is inductive. A move is defined only if the
frame's vtable is the one of the source's callable and the destination is
unused; that depends on how far the operation is and on nobody else having
changed the two Functions. `IInv` therefore adds `Frames` (for each operation and
each point of it, which vtables are set and what moves where), `Exclusive` (the
client's rule holds between any two operations in progress), `Unborn` (a Function
that does not exist has no vtable) and `Consistent`, which joins the memory, the
keepers and the threads' cells: every keeper holds a live callable of its type,
no two the same, every cell under construction or destruction belongs to one
thread, and every callable is in one of the two groups. The proof has four
layers: what each memory update does to `Consistent`; how keepers follow frames;
that a step of one thread leaves every other thread's frame as it was, by
`Exclusive`; and one lemma per action. `ShareCalls` plays no role in the
memory-safety theorems: without the clause callables are still never lost or
confused, they are only raced on.

The race theorems rest on two lemmas: what a thread changes or reads belongs to
it (its cell, or a slot of a Function it uses), and belongings of two threads
differ when their slots do. For `Function` the slots differ by `Exclusive`; for
`MoveOnlyFunction` by the stronger `Alone`, that no object is used by two
operations, which is shown to be kept by every step.

The refinement follows contents where `IInv` follows keepers. A memory update
shows at every location but its own what was there, so a step changes what a slot
shows only for the Functions its operation writes; the mapped value of a Function
depends on its slot and, while an operation is in effect, on that operation's
frame alone. Then every action is one step of `FunctionValues` or a stutter:
`FinishBuild` of a copy assignment and the beginning of a move, a swap, a reset or a
destruction take effect, the moves after it only carry contents to where the
mapping already sees them, and the last step returns. `CopiesItsSource` is carried
along: at the moment the clone is complete the source must still hold what was
cloned, which is `Exclusive` once more.

`NoCallableIsCopied` counts. A step of a thread moves a keeper from one slot of its
own to another, or ends one, except where a construction ends; with `Alone` the
slots of other threads keep what they keep, and cardinalities are compared by
injecting the new holders into the old.

Nested operations break `Exclusive`: an operation and one begun in its callable's
code may use the same Function. `NestedInv` has `Respectful` in its place: each
operation in progress leaves those below it on the `stack` what they rely on
(`Between`, `Pinned`, `Awaited`). From it follows that at most one operation has a
Function between two states (`SoleBetween`), so what each slot keeps is still well
defined, and that `Frames` survives the steps of inner operations. `Stacked` says
that only the innermost steps, and that it runs while those below it wait inside
callables. Memory lemmas and those about a single frame are taken from
`FunctionProofs`.

The refinement of nested operations cannot use that an operation has its Functions
to itself. What the mapping reads of a Function is told in two ways: by what
its slot holds while the operation that has it between two states is in effect, and by its
own `vtable_` otherwise (`Standing`); by `SoleBetween` there is one such operation at
most, and at rest the two agree. When a clone is complete it must still equal the
source, although code of callables ran since the copy began; when a destructor has
returned the callable must still be the one its `vtable_` named. Neither follows
from `NestedInv`, so `NestedValuesInv` adds `CopiesHold` (a copy in progress has the value of
its source), `KillsHold` (a callable about to be destroyed is where the `vtable_` of its
Function finds it) and `Sparing` (no operation begun inside a callable's code changes what
one below it is copying). `Sparing` is kept because a nested operation begins only
where the client's rule leaves it room. Then each step of the innermost operation is one
step of `FunctionValues` or a stutter, and those below it, whose frames and Functions
it leaves alone, map to what they did.

`FunctionRefProofs` proves, for any sets of FunctionRefs, functions, variables and
objects and any depth of calls:

| Theorem | States |
|---|---|
| `Invariant` | `Spec => []IInv` |
| `AlwaysDefined` | `Spec => []Defined` |
| `AlwaysRunsWhatWasBound` | `Spec => []RunsWhatWasBound` |
| `OnlyChangesAsBound` | `Spec => ChangesAsBound` |
| `ClientsSafe` | `ClientSpec` implies `[]` of `IInv`, `Defined`, `RunsWhatWasBound`, `RefNoFalseAlarm` and `OnlyTarget` |
| `ClientsChangeAsBound` | `ClientSpec => ChangesAsBound` |

from the assumption that functions, objects and the three special pointers are
different things. Its `IInv` adds `Faithful`: unless what the client meant is dead,
the FunctionRef holds exactly that, the object is alive, and the lambda's kind fits
it; and the same of every call in progress, whose object cannot have died. Then
a call is defined because only what is not dead may be called, and an object is
written by `Return` alone.

`FuzzProofs` proves of the harnesses of the two owning wrappers, for inputs of any
length, callables that count to any number and any number of cells:

| Theorem | States |
|---|---|
| `FuzzInvariance` | `FuzzSpec => []FuzzInv` |
| `FuzzNeverAborts` | `FuzzSpec => []NoFalseAlarm` |
| `FuzzAgreement` | `FuzzSpec => []OracleAgrees` |
| `FuzzLeavesNothing` | `FuzzSpec => []NothingLeft` |

and `FunctionRefProofs` of the third:

| Theorem | States |
|---|---|
| `FuzzRefInvariance` | `FuzzRefSpec => []HarnessInv` |
| `FuzzRefNeverAborts` | `FuzzRefSpec => []RefNoFalseAlarm` |
| `FuzzRefReachesTarget` | `FuzzRefSpec => []OnlyTarget` |
| `HarnessAlwaysKnows` | `ClientSpec => []HarnessKnows` |

`ClientSpec` of `FunctionRefClients` is what the run checks, a free client or the
harness; as the choice never changes, its theorems join those of the two.

They assume what the harnesses are (`FuzzAssumption`, `FuzzRefAssumption`): their
wrappers or references, all different, one thread, one small and one large
callable that count their calls. An oracle changes when an operation begins, the
wrappers task by task, so wrapper and oracle agree only at the end. `FuzzInv`
looks ahead: it takes the values the wrappers will have when the library call in
progress is over (`WhenOver`), applies the effect of every task left
(`TaskEffect`), and asks that each check on the way passes (`Allowed`) and that
wrappers and oracles agree at the end (`Leads`). `TaskEffect` is in terms of
values, not of memory, and here the refinement pays: since every step of `Function` is one of
`FunctionValues`, a library call does to the values what its task says, through
all its intermediate states (`Transition`, `Serves`), and `IdleReads` shows that
between two tasks the values are what the harness can read. What remains is that
each case of the loop starts on a way that leads to agreement, one lemma per case.
Nothing is left at the end because every wrapper's value is then `Null` and every
callable has a keeper. `HarnessInv` does the same for the third harness with
`IInv` of `FunctionRef` and with `Staged`: what each FunctionRef was bound to is what the harness's
`target` says at that point of its loop.

`PackageUpdateProofs` proves, for any sets of jobs, tags and branches, any CMakeLists.txt
and any recipes that match:

| Theorem | States |
|---|---|
| `Invariant` | `Spec => []IInv` |
| `RecipesAlwaysAgree` | `Spec => []RecipesAgree` |

from `TagsAssumption` (the releases are different things, the default branch is a
branch) and `MatchingAssumption` (two of the recipes always match: one is written
anew, the other as a field of the parsed file). `RecipesAgree` is about every branch,
and about the recipes that match. `IInv` follows the tags to them: a job has written its tag into the
first recipes of its working copy, as many as its step says (`JobsWhole`); so what
it pushes names its tag in each of them, while the base it started from names one
release (`BranchesWhole`); a pull request is opened after the push (`PushedFirst`).
A merge of three trees that agree, each in itself, takes all recipes from one side;
the common ancestor is such a tree whichever branch is merged into, since
`Fork` is one.

Only model-checked: `OperationsEnd`, `NestedOperationsEnd` and `FaultlessJobsOffer`,
which are liveness (ENABLED and fairness are beyond this prover), and the regression
tools and runners, whose definitions fold over sequences: what a fold computes
for every input is proved by induction, which this prover cannot do.

## 5. Disagreements found

**Concurrent calls** (`shared_call`). `tests/custom/suite/README.md:44-45` calls
"concurrent invocation through a single shared instance" safe where `operator()`
is const, which includes `Function`. Two threads then change one callable at the
same time: `operator()` casts the const away (tpp:138) and the constructor
accepts callables with a non-const `operator()` (tpp:39). The statement holds for
callables that do not change themselves, which the run `threads` and the theorem
`RaceFreedom` show.

**Missing operations** (`missing_operation`). A baseline entry without a
counterpart in the current results gets the time 0 from `getCns`, which its comment
gives as the expected case of an operation that was "renamed, removed, or
filtered out". `printComparisonRow` guards against a baseline time of 0 and
divides by the current one (`regression/custom/support/helpers.h:634`): the
difference is infinite and the summary counts the operation as faster. The google
tool does the same.

**CMake's version** (`cmake_version`). The update job promises to bump the root
CMakeLists.txt (`.github/workflows/update.yml:3-4`). The script rewrites the first
text that looks like `project(...)` (`scripts/update_package_files.py:61-67`), and
that is a comment, "passed to project() below" (`CMakeLists.txt:14`). The call in
CMakeLists.txt:27-31 keeps the old version, although the script reports
"Updated CMakeLists.txt". A copy of the tree run through the script shows the same.

**Pre-releases** (`pre_release`). Baselines are "ordered by semantic version so the
newest baseline can be found" (`regression/custom/support/helpers.h:84-85`,
`regression/google/support/helpers.h:96-97`). The order is by the three numbers and
then by the text of the folder's name (`helpers.h:86-93`), and `parseBaseline` drops a suffix
(`helpers.h:304-322`): with v10.0.0 and v10.0.0-rc1 the pre-release, which semantic
versioning puts first, is taken for the newest. It cannot be asked for by name,
as `tryParseVersionArg` accepts no suffix (`helpers.h:331-348`).

Smaller ones, without a run: `padCell` never shortens, so a delta of eight digits or
more pushes its row over the border; the exporter of the benchmark program says nothing when it
cannot open its file (`benchmarks/custom/support/export.h:26-27, 61-62`), and the
results of the run before stay there to be compared; `formatMagnitude` chooses the decimals before it
rounds, so 999 996 ns becomes `1000.00 us`, six digits where its comment promises
five (`helpers.h:571-577`); `convertIter` names every tier it does not know `1M`;
the google tool does not look at `time_unit`; a job for an older tag, run again,
proposes and merges a downgrade (`update.yml:47-52`).

## 6. What is not modelled, and the plan

Not modelled:

- Arguments and results of calls, overload resolution and the constraints on
  constructors, the order of destructors of arguments, and a callable that throws
  from a destructor or a move (the code makes it terminate,
  `VTableFactory.h:49`). What a call of a null function pointer does is undefined;
  the clients of the models do not make one.
- A callable whose code uses its own Function at a point where the library leaves
  no room for it: the client's rule of `ReentrantFunction` excludes it, and says
  where.
- Colours, wording and the layout inside a cell. The text of a JSON or markdown
  report is the sequence of its rows; that of a snapshot the sequence of its
  entries; parsing fails or succeeds.
- How a benchmark measures, and what the bodies of benchmarks and examples do:
  straight-line uses of the library.
- The tests, read as documentation; their runner is the example runner's twin.
- Packaging files, CMake and the other workflows, executed by programs outside
  the repository.

What could still be done: the control invariants of the regression tools and
runners as theorems, those that need no fold (`ReportOnlyOnSuccess`); one operation and tier in two suites,
which `getCns` (`regression/custom/support/helpers.h:163`) does not tell apart: no
file system of the runs has it.
