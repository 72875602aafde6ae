# A TLA+ model of the lincheck-cpp runtime

lincheck-cpp runs methods of a C++ class as coroutines in one OS thread, lets a
*strategy* decide at every yield which coroutine goes on, records the history
of invokes and responses and asks a *model checker* whether the history is
linearizable. A history that is not is minimized and printed. Everything the
tool claims rests on four parts: the checker must be right, the recorded
history must tell what happened, an exhaustive search must leave nothing out,
and a history that is reported must be reproducible. These are the parts
modelled here, together with all but one of the programs the repository tests.

## 1. The system

| Component | State | Operations | Talks to |
|---|---|---|---|
| Histories (`lincheck.h`, `lin_check.cpp`) | `Invoke`, `Response` events that hold a reference to a task slot | `get_inv_res_mapping` | read by both checkers |
| Iterative checker (`lincheck.h`) | scan position, set of linearized entries and its count, two stacks, cache | `Check` | specification object |
| Recursive checker (`lincheck_recursive.h`) | set of linearized entries, state | `Check` | specification object; the one `ltest::Run` builds |
| Coroutines (`lib.h`, `lib.cpp`, `hook.cpp`) | place, result, futex a task waits for, token | `Resume`, `Restart`, `Terminate`, `IsBlocked`, `IsParked`, `Park`, `Unpark` | the target calls `CoroYield`, the token and the syscall hook |
| Strategy base class (`scheduler.h`) | task queues, object under test, verifier, removed tasks, `round_schedule` | `TerminateTasks`, `ResetCurrentRound`, `GetTask`, `GetNextTaskInThread` | owns tasks and object |
| Random, round robin (`pick_strategy.h`, ...) | `next_task`, `new_task_id` | `Pick`, `Next`, `PickSchedule`, `NextSchedule`, `StartNextRound` | called by the scheduler |
| PCT (`pct_strategy.h`) | priorities, change points, depth, statistics of lengths | `Next`, `NextSchedule`, `StartNextRound`, `ResetCurrentRound` | called by the scheduler |
| Strategy scheduler (`scheduler.h`) | round number, finished tasks, both histories | `Run`, `RunRound`, `ReplayRound`, `ExploreRound` | strategy, checker, minimizors |
| Minimizors (`minimization*.cpp`) | best histories, candidates, population | `Minimize` | scheduler (replay, explore), strategy (marks) |
| Exhaustive scheduler (`scheduler.h`, `TLAScheduler`) | frames, threads, counters, three histories | `Run`, `RunStep`, `ResumeTask`, `Replay` | checker, verifier |
| Stable vector (`stable_vector.h`) | blocks of doubling size, number of elements | `emplace_back`, `pop_back`, `resize`, moves, destructor | holds tasks, threads and frames, which histories refer to |
| Verifiers | who holds a lock | `Verify`, `OnFinished`, `Reset` | called by strategies and by the exhaustive scheduler |
| Targets, specifications (`verifying/`) | the object, its sequential state | methods | run as coroutines; called by the checkers |
| Yield passes (`codegen`) | - | insert `CoroYield` | decide how fine the steps are |

What is hard about it:

* **Interleaving.** A step of a coroutine runs from one yield to the next on an
  object all tasks share. The order is the strategy's choice.
* **Waiting.** A task can be parked on a token or blocked on a futex. Nobody is
  woken: `IsBlocked` compares the futex word with the awaited value whenever
  somebody asks, and forgets the wait when they differ.
* **Ends of rounds.** A round ends when enough tasks have returned, with others
  in the middle of a method; `TerminateTasks` then runs these outside the
  strategy.
* **Replay.** Minimization restarts coroutines and runs a recorded order again,
  with some tasks marked as removed, often with attempts that fail in between.
  The exhaustive scheduler does so after every single step it takes back.
* **Taking back by hand.** The iterative checker backtracks with two stacks, a
  counter and a cache; the exhaustive scheduler with three histories and three
  counters. Neither has a copy of the state it goes back to.
* **References.** Histories point to task slots. What they say is read when a
  checker looks, long after the event, and only right if slots stay in place.

`PROJECT.json` lists these as hazards, line by line, with the property that
would notice.

## 2. Modules

```
Histories -- Linearizability -- WglChecker ---------+-- Checkers -- MCWglChecker
     \                                              |                   |
      +---------------------- RecursiveChecker -----+             SequentialSpecs

Coro -- PickStrategy -- PctStrategy -- StrategyScheduler -- RoundReplay -- Minimization
  |                                            |                                |
  |                                    MCStrategyScheduler               MCMinimization
  |                                            \______ TargetTable ____________/
  +---- TlaScheduler -- MCTlaScheduler _______________/     |
                                         Targets -- LockFreeTargets,
                                         Verifiers, SequentialSpecs

VectorSpec <-- StableVector -- MCStableVector

Proofs:
LinearizabilityProofs -- RecursiveCheckerProofs -- WglCheckerProofs
StrategySchedulerProofs -- RoundProofs (instantiates RecursiveCheckerProofs) -- LockProofs
TlaSchedulerProofs
StableVectorProofs
```

**Histories** - events and `get_inv_res_mapping`. A history is well-formed if
every response answers one earlier invoke and no task is invoked twice: what
`RunRound` produces (proved, `HistoryIsWellFormed`).

**Linearizability** - the abstract specification of a checker: a history is
linearizable if the answered operations with some of the pending ones can be put
in an order that respects real time and along which the sequential
specification returns what was returned.

**WglChecker** - `LinearizabilityChecker::Check`. The variables are the local
variables of the C++ function, every action is one iteration of its loop.
Positions count from 1. The vector of flags is the set of true positions. The
cache is a set of pairs compared with the specification's equality, as
`PairEqual` does; hashes choose a bucket and are left out.

**RecursiveChecker** - the recursive `Check` as a recursive function.
**Checkers** puts the two beside each other.

**Coro** - one `Resume` as a function from the task, the object and the parked
tokens to what they are after it. What a method does between two yields is the
parameter `Body`.

**PickStrategy** - the base class and the two pick strategies. `Picks` is the
set of the answers `Pick` can give, with the threads it looked at: looking has
the side effect of `IsBlocked`. `TerminateTasks` is one action per visit of a
thread, so that its loop can be seen not to end.

**PctStrategy** - priorities, change points, depth and the statistics the change
points are drawn from. The vector of lengths is kept as its sum and size, which
is all the code reads. The cap of 50 on the depth is the constant `depth_limit`.

**StrategyScheduler** - `Run` and `RunRound` under any of the three strategies.
`StartTask` and `ResumeTask` are an iteration of `RunRound` each, from `Next` to
the recording of the response; nothing can come between since there is one OS
thread. Events hold task ids and are dereferenced when a checker looks, as the
references in the code are. `FinishRound`, `ReportRound`, `StartNextRound`,
`RunReturns` and `Destroyed` are the rest of `Run`.

**RoundReplay** - `ReplayRound` and `ExploreRound`, both of which begin with
`ResetCurrentRound`, with `PickSchedule` and the `NextSchedule` of each strategy.

**Minimization** - `SameInterleavingMinimizor`, `StrategyExplorationMinimizor` and
`SmartMinimizor` in the order in which `Run` calls them. Each step of a minimizor
calls `ReplayRound` or `ExploreRound` and goes on when the call has an `outcome`.

**TlaScheduler** - `TLAScheduler`. The mutual recursion of `RunStep` and
`ResumeTask` is a stack of frames: the code's `Frame` with the local variables of
the two activations. An action is what happens between two choices: a task is
continued, started, judged, undone; undoing includes the `Replay` that follows.

**StableVector, VectorSpec** - the container at the level of blocks and cells of
a heap, and the sequences it stands for, whose elements have addresses. The
client does what the language allows.

**Targets, LockFreeTargets** - methods of `verifying/` as `Body` operators. The
yield pass puts a yield after each load, store and atomic read-modify-write
instruction of an annotated method, not of its callees. Yields without an access
to the object between them are merged into one place.

**Verifiers, SequentialSpecs, TargetTable** - the verifiers, the specifications,
and which program combines which of them with which builders and generators.

A failed `assert` ends the program: asserts are taken to be enabled, and `phase`
(`mode` in TlaScheduler) becomes `"abort"`. The loop in which the PCT strategy draws
constructors has no way out when all of them are refused; `phase` is then `"draw"` for
ever (`DrawsForever`), which `RunEnds` does not take for an end. The assert of `~CoroBase` is not
modelled: the fiber of an unfinished coroutine holds a reference to it, so the
destructor is not run.

## 3. Runs

| Run | Question | Bounds |
|---|---|---|
| `wgl_queue` | Do the two checkers agree, and does the scan stay in bounds, where the cache hits? | all histories of 4 queue operations, up to 2 pending |
| `wgl_mutex` | Is what `Check` accepts witnessed, what it rejects without linearization, its count exact, and does it end when the cache never hits? | all histories of up to 3 lock operations, up to 2 pending |
| `sched_locks` | Does the history tell what happened, do locks have the owners the verifier thinks, is a reported deadlock one, does the run end? | `simple_mutex`, `folly_rwspinlock`, `deadlock`; random and round robin; 3 threads, 3 tasks, every interleaving |
| `sched_lockfree` | Is a round reported exactly if its history is not linearizable? | 7 targets; random; 2 threads, 3 finished tasks, every interleaving |
| `sched_rounds` | Are rounds independent, are correct targets never reported, does the verifier guard every start? | `mutex_queue`, `simple_mutex`; round robin and PCT; 3 threads, 2 tasks, 2 rounds, depth up to 2 |
| `min_register` | Do replays reproduce, does nothing removed come back? | `race_register`, random; 2 threads, 3 tasks, every round with at most 3 switches of threads |
| `min_rounds` | Do marks and history agree, what makes minimization fail for locks, does it end? | `race_register`, `nonlinear_mutex`; round robin; 3 threads, 5 tasks, 2 generations |
| `tla` | Does the exhaustive search judge every execution once, from the right states, and end with the right verdict? | 13 pairs of a program and options, up to 248 executions each |
| `stable_vector` | Does the vector implement sequences whose elements stay in place, without losing or sharing memory? | 2 vectors, up to 4 elements in blocks of 1, 2 and 4 |
| `sched_parked`, `min_completes`, `tla_verifier` | violations, see section 5 | as above |

*Why these bounds.* Three operations are enough for the checker to open two
sections, fail, close both and take another way; an operation order that matters
to the cache needs two pushes and a pop, so the queue run has four. Three threads
are the least at which a mutex has an owner, a waiter and a thread that takes the
lock in between, and at which the round robin order differs from alternation.
A round ends with three *finished* tasks while others are in the middle, so four
operations overlap: enough to report `race_register`, `nonlinear_queue`,
`nonlinear_set` and `fast_queue`. `nonlinear_ms_queue` needs four finished tasks
and `nonlinear_treiber_stack` more than four; in their case the run only shows
that nothing is reported wrongly. The PCT strategy changes a priority from depth
2 on, hence from the second round on. With five tasks in three threads the greedy
minimizors try pairs and a solution loses a thread. The bound on switches limits
the rounds that are generated, not how they are replayed. The options of the
exhaustive search include no bound, a bound on switches of 0 and 1, a limit of
rounds reached in the middle, a depth of 0, tasks that park, and tasks whose
arguments depend on the threads. With as many tasks as threads the first path of
`deadlock` is judged, so two pairs ask for one task more (2 threads and 3 tasks, 3
threads and 4 tasks): no path finishes them all, and the search comes to the
deadlock. A vector of four elements allocates three
blocks and frees them in every order the code can. Constants that bound loops in
the code (`max_tasks`, `exploration_runs`, ...) are small values of the same
parameters. `MaxTries` is the bound of the assert in `Terminate`, which is never
reached. `MaxSteps` bounds the executions the reference search of MCTlaScheduler
enumerates, above the longest one. `Cells` is the number of slots and nodes of
the arrays of 100. `Values` has one value: what the targets do wrong shows in how
often a value is found.

*Fairness.* `FairSpec` and `FairMinimizingSpec` assume weak fairness of the whole
next-state relation only: the runtime is one thread that does not stop before it
has returned. The choices of the strategy are not assumed to be fair; therefore
`LocksRunEnds` speaks of the spin lock only under the round robin strategy.
That the exhaustive search ends is stated without fairness: every step takes it
to a later position (`SearchAdvances`, proved in section 6) and the positions are
finitely many.

*Deadlock* is checked in all runs; the process that has ended stutters
explicitly (`Ended`, and `Returned` in the checker).

## 4. Properties

Checker: `InBounds`, `CountIsExact`, `AcceptIsWitnessed`, `RejectIsRight`,
`MatchesReference`, `AgreesWithRecursive`, `Terminates`.

Scheduler: `HistoryIsSequentialPerThread` and `HistoryMatchesTasks` say that the
history the checker sees is the one that happened; `RoundsAreIsolated` that what
`TerminateTasks` does after a round does not leak into the next;
`StartsAreVerified` and `LockIsOwned` that the verifiers guard every start although
they learn of a lock only after the object has changed; `ReportIsRight`,
`NoFalseAlarm`, `SetNeedsFourOperations`, `DeadlockIsReal`, `RoundsDoNotAbort` and
`SectionIsExclusive` that the verdicts of the tool about the targets are right;
`RunEnds` and `LocksRunEnds` that it has one. `LocksRunEnds` allows the one way
not to end that the TODO at `scheduler.h:190` leaves open: `TerminateTasks` runs a
spin lock whose holder has returned (`SpinsForever`).

Minimization: `ReplayReproduces` (the final replay of each minimizor records the
histories that were kept, and they are refused again), `KeptTasksAreReported`
(history and marks name the same tasks), `RunIsWellFormed` (no removed task
runs, threads run one task at a time), `OnlyRemoves` (no task comes back),
`AbortsOnlyOnWaiters` (minimization fails only in `TerminateTasks`, at the assert on
the number of tries, with a kept task that remembers a wait).

Exhaustive search: MCTlaScheduler defines the executions within the bounds by a
search that keeps states (`Executions`). `EnumeratesAll` says that the code, which
replays instead, judges these, each once and in order; `ReplayRestores` and
`BacktrackRestores` that before every choice the object, the tasks, the tokens,
the histories and the counters are those of the execution its frames stand for;
`VerdictIsRight` that its verdict is right; `DeadlockIsReal` that it reports a deadlock
only where all threads are parked behind holders that wait for each other; `SearchAdvances` that
it ends. The executions with a verifier are excluded from `EnumeratesAll` and
`VerdictIsRight`, because of `UnlocksFollowLocks` (section 5). `BacktrackRestores`
speaks of `full_history` for depth 1 only: `ResumeTask` takes back the pair of
entries of a task that starts with a coroutine only if it is the first entry of
its thread. `full_history` is printed and nothing else.

Vector: `ImplementsSequences` is the refinement of VectorSpec. `ElementsAreApart`,
`BlocksAreReached`, `OneSpareBlock` and `ElementsAreDestroyed` are about memory,
of which a sequence knows nothing.

## 5. Where the code and its comments disagree

Runs that show a violation:

* `sched_parked` (`ParkedTasksRest`): `mutex.h` says that parked tasks are not launched.
  `TerminateTasks` asks `IsBlocked` but not `IsParked` and resumes them, so a task
  enters the critical section without the lock.
* `min_completes` (`ReplayCompletesTasks`): `ReplayRound` wants to complete a task at its last appearance.
  The counter is compared with 0 before it is decremented, so `Terminate` is never
  called and tasks stay unfinished. The assert on even histories in
  `minimization.cpp` takes the completion for granted; no round of the modelled
  targets makes it fail.
* `tla_verifier` (`UnlocksFollowLocks`): the exhaustive scheduler reports finished
  tasks to the verifier and never takes this back, so after the search has gone
  back the verifier allows an `Unlock` in a thread that has not locked.

Met on the way:

* `deadlock.cpp` says that a `void` result equals 0. The comparison of an `int`
  with `void_v` throws `std::bad_any_cast`, which nothing catches: the action
  `CheckerThrows`.
* `--depth` is 0 unless it is given, and then the exhaustive scheduler starts no
  task and reports success; the usage lines of `deadlock.cpp`, `atomic_register.cpp`,
  `mutex_queue.cpp` and `fast_queue.cpp` do not give it. One of the options of run
  `tla` is this case.
* The exhaustive scheduler asks `IsParked` but never `IsBlocked`. Its `TerminateTasks`
  runs parked tasks ("we assume obstruction free here"), so the assert of
  `mutex_queue.cpp` fails within a replay; `DeadlockIsReal` allows for it.
* `PctStrategy` asks the verifier only with `forbid_all_same`, which is off by
  default; the PCT tests of the mutexes are commented out in
  `verifying/blocking/CMakeLists.txt:31,44`.
* With `forbid_all_same` the set of names keeps those of the constructors that were
  drawn and rejected, so all threads can run methods of one name after all, which
  the comment at `pct_strategy.h:14` and the description of the flag exclude.
* The first change point gives a thread the priority `current_depth`, which is
  the lowest initial priority: two threads share it, and the later one in the
  vector wins. `NextSchedule` of PCT has no check for a schedule in which no
  thread can run.
* The lengths of empty schedules enter the statistics of PCT when rounds are
  replayed, so `k` can be 0 and the distribution of the change points has an
  empty range, which is undefined. `ChangePoints` is then any choice.
* A thread of the highest priority that spins on a lock runs for ever, under PCT,
  in `ExploreRound`, where the priorities change a bounded number of times.
* The vector: a vector moved from by the constructor keeps its old size beside
  null blocks (so it may only be assigned to or destroyed, as the runtime does);
  elements replaced by an assignment are never destroyed, only their memory is
  freed, which is why `PctStrategy` pops all tasks before it assigns.

`AbortsOnlyOnWaiters` came out of a stronger formula that failed: the task on
which minimization of a lock gives up need not be blocked. A replay resumes tasks
without `IsBlocked`, so a finished wait is not forgotten, and the task counts as
blocked again whenever the word has the old value.

## 6. Proofs

TLAPS checks the theorems below for every value of the constants. Those that
state a property of a run have its name in brackets.

### Checkers

| Theorem | Module | States |
|---|---|---|
| `TypeCorrect` (`TypeOK`), `CountExact` (`CountIsExact`), `ScanStaysInHistory` (`InBounds`) | WglCheckerProofs | the local variables of the iterative `Check` are what its code takes them for |
| `AcceptIsSound` (`AcceptIsWitnessed`) | WglCheckerProofs | what it accepts has the linearization its stacks hold |
| `SearchIsExhaustive`, `RejectIsComplete` (`RejectIsRight`) | WglCheckerProofs | what it rejects has none |
| `VerdictIsExact` (`MatchesReference`) | WglCheckerProofs | its verdict is `Linearizable(history)` |
| `RecursiveIsExact` | RecursiveCheckerProofs | the recursive checker returns `Linearizable(h)` for every well-formed `h` |
| `CheckersAgree` (`AgreesWithRecursive`) | WglCheckerProofs | both checkers give the same answer |

They hold for every sequential specification and every set of well-formed
histories of any length with any number of pending invokes. Assumptions:
`SpecAssumption` (the effect of a call on a state is a state, the first state is
one), `HistoryInputsAssumption` (histories are well-formed) and, for
completeness only, `SpecEqualsAssumption`: states which the equality of the cache
takes for equal are equal. The queue, register, stack and set specifications
compare all they hold; the equality of the two mutex specifications never holds,
which satisfies the assumption as well. TLC evaluates it in both checker runs. A
specification whose equality forgot a field would make the cache lose
linearizations. Soundness does not depend on it.

*Soundness.* The inductive invariant is `WglInv`; `CountIsExact` and `InBounds` are
not inductive. It has four parts:

1. `SectionsInv`: the open sections are exactly the linearized invokes, each
   once, and a response is linearized together with its invoke. So closing a
   section takes back what opening it added, and the count stays exact.
2. `OrderInv`: every response before an open section belongs to a section opened
   earlier, and the scan has not passed a response that is not linearized. This
   is real-time order.
3. `StatesInv`: the stacked states are a run of the specification along the open
   sections. With 1 and 2 this makes the stacks a linearization once all entries
   are linearized.
4. `ScanInv`: a cached set that contains all responses is contained in the
   current set, and once all responses are linearized the scan has skipped
   nothing. Then the next invoke cannot be in the cache and is opened, and the
   scan does not leave the history. Without this part nothing stops the scan
   from running past the end over a pending invoke that was found in the cache.

*Completeness.* `SearchInv` is inductive on top of `WglInv`. A *node* is a set of
linearized operations with the state after them; `Completable` says that the other
operations can follow. `TriedInv`: at every node of the path on the stacks, trying
any operation that the scan passed leads nowhere. `CacheInv`: a cached node is on
the path, or it is not completable. A cache hit thus cannot hide a linearization:
a node on the path has fewer operations than the one about to be opened, so the
node that was found is off the path. When a section is closed its node has been
scanned up to the first response that is not linearized, and a linearization
would have to begin with one of the operations passed (`LinearizabilityProofs`).
`Check` linearizes all pending operations, the definition some: a pending
operation can always be appended, since its result is compared with nothing
(`PendingCanBeLinearized`).

*The recursive checker* is a recursive function, and induction theorems cannot be
instantiated in the prover. The proof takes instead a node on which the function
and `Completable` differ and with the fewest entries left (`WFMin`), and shows
that they agree on all nodes called from it.

There is one lemma per action (`SkipKeeps`, `PassKeeps`, `OpenKeeps`, ...).

### Strategy scheduler

| Theorem | Module | States |
|---|---|---|
| `HistoryIsSequential` (`HistoryIsSequentialPerThread`) | StrategySchedulerProofs | the events of a thread alternate; its k-th pair refers to its k-th task |
| `HistoryTellsTasks` (`HistoryMatchesTasks`) | StrategySchedulerProofs | responses are exactly those of the tasks that have returned, `finished_tasks` counts them |
| `HistoryIsWellFormed` | StrategySchedulerProofs | the history meets the precondition of the checkers |
| `TypesAreKept` (`TypeOK`) | RoundProofs | the state is well-typed |
| `RoundsStartAfresh` (`RoundsAreIsolated`) | RoundProofs | nothing leaks from one round into the next |
| `OnlyVerifiedTasksStart` (`StartsAreVerified`) | RoundProofs | the verifier has allowed every task that starts |
| `RoundsAreJudgedRight` | RoundProofs | `Run` goes on after linearizable rounds and reports the others |

They hold for all three strategies and any number of threads, tasks and rounds.

*Histories.* Nothing is assumed of the target, the verifier, the generators or the
checker: they are arbitrary operators. `HistoryIsSequentialPerThread` is not
inductive, because it says of every event which task it refers to but not that
every task has its events. `HistoryInv` relates the history to the queues in both
directions (`Linked`): the number of events of a thread is twice that of its tasks,
less one if the last one has not returned; each event is that of the task its rank
in the thread says; each task is recorded. It needs that ids are larger than all
earlier ones and that only the last task of a thread is unfinished. What the
pick strategies look at changes tasks (`IsBlocked`), but neither their ids nor
whether they have returned, and this is all `Linked` reads (`IdsOf`, `OpenOf`).

*Rounds.* `TargetOK(Objs, Fits)` is the hypothesis on the target: from the objects
`Objs` and the tasks `Fits[o]` that can be around while the object is `o`, the target
leads to such objects and tasks again. Nothing is asked of tasks that have returned,
or of a step in which an assert of the target fails. The lemma `FutexMutexIsTarget`
shows that `simple_mutex` satisfies it. `RoundsStartAfresh` also asks that `Reset`
makes a new object. That of `nonlinear_treiber_stack` and of `fast_queue` does not: it
keeps the values in the nodes and slots. The theorem says nothing of these two. `OnlyVerifiedTasksStart` excludes PCT without `forbid_all_same`, which
does not ask the verifier (section 5). `RoundsAreJudgedRight` composes
`HistoryIsWellFormed`, `TypesAreKept` and `RecursiveIsExact`: for every target and
every round that is run, the verdict of the tool is the definition of
linearizability. `ReportIsRight` is what the runs check of it, target by target.

### Test programs

| Theorem | States |
|---|---|
| `LocksAreOwned` (`LockIsOwned`) | `simple_mutex` has at most one owner, `folly_rwspinlock` no writer beside another holder, and the word of the lock says who holds it |
| `SectionsAreExclusive` (`SectionIsExclusive`) | at most one task is in the section of `mutex_queue` |
| `DeadlocksAreReal` (`DeadlockIsReal`) | the only assert that fails in a round reports a deadlock of `deadlock.cpp` in which every thread is parked behind another |
| `RoundsGoOn` (`RoundsDoNotAbort`) | rounds of the correct programs never end the process |
| `CorrectProgramsPass` (`NoFalseAlarm`) | `simple_mutex`, `folly_rwspinlock`, `atomic_register` and `mutex_queue` are never reported |

They are in LockProofs, which puts the proofs about the scheduler together with the
programs, their verifiers, generators and the coroutines, and hold for any number of
threads, tasks and rounds. The first four hold for any mixture of the programs in
`CorrectPrograms` and `deadlock`, the last one for each correct program by itself. The hypothesis
`RunsPrograms(programs)` says that the constants of StrategyScheduler are what
`ltest::Run` makes of these programs, as the configurations of the runs do, and that
the strategy asks the verifier (not PCT without `forbid_all_same`, see section 5).
`RoundsGoOn` asks in the case of PCT that there be a value to push: otherwise
`mutex_queue` has one method, `forbid_all_same` lets the last thread start nothing, and
PCT draws for ever. `DrawsEnd` says that this is the only way: PCT's loop ends for the
correct programs when they have two methods.

None of the properties is inductive. The invariant has two levels:

1. `PlaceInv`: every task is at a place of its own method (`MethodLeaves`: a step leads
   from place to place), and object and tasks belong to one program. It also holds
   while `TerminateTasks` runs parked tasks, where mutual exclusion does not.
2. `LockInv`: in the phase `"run"` the object is what the last tasks of the threads say.
   It is one formula per program:
   * `FutexInv`: the word is 0 exactly if no thread has the mutex. A thread *has* it
     before its `Lock` returns and until its `Unlock` has exchanged the word, while the
     verifier knows only of tasks that have returned (`FutexTask` relates the two).
   * `SpinInv`: `bits_` counts readers and writer as the verifier does.
   * `TokenInv`: the queue of the mutex holds exactly the tasks that have called `Lock`
     and not yet `Unlock`, each once; the first is the only one that is not parked and
     the only one that has passed `Lock`; `cnt` counts it, and what it has read of
     `cnt` is still true.
   * `DeadlockInv`: the same for two queues, of which a task is in one or both.
   * `RegisterInv`: the tasks of `atomic_register` never wait.

`QueueOf(w, cur, S)` says that a queue lists the threads `S`; what `Lock` and `Unlock`
do to it are the lemmas `QueueGrows` and `QueueShrinks`.

That no assert fails is a statement about all that a round needs: some thread is not
skipped (`SomeThreadRuns`: the first of a queue is not parked, a spin lock never
waits, and not all can wait for a word of which `FutexInv` says who will change it);
every strategy finds such a thread (`PicksExist`; for PCT from `PctInv`, which says that
every thread has a priority); the verifier lets it start one of the methods
(`SomeTaskMayStart`, `CreatesExist`); and no step of a target fails (`StepsDoNotFail`).
`OnlyDeadlockAborts` puts these together. If all threads are skipped the program is
`deadlock`, and each one is in a queue behind the holder of that mutex (`IsDeadlock`).

`CorrectProgramsPass` needs a linearization of every round. It is built while the round
is run, so a third invariant stands on `LockInv`:

3. `ExplainInv`: the operations that are *past* can be executed in the order in which they
   took effect, each with the value it returns or is going to return, and lead the
   specification to the state the object stands for (`AbsOf`). An operation may be past
   long before its task returns (`PastPlaces`): `simple_mutex` takes effect when the word
   is set, `mutex_queue` when the item is put or taken, `folly_rwspinlock` and
   `atomic_register` when they return. A task that a round leaves in the middle is
   counted if it is past and dropped if not.

A step either changes nothing that could be seen or takes effect (`StepsLinearize`, one
lemma per program, which use that the lock is held by the one who unlocks it). In the
first case the order stays (`OrderStays`), in the second the operation is put at its end
(`OrderGrows`): every operation whose response precedes its invocation is past and thus
already in it. At the end of the round the order is a linearization of the history as the
checker reads it, through the references (`ExplainedIsLinearizable`, on
`LegalOrderLinearizes` of LinearizabilityProofs), and the recursive checker accepts it since
it is exact (`RecursiveIsExact`). The hypothesis `Specifies(program)` says that the
constants of the checker are the specification of the program; its states are all numbers
or all sequences of values where the runs have the few that a round can reach.

The attempt to prove `MethodLeaves` showed that the guards of some `CASE` expressions of
the model overlapped, so that their value was any of the enabled arms. TLC takes the
first, which is what was meant; they are conditionals now.

### Exhaustive scheduler

| Theorem | States |
|---|---|
| `SearchGoesForward` (`SearchAdvances`) | every step of the search leads to a later position |
| `EarlierIsOrder` | "earlier" is irreflexive and transitive, so a position that was left is not reached again |
| `SearchHasPosition` | every state of the search has a position which the order compares |

They are in TlaSchedulerProofs and hold for every target, every number of threads and
all other options, with or without a bound on switches and rounds; nothing is assumed of
targets, verifiers and the checker. The position lists the two loop variables of
all activations of `RunStep` and whether the step of each was resumed and undone, and
positions are compared at the first activation where they differ. The invariant is
`FrameInv`: every frame counts with natural numbers, and while the search goes on there is
one. A step that skips or undoes moves the loops of the last frame (`TopAdvances`); one
that resumes a task marks the frame as resumed and puts a new one above it
(`ResumeAdvances`); the end of an activation marks the frame below as to be undone. In each
case the stacks agree below the frame that changes (`ChangeIsEarlier`). That positions are
finitely many, hence that the search ends, depends on the target: its methods have to end.

### Stable vector

| Theorem | States |
|---|---|
| `CellsAreNotShared` (`ElementsAreApart`) | every element is constructed in allocated memory, and no two share a cell |
| `MemoryIsOwned` (`BlocksAreReached`) | every block has one owner, whose destructor reaches it |
| `AtMostOneSpare` (`OneSpareBlock`) | `pop_back` leaves at most one block too many |
| `NoElementIsLost` (`ElementsAreDestroyed`) | a vector in use holds elements up to its size and its destructor destroys them all |
| `VectorsAreSequences` (`ImplementsSequences`) | the vectors implement VectorSpec: sequences whose elements stay in place |

They are in StableVectorProofs and hold for any set of vectors and values, every
length of the array of blocks and every bound on the size that it allows. Assumptions:
`VectorAssumption` (the default is a value, the array is not empty, and the size is
positive and less than `2^(Slots - 1)`, so that the slot `pop_back` looks at, behind
the last block, exists: 2^30 - 1 elements for the array of 31) and `RawAssumption` (the mark of an empty cell is no value).

The inductive invariant is `VectorInv`. None of the properties is inductive: that
`emplace_back` finds a block wherever it does not allocate one depends on which blocks
`pop_back` left, that in turn on the size. So a vector in use is one of the `Stores`:
it has the blocks its elements need (`BlocksSuffice`), at most one more
(`BlocksAreNeeded`), and its cells are full exactly up to its size (`CellsAreFull`).
A vector that was moved from has whatever it got in exchange, with a size that need
not fit; of its blocks only remains that they are its own (`OneOwner`, `AllOwned`)
and without gaps, which is what the destructor relies on.

`Keeps` and `Adds` say what an operation may change; both are transitive, so the
loops of `resize` follow from `Emplaced` and `Popped` (`GrownIsStore`,
`ShrunkIsStore`; that the recursive functions of the model are such loops is
shown by constructing the iteration, `Iteration`). Powers of two, which the provers
do not know, are counted as sets of subsets (`PowerIsSubsets`). Each operation
then maps to the one of VectorSpec with the same effect (`ChangeBecomes`,
`MoveMaps`, ...). New elements are at new places, since a place determines
the index of its element (`SamePlace`) and other vectors have other blocks.

### Only model-checked

* Liveness (`Terminates`, `RunEnds`, `LocksRunEnds`, and that minimization ends):
  out of the prover's reach.
* `SetNeedsFourOperations`, which counts the operations of a program that is wrong.
* `ReportIsRight`: `RoundsAreJudgedRight` proves it for the targets that satisfy
  `TargetOK`; for the lock-free ones this hypothesis is only exercised by the run.
* Minimization: `ReplayReproduces`, `RunIsWellFormed`, `KeptTasksAreReported`,
  `OnlyRemoves`, `AbortsOnlyOnWaiters`.
* The exhaustive scheduler: `TypeOK` and `DeadlockIsReal`, which need what a replay (a fold
  over the frames) keeps, and `EnumeratesAll`, `ReplayRestores`, `BacktrackRestores` and
  `VerdictIsRight`, which compare it with a recursive search.

## 7. Not modelled

* `mutexed_register.cpp`: its steps are those of `std::mutex` in libc.
* Minimization under PCT is modelled (`NextSchedule` and `ResetCurrentRound` in
  RoundReplay) but in no run. An instance with 3 rounds and depth 3 of
  `race_register` has 2.4 million states; the properties of `min_rounds` hold in it.
* The LLVM passes are reflected only in where targets yield; command line,
  generators and registration only in what they choose; logger and pretty
  printer not at all, for they only lay out text.
* Switching of fibers is taken to work. The floating-point fitness of solutions
  is compared exactly. Random draws are nondeterministic choices; weights are
  positive. The vector's limits (`emplace_back` has room for
  2^31 - 1 elements, `pop_back` reads behind the array from 2^30 on), `pop_back` of an empty
  vector and the assignment of a vector to itself do not occur.

## 8. Plan

Done: the checkers, both schedulers, all strategies, replay and minimization, the
vector, the targets; as theorems, exactness of both checkers, the strategy scheduler
up to the verdict on a round, the correct programs with their locks, deadlocks and
linearizations, the order of the exhaustive search, and the vector with its refinement.

Left: `TypeOK` of TlaScheduler; `OnlyRemoves` of Minimization.
