---------------------------- MODULE Minimization -----------------------------
(***************************************************************************)
(* Run with --minimize: the histories of the round that was found are      *)
(* passed through SameInterleavingMinimizor, StrategyExplorationMinimizor  *)
(* and SmartMinimizor (runtime/minimization.cpp, minimization_smart.cpp).  *)
(***************************************************************************)
EXTENDS RoundReplay

CONSTANTS
  minimization_runs,
  max_offsprings_per_generation,
  offsprings_generation_attemps,
  initial_mutations_count

ASSUME SmartAssumption ==
  /\ minimization_runs \in Nat
  /\ max_offsprings_per_generation \in Nat
  /\ offsprings_generation_attemps \in Nat \ {0}
  /\ initial_mutations_count \in Nat

max_population_size == 2

VARIABLES
  minimizor,          \* "none", "same", "explore", "smart"
  nonlinear_history,  \* the pair of histories, full and sequential
  candidates,         \* greedy: what is still to be tried, sequences of ids
  last_replay,        \* the call that runs is the last one of the minimizor
  population,         \* smart: at most two solutions, the fittest first
  offsprings,         \* smart: the solutions of this generation
  generation,         \* smart: r
  offspring,          \* smart: number of the offspring, from 1
  left_attempts,      \* smart
  mutations_count     \* smart

smartVars == <<population, offsprings, generation, offspring, left_attempts,
               mutations_count>>
minimizorVars == <<minimizor, nonlinear_history, candidates, last_replay,
                   smartVars>>
allVars == <<vars, replayVars, minimizorVars>>

InitMinimization ==
  /\ Init
  /\ InitReplay
  /\ minimizor = "none"
  /\ nonlinear_history = [full |-> << >>, seq |-> << >>]
  /\ candidates = << >>
  /\ last_replay = FALSE
  /\ population = << >>
  /\ offsprings = << >>
  /\ generation = 0
  /\ offspring = 1
  /\ left_attempts = 0
  /\ mutations_count = initial_mutations_count

Idle == phase = "minimize" /\ step = "idle"

-----------------------------------------------------------------------------
(* GreedyRoundMinimizor *)

InvokedIn(seq) ==
  LET invokes == SelectSeq(seq, LAMBDA e : e.type = "invoke")
  IN [p \in DOMAIN invokes |-> invokes[p].id]

(* The tasks one by one, then the pairs (i, j) with i < j. *)
Candidates(tasks) ==
  LET n == Len(tasks)
      pair(i) == [d \in 1..(n - i) |-> <<tasks[i], tasks[i + d]>>]
  IN [i \in 1..n |-> <<tasks[i]>>] \o FlattenSeq([i \in 1..n |-> pair(i)])

(* GetTasksOrdering *)
GetTasksOrdering(full, exclude_task_ids) ==
  SelectSeq(full, LAMBDA id : id \notin exclude_task_ids)

(* Minimize(histories, minimizor) with one of the greedy ones begins. *)
GreedyBegins(greedy, histories) ==
  /\ minimizor' = greedy
  /\ nonlinear_history' = histories
  /\ candidates' = Candidates(InvokedIn(histories.seq))
  /\ last_replay' = FALSE

(* Run calls the first minimizor. *)
BeginMinimization ==
  /\ Idle /\ minimizor = "none"
  /\ GreedyBegins("same", [full |-> full_history, seq |-> sequential_history])
  /\ UNCHANGED <<vars, replayVars, smartVars>>

Greedy == Idle /\ minimizor \in {"same", "explore"}

(* Both loops pass over candidates of which a task is already removed. *)
SkipCandidate ==
  /\ Greedy /\ outcome = "none" /\ ~last_replay
  /\ candidates # << >>
  /\ \E id \in ToSet(Head(candidates)) : IsTaskRemoved(id)
  /\ candidates' = Tail(candidates)
  /\ UNCHANGED <<vars, replayVars, minimizor, nonlinear_history, last_replay,
                 smartVars>>

(* OnTasksRemoved begins: the same interleaving is replayed without the    *)
(* tasks, or the tasks are marked and the round is explored.               *)
TryCandidate ==
  /\ Greedy /\ outcome = "none" /\ ~last_replay
  /\ candidates # << >>
  /\ \A id \in ToSet(Head(candidates)) : ~IsTaskRemoved(id)
  /\ LET task_ids == ToSet(Head(candidates))
     IN IF minimizor = "same"
        THEN /\ CallReplayRound(GetTasksOrdering(nonlinear_history.full, task_ids))
             /\ UNCHANGED removed_tasks
        ELSE /\ CallExploreRound
             /\ removed_tasks' = removed_tasks \cup task_ids
  /\ UNCHANGED <<threads, state, parked, status, new_task_id, pickVars, phase,
                 round, finished_tasks, result, started_tasks, resumes_count,
                 minimizorVars>>

(* assert(new_histories.value().second.size() % 2 == 0), for pairs. *)
GreedyAssertFails ==
  /\ Greedy /\ outcome = "histories" /\ ~last_replay
  /\ Len(Head(candidates)) = 2
  /\ Len(sequential_history) % 2 # 0

(* Mutant: the tasks stay marked although the attempt failed. *)
RemovedAfterKept(task_ids) == removed_tasks \cup task_ids

(* Mutant: the tasks are not marked although the attempt succeeded. *)
RemovedAfterUnmarked(task_ids) == removed_tasks \ task_ids

(* The marks after OnTasksRemoved returned and Minimize reacted. *)
RemovedAfter(task_ids) ==
  IF outcome = "histories" THEN removed_tasks \cup task_ids
  ELSE removed_tasks \ task_ids

JudgeCandidate ==
  /\ Greedy /\ outcome # "none" /\ ~last_replay
  /\ ~GreedyAssertFails
  /\ nonlinear_history' =
       IF outcome = "histories"
       THEN [full |-> full_history, seq |-> sequential_history]
       ELSE nonlinear_history
  /\ removed_tasks' = RemovedAfter(ToSet(Head(candidates)))
  /\ candidates' = Tail(candidates)
  /\ outcome' = "none"
  /\ call' = "none"
  /\ UNCHANGED <<vars, round_schedule, step, ordering, started_tasks,
                 resumes_count, runs_left, tasks_to_run, minimizor, last_replay,
                 smartVars>>

(* "replay minimized round one last time": the result is not looked at. *)
LastReplay ==
  /\ Greedy /\ outcome = "none" /\ ~last_replay
  /\ candidates = << >>
  /\ CallReplayRound(nonlinear_history.full)
  /\ last_replay' = TRUE
  /\ UNCHANGED <<threads, state, parked, status, new_task_id, pickVars, phase,
                 round, finished_tasks, result, removed_tasks, started_tasks,
                 resumes_count, minimizor, nonlinear_history, candidates,
                 smartVars>>

-----------------------------------------------------------------------------
(* SmartMinimizor *)

(* Solution: the tasks that are not removed, for the threads that have     *)
(* some, and the histories.                                                *)
Solution(histories) ==
  LET valid(i) == {threads[i][k].id : k \in DOMAIN threads[i]} \ removed_tasks
  IN [tasks |-> [i \in {j \in Threads : valid(j) # {}} |-> valid(i)],
      histories |-> histories]

(* GetFitness, scaled to an integer: total_tasks and total_threads are the *)
(* same for all solutions and eps is 1 / 10000.                            *)
Fitness(s) ==
  (Cardinality(TaskIds) - Cardinality(UNION Range(s.tasks)))
    * (threads_count + 10000 * (threads_count - Cardinality(DOMAIN s.tasks)))

(* multiset::insert: after the solutions that are at least as fit. *)
Insert(pop, s) ==
  SelectSeq(pop, LAMBDA q : Fitness(q) >= Fitness(s)) \o <<s>>
    \o SelectSeq(pop, LAMBDA q : Fitness(q) < Fitness(s))

(* The results of CrossProduct: every thread of the smaller parent is      *)
(* copied from one of the parents.                                         *)
CrossProducts(a, b) ==
  LET p1 == IF Cardinality(DOMAIN a.tasks) >= Cardinality(DOMAIN b.tasks) THEN b ELSE a
      p2 == IF p1 = b THEN a ELSE b
      choices(i) == {p1.tasks[i]}
                      \cup (IF i \in DOMAIN p2.tasks THEN {p2.tasks[i]} ELSE {})
  IN {f \in [DOMAIN p1.tasks -> UNION {choices(i) : i \in DOMAIN p1.tasks}] :
        \A i \in DOMAIN f : f[i] \in choices(i)}

(* DropRandomTask: an empty map or thread is left as it is, and so is the  *)
(* last task of a thread when there are two threads.                       *)
Drops(f) ==
  IF DOMAIN f = {} THEN {f} ELSE
  UNION {IF f[i] = {} \/ (Cardinality(f[i]) = 1 /\ Cardinality(DOMAIN f) = 2)
         THEN {f}
         ELSE {[f EXCEPT ![i] = @ \ {id}] : id \in f[i]} : i \in DOMAIN f}

(* The results of the mutations.  A single mutation may be left out. *)
Mutations(f) ==
  LET dropped[m \in 0..mutations_count] ==
        IF m = 0 THEN {f} ELSE UNION {Drops(g) : g \in dropped[m - 1]}
  IN dropped[mutations_count] \cup (IF mutations_count = 1 THEN {f} ELSE {})

(* RemoveInvalidTasks *)
RemovedBy(valid_threads) == TaskIds \ UNION Range(valid_threads)

SmartBegins ==
  /\ minimizor' = "smart"
  /\ population' = <<Solution(nonlinear_history)>>
  /\ offsprings' = << >>
  /\ generation' = 0
  /\ offspring' = 1
  /\ left_attempts' = offsprings_generation_attemps
  /\ last_replay' = FALSE

(* The last replay of a greedy minimizor has returned: Run calls the next. *)
NextMinimizorBegins ==
  /\ Greedy /\ outcome # "none" /\ last_replay
  /\ \/ /\ minimizor = "same"
        /\ GreedyBegins("explore", nonlinear_history)
        /\ UNCHANGED smartVars
     \/ /\ minimizor = "explore"
        /\ SmartBegins
        /\ UNCHANGED <<nonlinear_history, candidates, mutations_count>>
  /\ outcome' = "none"
  /\ call' = "none"
  /\ UNCHANGED <<vars, removed_tasks, round_schedule, step, ordering,
                 started_tasks, resumes_count, runs_left, tasks_to_run>>

Smart == Idle /\ minimizor = "smart"
Generating == Smart /\ generation < minimization_runs /\ outcome = "none"

(* An attempt to generate an offspring: crossing, mutations, exploration. *)
TryOffspring ==
  /\ Generating
  /\ offspring <= max_offsprings_per_generation
  /\ \E new_threads \in UNION {Mutations(f) :
                           f \in CrossProducts(Head(population), Last(population))} :
       removed_tasks' = RemovedBy(new_threads)
  /\ CallExploreRound
  /\ left_attempts' = left_attempts - 1
  /\ UNCHANGED <<threads, state, parked, status, new_task_id, pickVars, phase,
                 round, finished_tasks, result, started_tasks, resumes_count,
                 minimizor, nonlinear_history, candidates, last_replay,
                 population, offsprings, generation, offspring, mutations_count>>

JudgeOffspring ==
  /\ Smart /\ outcome # "none" /\ ~last_replay
  /\ LET found == outcome = "histories"
         s == Solution([full |-> full_history, seq |-> sequential_history])
         next == found \/ left_attempts = 0
     IN /\ offsprings' = IF found THEN Append(offsprings, s) ELSE offsprings
        /\ offspring' = IF next THEN offspring + 1 ELSE offspring
        /\ left_attempts' = IF next THEN offsprings_generation_attemps
                            ELSE left_attempts
  /\ outcome' = "none"
  /\ call' = "none"
  /\ UNCHANGED <<vars, removed_tasks, round_schedule, step, ordering,
                 started_tasks, resumes_count, runs_left, tasks_to_run,
                 minimizor, nonlinear_history, candidates, last_replay,
                 population, generation, mutations_count>>

(* The population after the generation: the fittest survive. *)
Survivors ==
  LET all == FoldLeft(Insert, population, offsprings)
  IN SubSeq(all, 1, IF Len(all) < max_population_size THEN Len(all)
                    ELSE max_population_size)

(* The generation is complete: fewer mutations after little success. *)
EndGeneration ==
  /\ Generating
  /\ offspring > max_offsprings_per_generation
  /\ mutations_count' =
       IF 2 * Len(offsprings) < max_offsprings_per_generation /\ mutations_count > 1
       THEN mutations_count - 1 ELSE mutations_count
  /\ population' = Survivors
  /\ offsprings' = << >>
  /\ generation' = generation + 1
  /\ offspring' = 1
  /\ UNCHANGED <<vars, replayVars, minimizor, nonlinear_history, candidates,
                 last_replay, left_attempts>>

(* The best solution is put in place and replayed. *)
ReplayBest ==
  /\ Smart /\ generation = minimization_runs
  /\ outcome = "none" /\ ~last_replay
  /\ removed_tasks' = RemovedBy(Head(population).tasks)
  /\ CallReplayRound(Head(population).histories.full)
  /\ last_replay' = TRUE
  /\ UNCHANGED <<threads, state, parked, status, new_task_id, pickVars, phase,
                 round, finished_tasks, result, started_tasks, resumes_count,
                 minimizor, nonlinear_history, candidates, smartVars>>

(* assert(replayed_result.has_value()) *)
SmartAssertFails == Smart /\ last_replay /\ outcome = "nullopt"

(* Run returns the replayed histories; the strategy is destroyed. *)
MinimizationReturns ==
  /\ Smart /\ last_replay /\ outcome = "histories"
  /\ nonlinear_history' = [full |-> full_history, seq |-> sequential_history]
  /\ result' = "histories"
  /\ phase' = "destroy"
  /\ BeginTerminateTasks
  /\ round_schedule' = [i \in Threads |-> 0]
  /\ UNCHANGED <<threads, state, parked, status, new_task_id, pickVars, round,
                 finished_tasks, sequential_history, full_history,
                 removed_tasks, call, step, ordering, started_tasks,
                 resumes_count, runs_left, tasks_to_run, outcome, minimizor,
                 candidates, last_replay, smartVars>>

MinimizationAborts ==
  /\ (ReplayAssertFails \/ GreedyAssertFails \/ SmartAssertFails) = TRUE
  /\ phase' = "abort"
  /\ UNCHANGED <<strategyVars, round, finished_tasks, sequential_history,
                 full_history, result, replayVars, minimizorVars>>

GreedyStep ==
  \/ BeginMinimization \/ SkipCandidate \/ TryCandidate \/ JudgeCandidate
  \/ LastReplay \/ NextMinimizorBegins

SmartStep ==
  \/ TryOffspring \/ JudgeOffspring \/ EndGeneration \/ ReplayBest
  \/ MinimizationReturns

MinimizingNext ==
  \/ Next /\ UNCHANGED <<replayVars, minimizorVars>>
  \/ ReplayStep /\ UNCHANGED minimizorVars
  \/ GreedyStep \/ SmartStep \/ MinimizationAborts

MinimizingSpec == InitMinimization /\ [][MinimizingNext]_allVars

(* One OS thread that goes on as long as it can. *)
FairMinimizingSpec == MinimizingSpec /\ WF_allVars(MinimizingNext)
-----------------------------------------------------------------------------
(* A call that ends a minimizor has returned. *)
MinimizorDone == Idle /\ last_replay /\ outcome # "none"

(* The histories the minimizor leaves. *)
Minimized ==
  IF minimizor = "smart" THEN Head(population).histories ELSE nonlinear_history

(* A round can be replayed: resumed in the recorded order on the reset     *)
(* object, the restarted tasks go through the same steps and give the same *)
(* results, so that the round is refused again and the references held by  *)
(* the reported history lead to tasks with the reported results.           *)
ReplayReproduces ==
  MinimizorDone =>
    /\ outcome = "histories"
    /\ sequential_history = Minimized.seq
    /\ full_history = Minimized.full

(* The history that is kept is a history of exactly the tasks that are not *)
(* marked as removed, whatever attempts failed in between.                 *)
KeptTasksAreReported ==
  MinimizorDone => ToSet(InvokedIn(Minimized.seq)) = TaskIds \ removed_tasks

EventsOf(i) == SelectSeq(sequential_history, LAMBDA e : e.thread = i)

(* While a round is replayed or explored, a thread runs one task at a time *)
(* and only tasks that are not removed, and every recorded result is the   *)
(* one its task returned.                                                  *)
RunIsWellFormed ==
  phase = "minimize" /\ step = "run" =>
    /\ \A i \in Threads :
         LET events == EventsOf(i)
         IN \A p \in DOMAIN events :
              /\ events[p].type = (IF p % 2 = 1 THEN "invoke" ELSE "response")
              /\ p % 2 = 0 => events[p].id = events[p - 1].id
    /\ \A p \in DOMAIN sequential_history :
         LET e == sequential_history[p]
         IN /\ ~IsTaskRemoved(e.id)
            /\ e.type = "response" =>
                 IsReturned(GetTask(e.id)) /\ GetTask(e.id).ret = e.result

(* "minimizors that decrease the number of tasks" (minimization.h:8): a    *)
(* history is only replaced by a history of some of its tasks.  No task    *)
(* comes back that an earlier attempt or an earlier minimizor removed.     *)
OnlyRemoves ==
  [][phase = "minimize" /\ minimizor # "none" =>
       ToSet(InvokedIn(nonlinear_history'.seq))
         \subseteq ToSet(InvokedIn(nonlinear_history.seq))]_allVars

(* scheduler.h:441 in ReplayRound: "if this is the last time this task     *)
(* appears in `tasks_ordering`, then complete it fully."                   *)
ReplayCompletesTasks ==
  Idle /\ call = "replay" /\ outcome # "none" =>
    \A id \in ToSet(full_history) : IsReturned(GetTask(id))
=============================================================================
