----------------------------- MODULE RoundReplay -----------------------------
(***************************************************************************)
(* SchedulerWithReplay as StrategyScheduler implements it: ReplayRound and *)
(* ExploreRound, both of which start with ResetCurrentRound, and the part  *)
(* of the strategy only they use.                                          *)
(*                                                                         *)
(* full_history and sequential_history are the histories of the round that *)
(* is being run, as in RunRound.  A call goes through the steps "reset"    *)
(* and "run" and leaves its result in `outcome`.                           *)
(***************************************************************************)
EXTENDS StrategyScheduler

CONSTANT exploration_runs

ASSUME RunsAssumption == exploration_runs \in Nat \ {0}

VARIABLES
  removed_tasks,
  round_schedule,    \* per thread, the position of its task; 0 is the code's -1
  call,              \* the method that runs: "none", "replay" or "explore"
  step,              \* "idle", "reset" or "run"
  ordering,          \* ReplayRound: the rest of tasks_ordering
  started_tasks,     \* ReplayRound
  resumes_count,     \* ReplayRound: from task ids to numbers
  runs_left,         \* ExploreRound
  tasks_to_run,      \* ExploreRound
  outcome            \* of the last call: "none", "nullopt" or "histories"

replayVars == <<removed_tasks, round_schedule, call, step, ordering,
                started_tasks, resumes_count, runs_left, tasks_to_run, outcome>>

InitReplay ==
  /\ removed_tasks = {}
  /\ round_schedule = [i \in Threads |-> 0]
  /\ call = "none"
  /\ step = "idle"
  /\ ordering = << >>
  /\ started_tasks = {}
  /\ resumes_count = << >>
  /\ runs_left = 0
  /\ tasks_to_run = 0
  /\ outcome = "none"

IsTaskRemoved(id) == id \in removed_tasks

TaskIds == UNION {{threads[i][k].id : k \in DOMAIN threads[i]} : i \in Threads}
ThreadOf(id) == CHOOSE i \in Threads :
                  \E k \in DOMAIN threads[i] : threads[i][k].id = id
IndexOf(id) == CHOOSE k \in DOMAIN threads[ThreadOf(id)] :
                 threads[ThreadOf(id)][k].id = id

GetValidTasksCount == Cardinality(TaskIds \ removed_tasks)

(* The beginning of a call; the histories are new ones. *)
BeginCall(method) ==
  /\ call' = method
  /\ step' = "reset"
  /\ outcome' = "none"
  /\ BeginTerminateTasks
  /\ round_schedule' = [i \in Threads |-> 0]
  /\ sequential_history' = << >>
  /\ full_history' = << >>

CallReplayRound(tasks_ordering) ==
  /\ BeginCall("replay")
  /\ ordering' = tasks_ordering
  /\ UNCHANGED <<runs_left, tasks_to_run>>

CallExploreRound ==
  /\ BeginCall("explore")
  /\ runs_left' = exploration_runs
  /\ UNCHANGED <<ordering, tasks_to_run>>

-----------------------------------------------------------------------------
(* ResetCurrentRound: TerminateTasks, then Restart of the tasks that are   *)
(* not removed.                                                            *)
ResetTerminates ==
  /\ phase = "minimize" /\ step = "reset"
  /\ TerminateVisit \/ TerminateAgain
  /\ UNCHANGED <<pctVars, schedulerVars, replayVars>>

(* CoroBase::Restart asserts that the task has returned. *)
RestartAssertFails ==
  /\ step = "reset"
  /\ TerminateEnds
  /\ \E i \in Threads : \E k \in DOMAIN threads[i] :
       /\ ~IsTaskRemoved(threads[i][k].id)
       /\ ~IsReturned(threads[i][k])

(* The new coroutine takes over the token, parked or not. *)
Restarted(t) ==
  IF IsTaskRemoved(t.id) THEN t ELSE New(t.id, t.call, t.thread)

ResetRestarts ==
  /\ phase = "minimize" /\ step = "reset"
  /\ TerminateEnds
  /\ ~RestartAssertFails
  /\ ResetObjects
  /\ threads' = [i \in Threads |->
                   [k \in DOMAIN threads[i] |-> Restarted(threads[i][k])]]
  /\ step' = "run"
  /\ started_tasks' = {}
  /\ resumes_count' =
       [id \in ToSet(ordering) |->
          Cardinality({p \in DOMAIN ordering : ordering[p] = id})]
  /\ tasks_to_run' = GetValidTasksCount
  /\ PrepareNextSchedule
  /\ UNCHANGED <<kind, parked, new_task_id, next_task, terminateVars, schedulerVars,
                 removed_tasks, round_schedule, call, ordering, runs_left,
                 outcome>>

-----------------------------------------------------------------------------
(* "if this is the last time this task appears in tasks_ordering, then     *)
(* complete it fully": the count is compared before it is decremented.     *)
LastAppearance(id) == resumes_count[id] = 0

(* The histories after a task was run: events of the sequential history.   *)
Events(t, i, is_new) ==
  (IF is_new THEN <<InvokeOf(t, i)>> ELSE << >>)
    \o (IF IsReturned(t) THEN <<ResponseOf(t, i)>> ELSE << >>)

Put(i, k, m) ==
  /\ threads' = [threads EXCEPT ![i][k] = m.task]
  /\ state' = m.obj
  /\ parked' = m.parked

(* One iteration of ReplayRound on a task that has already returned. *)
ReplayReturned ==
  /\ phase = "minimize" /\ call = "replay" /\ step = "run"
  /\ ordering # << >>
  /\ LET id == Head(ordering)
         i  == ThreadOf(id)
         t  == threads[i][IndexOf(id)]
     IN /\ IsReturned(t)
        /\ sequential_history' = sequential_history \o
             (IF id \in started_tasks THEN << >> ELSE <<InvokeOf(t, i)>>)
        /\ full_history' = Append(full_history, id)
        /\ started_tasks' = started_tasks \cup {id}
  /\ ordering' = Tail(ordering)
  /\ UNCHANGED <<strategyVars, phase, round, finished_tasks, result,
                 removed_tasks, round_schedule, call, step, resumes_count,
                 runs_left, tasks_to_run, outcome>>

(* What the iteration makes of the task at the head of the ordering. *)
AfterReplay ==
  LET id == Head(ordering)
      m  == Machine(threads[ThreadOf(id)][IndexOf(id)], state, parked)
  IN IF LastAppearance(id) THEN Terminated(m) ELSE Moved(m)

Replaying ==
  /\ phase = "minimize" /\ call = "replay" /\ step = "run"
  /\ ordering # << >>
  /\ ~IsReturned(threads[ThreadOf(Head(ordering))][IndexOf(Head(ordering))])

(* One iteration of ReplayRound on a task that has not. *)
ReplayTask ==
  /\ Replaying
  /\ ~AfterReplay.fails
  /\ LET id == Head(ordering)
         i  == ThreadOf(id)
         after == AfterReplay
     IN /\ Put(i, IndexOf(id), after)
        /\ resumes_count' = [resumes_count EXCEPT
                               ![id] = IF LastAppearance(id) THEN @ ELSE @ - 1]
        /\ sequential_history' = sequential_history
                                   \o Events(after.task, i, id \notin started_tasks)
        /\ full_history' = Append(full_history, id)
        /\ started_tasks' = started_tasks \cup {id}
  /\ ordering' = Tail(ordering)
  /\ UNCHANGED <<status, new_task_id, pickVars, terminateVars, phase, round,
                 finished_tasks, result, removed_tasks, round_schedule, call,
                 step, runs_left, tasks_to_run, outcome>>

ReplayRoundReturns ==
  /\ phase = "minimize" /\ call = "replay" /\ step = "run"
  /\ ordering = << >>
  /\ outcome' = IF Check(Dereferenced(sequential_history))
                THEN "nullopt" ELSE "histories"
  /\ step' = "idle"
  /\ UNCHANGED <<strategyVars, schedulerVars, removed_tasks, round_schedule,
                 call, ordering, started_tasks, resumes_count, runs_left,
                 tasks_to_run>>

-----------------------------------------------------------------------------
(* GetNextTaskInThread: the first task from round_schedule on that has not *)
(* returned and is not removed; one past the end if there is none.         *)
GetNextTaskInThread(i) ==
  LET open == {k \in DOMAIN threads[i] : /\ k >= round_schedule[i]
                                         /\ ~IsReturned(threads[i][k])
                                         /\ ~IsTaskRemoved(threads[i][k].id)}
  IN IF open = {} THEN Len(threads[i]) + 1
     ELSE CHOOSE k \in open : \A m \in open : k <= m

(* PickSchedule passes over the threads that have nothing to run or whose  *)
(* task is parked; it does not ask IsBlocked.                              *)
NotSchedulable(i) ==
  LET k == GetNextTaskInThread(i)
  IN k \in DOMAIN threads[i] => IsParked(threads[i][k], parked)

(* PctStrategy has no assert here: if no thread is left, it takes the      *)
(* thread 0, and what it reads as its task may be out of bounds.           *)
PctSchedules ==
  LET open == {j \in Threads : ~NotSchedulable(j)}
  IN {[thread |-> i, next |-> next_task] :
        i \in IF open = {} THEN {0} ELSE HighestOf(open)}

PickSchedules ==
  CASE kind = "random" ->
         {[thread |-> i, next |-> next_task] :
            i \in {j \in Threads : ~NotSchedulable(j)}}
    [] kind = "rr" ->
         {[thread |-> Attempt(a), next |-> Attempt(a + 1)] :
            a \in {b \in Threads :
                     /\ ~NotSchedulable(Attempt(b))
                     /\ \A c \in 0..(b - 1) : NotSchedulable(Attempt(c))}}
    [] kind = "pct" -> PctSchedules

Exploring == phase = "minimize" /\ call = "explore" /\ step = "run"

(* The task NextSchedule returns for thread i, and what a resume makes of it. *)
AfterExplore(i) ==
  Moved(Machine(threads[i][GetNextTaskInThread(i)], state, parked))

(* One iteration of ExploreRound: NextSchedule and Resume. *)
ExploreTask ==
  /\ Exploring
  /\ tasks_to_run > 0
  /\ \E p \in PickSchedules :
       LET i == p.thread
           k == GetNextTaskInThread(i)
           after == AfterExplore(i)
       IN /\ k \in DOMAIN threads[i]
          /\ ~after.fails
          /\ Put(i, k, after)
          /\ sequential_history' = sequential_history
               \o Events(after.task, i, round_schedule[i] # k)
          /\ full_history' = Append(full_history, after.task.id)
          /\ tasks_to_run' = tasks_to_run - FinishedNow(after.task)
          /\ round_schedule' = [round_schedule EXCEPT ![i] = k]
          /\ AfterPick(p)
  /\ UNCHANGED <<status, new_task_id, terminateVars, phase, round,
                 finished_tasks, result, removed_tasks, call, step, ordering,
                 started_tasks, resumes_count, runs_left, outcome>>

(* The run is judged: ExploreRound returns its histories, or goes on with  *)
(* the next run, or gives up.                                              *)
ExploreRunFails ==
  /\ Exploring
  /\ tasks_to_run = 0
  /\ ~Check(Dereferenced(sequential_history))
  /\ outcome' = "histories"
  /\ step' = "idle"
  /\ UNCHANGED <<strategyVars, schedulerVars, removed_tasks, round_schedule,
                 call, ordering, started_tasks, resumes_count, runs_left,
                 tasks_to_run>>

(* Mutant: the runs are not counted. *)
RunsAfterSame == runs_left

RunsAfter == runs_left - 1

ExploreRunPasses ==
  /\ Exploring
  /\ tasks_to_run = 0
  /\ Check(Dereferenced(sequential_history))
  /\ runs_left' = RunsAfter
  /\ IF runs_left' > 0
     THEN BeginCall("explore")
     ELSE /\ outcome' = "nullopt"
          /\ step' = "idle"
          /\ UNCHANGED <<terminateVars, call, round_schedule,
                         sequential_history, full_history>>
  /\ UNCHANGED <<threads, state, parked, status, new_task_id, pickVars, phase,
                 round, finished_tasks, result, removed_tasks, ordering,
                 started_tasks, resumes_count, tasks_to_run>>

(* assert(!pick_weights.empty() && "deadlock") of PickSchedule or, with    *)
(* PctStrategy, a task that does not exist; the asserts of                 *)
(* ResetCurrentRound; and the asserts of Terminate and of the target.      *)
ReplayAssertFails ==
  \/ phase = "minimize" /\ step = "reset" /\ TerminateAssertFails
  \/ phase = "minimize" /\ RestartAssertFails
  \/ Replaying /\ AfterReplay.fails
  \/ /\ Exploring /\ tasks_to_run > 0
     /\ \/ PickSchedules = {}
        \/ \E p \in PickSchedules :
             \/ GetNextTaskInThread(p.thread) \notin DOMAIN threads[p.thread]
             \/ AfterExplore(p.thread).fails

ReplayStep ==
  \/ ResetTerminates \/ ResetRestarts
  \/ ReplayReturned \/ ReplayTask \/ ReplayRoundReturns
  \/ ExploreTask \/ ExploreRunFails \/ ExploreRunPasses
=============================================================================
