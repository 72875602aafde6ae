-------------------------- MODULE StrategyScheduler --------------------------
(***************************************************************************)
(* StrategyScheduler::Run and RunRound (runtime/include/scheduler.h) with  *)
(* any strategy, from construction to the destructor of the strategy.      *)
(* What happens in phase "minimize" is in module Minimization.             *)
(*                                                                         *)
(* A failed assert ends the program: phase "abort".  An event of the       *)
(* sequential history refers to its task by id, as the code's Invoke and   *)
(* Response hold references to the strategy's task slots.                  *)
(***************************************************************************)
EXTENDS PctStrategy

CONSTANTS
  max_tasks, max_rounds,
  should_minimize_history,
  Check(_),        \* the ModelChecker: TRUE if the history is linearizable
  CheckThrows(_)   \* comparing the results of the history throws

ASSUME BoundsAssumption == max_tasks \in Nat /\ max_rounds \in Nat
ASSUME MinimizeAssumption == should_minimize_history \in BOOLEAN

VARIABLES
  phase,           \* "run", "minimize", "terminate", "destroy", "done",
                   \* "abort"
  round,
  finished_tasks,
  sequential_history,
  full_history,    \* ids of the tasks in the order of their resumes; only
                   \* minimization reads it, so it is kept only for that
  result           \* what Run returns: "none" (yet), "nullopt",
                   \* "histories", "exception"

schedulerVars == <<phase, round, finished_tasks, sequential_history,
                   full_history, result>>
vars == <<strategyVars, schedulerVars>>

(* The task slot an event refers to. *)
GetTask(id) ==
  LET i == CHOOSE j \in Threads :
             \E k \in DOMAIN threads[j] : threads[j][k].id = id
  IN threads[i][CHOOSE k \in DOMAIN threads[i] : threads[i][k].id = id]

(* The history a checker sees: events with their tasks read through the    *)
(* references.                                                             *)
Dereferenced(h) ==
  [p \in DOMAIN h |->
     [type |-> h[p].type,
      task |-> [id |-> h[p].id, call |-> GetTask(h[p].id).call,
                ret |-> GetTask(h[p].id).ret]]]

-----------------------------------------------------------------------------
Init ==
  /\ InitStrategy
  /\ phase = "run"
  /\ round = 0
  /\ finished_tasks = 0
  /\ sequential_history = << >>
  /\ full_history = << >>
  /\ result = "none"

(* Mutant: runs one task too many. *)
InRoundOffByOne ==
  phase = "run" /\ round < max_rounds /\ finished_tasks <= max_tasks

(* The condition of the loop of RunRound, inside the loop of Run. *)
InRound == phase = "run" /\ round < max_rounds /\ finished_tasks < max_tasks

(* Next of the strategy at hand: the thread it picks, and the tasks it can *)
(* create there.                                                           *)
Picks == CASE kind = "random" -> RandomPicks
           [] kind = "rr"     -> RoundRobinPicks
           [] kind = "pct"    -> PctPicks
Creates(i) == IF kind = "pct" THEN PctCreates(i) ELSE PickCreates(i)

(* Mutant: counts resumes instead of finished tasks. *)
FinishedNowAlways(t) == 1

FinishedNow(t) == IF IsReturned(t) THEN 1 ELSE 0

(* The events Invoke(task, thread_id) and Response(task, result, thread_id). *)
InvokeOf(t, i) ==
  [type |-> "invoke", id |-> t.id, thread |-> i, result |-> NoRet]
ResponseOf(t, i) ==
  [type |-> "response", id |-> t.id, thread |-> i, result |-> t.ret]

(* The rest of an iteration of RunRound, after the task was resumed. *)
Record(i, t, is_new) ==
  /\ sequential_history' =
       sequential_history \o (IF is_new THEN <<InvokeOf(t, i)>> ELSE << >>)
         \o (IF IsReturned(t) THEN <<ResponseOf(t, i)>> ELSE << >>)
  /\ full_history' = IF should_minimize_history
                     THEN Append(full_history, t.id) ELSE << >>
  /\ finished_tasks' = finished_tasks + FinishedNow(t)
  /\ status' = IF IsReturned(t) THEN OnFinished(status, t.call, i)
               ELSE status

(* Next creates a task in the picked thread. *)
StartTask ==
  /\ InRound
  /\ \E p \in Picks :
       /\ NeedsTask(p.thread)
       /\ \E c \in Creates(p.thread) :
            LET i  == p.thread
                t  == New(new_task_id, c, i)
                th == [AfterLooking(p.looked) EXCEPT ![i] = Append(@, t)]
            IN /\ ~Fails(t, state)
               /\ ResumeLast(th, i)
               /\ Record(i, Resumed(t, state), TRUE)
       /\ AfterPick(p)
  /\ new_task_id' = new_task_id + 1
  /\ UNCHANGED <<terminateVars, phase, round, result>>

(* Next returns the unfinished task of the picked thread. *)
ResumeTask ==
  /\ InRound
  /\ \E p \in Picks :
       /\ ~NeedsTask(p.thread)
       /\ LET th == AfterLooking(p.looked)
              t  == Last(th[p.thread])
          IN /\ ~Fails(t, state)
             /\ ResumeLast(th, p.thread)
             /\ Record(p.thread, Resumed(t, state), FALSE)
       /\ AfterPick(p)
  /\ UNCHANGED <<new_task_id, terminateVars, phase, round, result>>

(* assert(!pick_weights.empty() && "deadlock") and its twins of the other  *)
(* strategies, "Oops, possible deadlock or incorrect verifier" when a      *)
(* PickStrategy may start no task in the picked thread, an assert of the   *)
(* target, and the assert of TerminateTasks.                               *)
AssertFails ==
  \/ InRound /\ Picks = {}
  \/ InRound /\ \E p \in Picks :
       IF NeedsTask(p.thread)
       THEN \/ kind # "pct" /\ Creates(p.thread) = {}
            \/ \E c \in Creates(p.thread) :
                 Fails(New(new_task_id, c, p.thread), state)
       ELSE Fails(Last(AfterLooking(p.looked)[p.thread]), state)
  \/ phase \in {"terminate", "destroy"} /\ TerminateAssertFails

(* The loop of PctStrategy::Next that draws constructors does not end when *)
(* none of them can pass.                                                  *)
DrawsForever ==
  /\ InRound /\ kind = "pct"
  /\ \E p \in Picks : NeedsTask(p.thread) /\ Creates(p.thread) = {}

(* The round goes no further: the process is aborted, or Next does not     *)
(* return.                                                                 *)
Abort ==
  /\ (AssertFails \/ DrawsForever) = TRUE
  /\ phase' = IF DrawsForever THEN "draw" ELSE "abort"
  /\ UNCHANGED <<strategyVars, round, finished_tasks, sequential_history,
                 full_history, result>>

RoundFinished ==
  phase = "run" /\ round < max_rounds /\ finished_tasks >= max_tasks

(* The comparator of a ValueWrapper throws std::bad_any_cast when the      *)
(* result of the task is of another type; nothing catches it.              *)
CheckerThrows ==
  /\ RoundFinished
  /\ CheckThrows(Dereferenced(sequential_history))
  /\ phase' = "abort"
  /\ result' = "exception"
  /\ UNCHANGED <<strategyVars, round, finished_tasks, sequential_history,
                 full_history>>

(* RunRound returns nullopt and Run goes on: StartNextRound begins. *)
FinishRound ==
  /\ RoundFinished
  /\ ~CheckThrows(Dereferenced(sequential_history))
  /\ Check(Dereferenced(sequential_history))
  /\ BeginTerminateTasks
  /\ phase' = "terminate"
  /\ new_task_id' = 0
  /\ UNCHANGED <<threads, state, parked, status, pickVars, round,
                 finished_tasks, sequential_history, full_history, result>>

(* RunRound returns the histories of the round: Run minimizes them first   *)
(* if it was asked to and returns them.                                    *)
ReportRound ==
  /\ RoundFinished
  /\ ~CheckThrows(Dereferenced(sequential_history))
  /\ ~Check(Dereferenced(sequential_history))
  /\ IF should_minimize_history
     THEN /\ phase' = "minimize"
          /\ UNCHANGED <<terminateVars, result>>
     ELSE /\ BeginTerminateTasks
          /\ phase' = "destroy"
          /\ result' = "histories"
  /\ UNCHANGED <<threads, state, parked, status, new_task_id, pickVars,
                 round, finished_tasks, sequential_history, full_history>>

TerminateTasks ==
  /\ phase \in {"terminate", "destroy"}
  /\ TerminateVisit \/ TerminateAgain
  /\ UNCHANGED <<pctVars, schedulerVars>>

(* The end of StartNextRound pops every task, and Run begins a round with  *)
(* new histories.                                                          *)
StartNextRound ==
  /\ phase = "terminate"
  /\ TerminateEnds
  /\ ResetObjects
  /\ threads' = [i \in Threads |-> << >>]
  /\ parked' = {}
  /\ round' = round + 1
  /\ finished_tasks' = 0
  /\ sequential_history' = << >>
  /\ full_history' = << >>
  /\ phase' = "run"
  /\ PrepareNextSchedule
  /\ UNCHANGED <<kind, new_task_id, next_task, terminateVars, result>>

(* All rounds were run: Run returns nullopt, ~PickStrategy terminates. *)
RunReturns ==
  /\ phase = "run" /\ round = max_rounds
  /\ result' = "nullopt"
  /\ BeginTerminateTasks
  /\ phase' = "destroy"
  /\ UNCHANGED <<threads, state, parked, status, new_task_id, pickVars,
                 round, finished_tasks, sequential_history, full_history>>

Destroyed ==
  /\ phase = "destroy"
  /\ TerminateEnds
  /\ ResetObjects
  /\ phase' = "done"
  /\ UNCHANGED <<threads, parked, new_task_id, pickVars, terminateVars,
                 round, finished_tasks, sequential_history, full_history,
                 result>>

(* The process has ended, or does nothing but draw. *)
Ended == phase \in {"done", "abort", "draw"} /\ UNCHANGED vars

Next ==
  \/ StartTask \/ ResumeTask \/ Abort \/ CheckerThrows \/ FinishRound
  \/ ReportRound \/ TerminateTasks \/ StartNextRound
  \/ RunReturns \/ Destroyed \/ Ended

Spec == Init /\ [][Next]_vars

(* The scheduler runs in one OS thread that goes on as long as it can. *)
FairSpec == Spec /\ WF_vars(Next)

-----------------------------------------------------------------------------
(* Where a task goes on (loc) is the target's business. *)
TaskOK(t) ==
  /\ t.id \in Nat /\ t.call \in Calls /\ t.thread \in Threads
  /\ t.returned \in BOOLEAN /\ t.ret \in Int /\ t.fstate \in Int
RefEvent == [type : {"invoke", "response"}, id : Nat, thread : Threads,
             result : Int]

TypeOK ==
  /\ kind \in Kinds
  /\ DOMAIN threads = Threads
  /\ \A i \in Threads : \A k \in DOMAIN threads[i] : TaskOK(threads[i][k])
  /\ parked \subseteq Nat
  /\ new_task_id \in Nat
  /\ next_task \in Threads
  /\ thread_index \in 0..threads_count
  /\ task_indexes \in [Threads -> Nat \ {0}]
  /\ has_nonterminated_threads \in BOOLEAN
  /\ phase \in {"run", "minimize", "terminate", "destroy", "done", "abort", "draw"}
  /\ round \in 0..max_rounds
  /\ finished_tasks \in 0..max_tasks
  /\ sequential_history \in Seq(RefEvent)
  /\ full_history \in Seq(Nat)
  /\ result \in {"none", "nullopt", "histories", "exception"}

(* The events of the same logical thread before position p. *)
EarlierInThread(h, p) == {q \in 1..(p - 1) : h[q].thread = h[p].thread}

(* What Check and the printer rely on: in every logical thread the events  *)
(* alternate, each response answering the invoke right before it, and the  *)
(* k-th invoke of a thread is the k-th task of its queue, so that every    *)
(* reference held by the history points to the task it was made for.       *)
HistoryIsSequentialPerThread ==
  phase = "run" =>
    \A p \in DOMAIN sequential_history :
      LET e == sequential_history[p]
          n == Cardinality(EarlierInThread(sequential_history, p))
          k == n \div 2 + 1
      IN /\ e.type = (IF n % 2 = 0 THEN "invoke" ELSE "response")
         /\ k \in DOMAIN threads[e.thread] /\ threads[e.thread][k].id = e.id

(* The history tells how far the tasks are: a task has a response in it    *)
(* exactly if it has returned, an unfinished task is the last one of its   *)
(* thread, and finished_tasks, the loop bound of RunRound, counts the      *)
(* responses.                                                              *)
HistoryMatchesTasks ==
  phase = "run" =>
    LET responses == {p \in DOMAIN sequential_history :
                        sequential_history[p].type = "response"}
        answered == {sequential_history[p].id : p \in responses}
    IN /\ \A i \in Threads : \A k \in DOMAIN threads[i] :
            /\ IsReturned(threads[i][k]) <=> threads[i][k].id \in answered
            /\ ~IsReturned(threads[i][k]) => k = Len(threads[i])
       /\ finished_tasks = Cardinality(responses)

(* A round begins on a fresh object, verifier and tokens, whatever the     *)
(* tasks did that TerminateTasks ran after the last round was judged.      *)
RoundsAreIsolated ==
  phase = "run" /\ sequential_history = << >> =>
    /\ state \in NewObjs /\ status = NewStatus /\ parked = {}
    /\ new_task_id = 0
    /\ \A i \in Threads : threads[i] = << >>

(* Every round ends and the strategy is destroyed: PctStrategy does not    *)
(* draw for ever, and TerminateTasks does not spin on tasks that cannot    *)
(* finish.                                                                 *)
RunEnds == <>(phase \in {"done", "abort"})

(* lib/mutex.h:9: "Ltest runtime doesn't launch parked tasks." *)
ParkedTasksRest ==
  [][\A i \in Threads : \A k \in DOMAIN threads[i] :
       IsParked(threads[i][k], parked) /\ k \in DOMAIN threads'[i] =>
         threads'[i][k].loc = threads[i][k].loc]_vars

(* scheduler.h:35: "StrategyVerifier is required for scheduling only       *)
(* allowed tasks".  PctStrategy asks it only with forbid_all_same.         *)
StartsAreVerified ==
  [][\A i \in Threads :
       Len(threads'[i]) > Len(threads[i]) =>
         Verify(status, Last(threads'[i]).call, i, TRUE)]_vars
=============================================================================
