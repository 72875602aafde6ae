---------------------------- MODULE PickStrategy ----------------------------
(***************************************************************************)
(* BaseStrategyWithThreads (runtime/include/scheduler.h), PickStrategy and *)
(* its two subclasses RandomStrategy and RoundRobinStrategy.  The third    *)
(* strategy, in module PctStrategy, shares the base class.                 *)
(*                                                                         *)
(* threads[i] is the queue of tasks of logical thread i.  The strategy     *)
(* owns the object under test (`state`) and the verifier, whose state is   *)
(* `status`.                                                               *)
(***************************************************************************)
EXTENDS Coro, FiniteSets, SequencesExt

CONSTANTS
  threads_count,
  Kinds,              \* the strategies a run may be started with
  NewStatus,          \* the verifier's state after Reset()
  Verify(_, _, _, _), \* Verify(status, call, thread, is_new)
  OnFinished(_, _, _) \* the verifier's state after OnFinished(call, thread)

ASSUME ThreadsAssumption == threads_count \in Nat \ {0}
ASSUME KindAssumption == Kinds \subseteq {"random", "rr", "pct"}

Threads == 0..(threads_count - 1)

VARIABLES
  kind,                       \* the strategy MakeStrategy was asked for
  threads,
  state,
  parked,
  status,
  new_task_id,
  next_task,                  \* of RoundRobinStrategy, modulo threads_count
  (* local variables of TerminateTasks *)
  thread_index,
  task_indexes,
  has_nonterminated_threads

terminateVars == <<thread_index, task_indexes, has_nonterminated_threads>>
baseVars == <<kind, threads, state, parked, status, new_task_id, next_task,
              terminateVars>>

InitBase ==
  /\ kind \in Kinds
  /\ threads = [i \in Threads |-> << >>]
  /\ state \in NewObjs
  /\ parked = {}
  /\ status = NewStatus
  /\ new_task_id = 0
  /\ next_task = 0
  /\ thread_index = 0
  /\ task_indexes = [i \in Threads |-> 1]
  /\ has_nonterminated_threads = FALSE

-----------------------------------------------------------------------------
(* Pick *)

(* The condition under which both Pick methods pass over a thread. *)
Skipped(i) ==
  /\ threads[i] # << >>
  /\ IsParked(Last(threads[i]), parked) \/ IsBlocked(Last(threads[i]), state)

(* The queues after the condition was evaluated for the threads in S: a    *)
(* parked task short-circuits the call of IsBlocked.                       *)
AfterLooking(S) ==
  [i \in Threads |->
     IF i \in S /\ threads[i] # << >> /\ ~IsParked(Last(threads[i]), parked)
     THEN [threads[i] EXCEPT ![Len(threads[i])] = AfterIsBlocked(@, state)]
     ELSE threads[i]]

(* RandomStrategy::Pick looks at every thread and draws one of the others. *)
RandomPicks ==
  {[thread |-> i, next |-> next_task, looked |-> Threads] :
     i \in {j \in Threads : ~Skipped(j)}}

(* RoundRobinStrategy::Pick looks at the threads from next_task on. *)
Attempt(a) == (next_task + a) % threads_count

RoundRobinPicks ==
  {[thread |-> Attempt(a), next |-> Attempt(a + 1),
    looked |-> {Attempt(b) : b \in 0..a}] :
     a \in {b \in Threads : /\ ~Skipped(Attempt(b))
                            /\ \A c \in 0..(b - 1) : Skipped(Attempt(c))}}

(* Mutant: does not wait for the last task to return. *)
NeedsTaskAlways(i) == TRUE

(* "it's the first task if the queue is empty", "a task has finished". *)
NeedsTask(i) == threads[i] # << >> => IsReturned(Last(threads[i]))

(* The tasks Next of a PickStrategy can create in thread i: the first      *)
(* constructor in a random order that the verifier lets pass.  The         *)
(* verifier sees only the name; the arguments are generated by Build.      *)
PickCreates(i) == {c \in Generates(state, i) : Verify(status, c, i, TRUE)}

-----------------------------------------------------------------------------
(* Resume the last task of a thread; th are the queues after Pick. *)
ResumeLast(th, i) ==
  LET t == Last(th[i])
  IN /\ threads' = [th EXCEPT ![i] = Append(Front(@), Resumed(t, state))]
     /\ state' = ObjAfter(t, state)
     /\ parked' = ParkedAfter(t, state, parked)

-----------------------------------------------------------------------------
(* TerminateTasks: one action per visit of a thread. *)

BeginTerminateTasks ==
  /\ thread_index' = 0
  /\ task_indexes' = [i \in Threads |-> 1]
  /\ has_nonterminated_threads' = FALSE

(* The first task of the thread, from task_indexes on, that has not        *)
(* returned; one past the end if there is none.                            *)
FirstUnreturned(i) ==
  LET open == {k \in task_indexes[i]..Len(threads[i]) :
                 ~IsReturned(threads[i][k])}
  IN IF open = {} THEN Len(threads[i]) + 1
     ELSE CHOOSE k \in open : \A m \in open : k <= m

(* Mutant: resumes blocked tasks as well. *)
SkipsBlockedNever(t) == FALSE

(* Mutant: gives up every unfinished task. *)
SkipsBlockedAlways(t) == TRUE

(* A blocked task is left alone: "if task is blocked and it is the last    *)
(* one, then just increment the task index".                               *)
SkipsBlocked(t) == IsBlocked(t, state)

(* One iteration of the loop over the threads. *)
VisitThread ==
  LET i == thread_index
      k == FirstUnreturned(i)
  IN \/ /\ k > Len(threads[i])
        /\ task_indexes' = [task_indexes EXCEPT ![i] = k]
        /\ UNCHANGED <<threads, state, parked, has_nonterminated_threads>>
     \/ /\ k <= Len(threads[i])
        /\ SkipsBlocked(threads[i][k])
        /\ task_indexes' = [task_indexes EXCEPT ![i] = k + 1]
        /\ UNCHANGED <<threads, state, parked, has_nonterminated_threads>>
     \/ /\ k <= Len(threads[i])
        /\ ~SkipsBlocked(threads[i][k])
        /\ LET t == AfterIsBlocked(threads[i][k], state)
           IN /\ ~Fails(t, state)
              /\ threads' = [threads EXCEPT ![i][k] = Resumed(t, state)]
              /\ state' = ObjAfter(t, state)
              /\ parked' = ParkedAfter(t, state, parked)
        /\ task_indexes' = [task_indexes EXCEPT ![i] = k]
        /\ has_nonterminated_threads' = TRUE

(* "Trying to terminate blocked task, which is not last in the thread.",   *)
(* or an assert of the target, whose tasks are resumed even when parked.   *)
TerminateAssertFails ==
  /\ thread_index \in Threads
  /\ LET k == FirstUnreturned(thread_index)
     IN /\ k <= Len(threads[thread_index])
        /\ IF IsBlocked(threads[thread_index][k], state)
           THEN k < Len(threads[thread_index])
           ELSE Fails(AfterIsBlocked(threads[thread_index][k], state), state)

TerminateVisit ==
  /\ thread_index \in Threads
  /\ ~TerminateAssertFails
  /\ VisitThread
  /\ thread_index' = thread_index + 1
  /\ UNCHANGED <<kind, status, new_task_id, next_task>>

(* The while loop starts over as long as some task was resumed. *)
TerminateAgain ==
  /\ thread_index = threads_count
  /\ has_nonterminated_threads
  /\ thread_index' = 0
  /\ has_nonterminated_threads' = FALSE
  /\ UNCHANGED <<kind, threads, state, parked, status, new_task_id, next_task,
                 task_indexes>>

(* The loop ends; sched_checker.Reset() and state.Reset() follow. *)
TerminateEnds ==
  /\ thread_index = threads_count
  /\ ~has_nonterminated_threads

(* Mutant: the object keeps what the terminated tasks did to it. *)
ResetObjectsKeepState == status' = NewStatus /\ UNCHANGED state

ResetObjects == status' = NewStatus /\ state' = Reset(state)
=============================================================================
