------------------------ MODULE MCStrategyScheduler -------------------------
(***************************************************************************)
(* StrategyScheduler on the test programs of the repository.               *)
(***************************************************************************)
EXTENDS StrategyScheduler, TargetTable

ZeroStatus == [i \in Threads |-> 0]

Fresh(programs) == {FreshObj(program) : program \in programs}

LockObjs     == Fresh({"simple_mutex", "folly_rwspinlock", "deadlock"})
LockFreeObjs == Fresh({"race_register", "atomic_register", "nonlinear_queue",
                       "nonlinear_set", "nonlinear_ms_queue",
                       "nonlinear_treiber_stack", "fast_queue"})
QueueObjs    == Fresh({"mutex_queue"})
RoundObjs    == Fresh({"mutex_queue", "simple_mutex"})

Program == state[1]
Object  == state[2]

-----------------------------------------------------------------------------
(* Threads that hold a lock: their last task is a lock that has acquired   *)
(* it, or an unlock that has not released it.                              *)
Holders(lock, unlock) ==
  {i \in Threads :
     /\ threads[i] # << >>
     /\ LET t == Last(threads[i])
        IN \/ t.call.name = lock /\ t.loc[1] \in {"acquired", "end"}
           \/ t.call.name = unlock /\ t.loc[1] \in {"entry", "unlock", "bits_"}}

(* The verifiers start an unlock only in the thread that holds the lock    *)
(* ("we are not allowed to schedule unlock before lock call, it is UB"),   *)
(* although they learn of a lock only when its task has returned: a mutex  *)
(* never has a second owner, a writer excludes readers, and the word of    *)
(* the lock says who holds it.                                             *)
LockIsOwned ==
  phase = "run" =>
    /\ Program = "simple_mutex" =>
         LET owners == Holders("Lock", "Unlock")
         IN /\ Cardinality(owners) <= 1
            /\ (Object = 0) = (owners = {})
    /\ Program = "folly_rwspinlock" =>
         LET writers == Holders("lock", "unlock")
             readers == Holders("lock_shared", "unlock_shared")
         IN /\ Object = Cardinality(writers) + 4 * Cardinality(readers)
            /\ writers # {} => Cardinality(writers) = 1 /\ readers = {}

(* "deadlock" is asserted only in a deadlock: every thread is parked in    *)
(* the queue of a mutex whose holder is parked in the other queue.  No     *)
(* other assert fails, unless TerminateTasks runs the parked tasks.        *)
DeadlockIsReal ==
  phase = "abort" /\ result = "none" /\ finished_tasks < max_tasks =>
    /\ Program = "deadlock"
    /\ \A i \in Threads :
         /\ threads[i] # << >>
         /\ \E m \in 1..2 :
              /\ Last(threads[i]).id \in {Object[m][k] : k \in 2..Len(Object[m])}
              /\ Head(Object[m]) \in {Object[3 - m][k] : k \in 2..Len(Object[3 - m])}

(* The round is over and the tasks that are left wait for a spin lock      *)
(* whose holder has returned.                                              *)
SpinsForever ==
  /\ phase \in {"terminate", "destroy"}
  /\ Program = "folly_rwspinlock"
  /\ \A i \in Threads : \A k \in DOMAIN threads[i] :
       LET t == threads[i][k]
       IN ~IsReturned(t) => /\ t.call.name \in {"lock", "lock_shared"}
                            /\ t.loc[1] = "bits_"
                            /\ ~Body(state, t).returned
  /\ \E i \in Threads : threads[i] # << >> /\ ~IsReturned(Last(threads[i]))

(* Every run ends and the strategy is destroyed: no task is left out for   *)
(* ever, and TerminateTasks spins only in the one way that the TODO of     *)
(* scheduler.h:190 leaves open.  The random strategy may pick a task that  *)
(* spins on a lock again and again, so for the spin lock this is about the *)
(* round robin strategy.                                                   *)
LocksRunEnds ==
  (Program = "folly_rwspinlock" => kind = "rr") =>
    <>(phase \in {"done", "abort"} \/ SpinsForever)

-----------------------------------------------------------------------------
(* The verdict on a round has just been given. *)
Judged ==
  /\ phase \in {"terminate", "destroy"} /\ round < max_rounds
  /\ thread_index = 0 /\ \A i \in Threads : task_indexes[i] = 1

(* A round is reported exactly if its history, read through the references *)
(* it holds, is not linearizable, with the tasks that were left in the     *)
(* middle counted as pending.                                              *)
ReportIsRight ==
  Judged => (result = "histories")
              = ~TargetLinearizable(Dereferenced(sequential_history))

(* The test programs that are linearizable. *)
CorrectPrograms == {"simple_mutex", "folly_rwspinlock", "atomic_register", "mutex_queue"}

(* A correct target is never reported, whatever is left in the middle when *)
(* a round ends and whatever the rounds before it did.                     *)
NoFalseAlarm == result = "histories" => Program \notin CorrectPrograms

(* nonlinear_set.cpp:61: "to find nonlinearizable scenario we need 4       *)
(* operations with the same argument".                                     *)
SetNeedsFourOperations ==
  result = "histories" /\ Program = "nonlinear_set" => new_task_id >= 4

(* No assert fails while a round is generated, in the first round or in a  *)
(* later one, and no draw goes on for ever: no deadlock is reported and    *)
(* the verifier lets some task start.  (TerminateTasks resumes parked      *)
(* tasks, whose asserts may fail.)                                         *)
RoundsDoNotAbort == [][phase = "run" => phase' \notin {"abort", "draw"}]_vars

(* assert(cnt == 1) of mutex_queue.cpp: while a round is generated, at     *)
(* most one task is between Lock and Unlock.                               *)
SectionIsExclusive ==
  phase = "run" /\ Program = "mutex_queue" =>
    Cardinality({i \in Threads :
      /\ threads[i] # << >>
      /\ LET t == Last(threads[i])
         IN \/ t.loc[1] = "locked" /\ ~IsParked(t, parked)
            \/ t.loc[1] \in {"++cnt", "cnt+1", "assert", "--cnt", "cnt-1", "unlock"}})
      <= 1
=============================================================================
