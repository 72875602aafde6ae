--------------------------- MODULE MCMinimization ----------------------------
(***************************************************************************)
(* Minimization of the rounds found for race_register.cpp and              *)
(* nonlinear_mutex.cpp.                                                    *)
(***************************************************************************)
EXTENDS Minimization, TargetTable

CONSTANT MaxSwitches   \* bound on the changes of thread in a round

ZeroStatus == [i \in Threads |-> 0]

RegisterObjs == {FreshObj("race_register")}
BothObjs     == {FreshObj("race_register"), FreshObj("nonlinear_mutex")}

(* A bound on the rounds that are generated and explored. *)
Switches ==
  Cardinality({p \in 2..Len(full_history) :
                 ThreadOf(full_history[p]) # ThreadOf(full_history[p - 1])})
FewSwitches == call # "replay" => Switches <= MaxSwitches

-----------------------------------------------------------------------------
(* verifying.cpp:107 says "minimization for scenarios with locks is not    *)
(* supported".  What makes it fail is one thing only: when a round is      *)
(* reset, a kept task that made a FUTEX_WAIT which IsBlocked has not taken *)
(* back was passed over by TerminateTasks, so it cannot be restarted.  The *)
(* wait may be over, since a replay resumes tasks without asking IsBlocked. *)
AbortsOnlyOnWaiters ==
  phase = "abort" =>
    /\ step = "reset" /\ TerminateEnds
    /\ \E i \in Threads : \E k \in DOMAIN threads[i] :
         /\ ~IsReturned(threads[i][k])
         /\ threads[i][k].fstate # NoFutex
         /\ ~IsTaskRemoved(threads[i][k].id)
=============================================================================
