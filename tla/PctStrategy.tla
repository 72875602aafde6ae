---------------------------- MODULE PctStrategy -----------------------------
(***************************************************************************)
(* PctStrategy (runtime/include/pct_strategy.h): the thread of the highest *)
(* priority runs, and at the change points of the round the thread that    *)
(* was picked gets a lower priority.  Rounds get deeper, and the change    *)
(* points are drawn from the average length of the schedules so far.       *)
(***************************************************************************)
EXTENDS PickStrategy

CONSTANTS
  forbid_all_same,
  depth_limit,        \* the cap on current_depth, 50 in the code
  MaxLength           \* no schedule of a model is longer

ASSUME PctAssumption ==
  /\ forbid_all_same \in BOOLEAN
  /\ depth_limit \in Nat \ {0}
  /\ MaxLength \in Nat

VARIABLES
  priorities,
  priority_change_points,
  current_depth,
  current_schedule_length,
  k_statistics        \* of the vector, the sum and the size

pctVars == <<priorities, priority_change_points, current_depth,
             current_schedule_length, k_statistics>>
pickVars == <<kind, next_task, pctVars>>
strategyVars == <<baseVars, pctVars>>

(* PrepareForDepth shuffles the priorities.  The distribution of the       *)
(* change points has no value to give when k is 0: libstdc++ then returns  *)
(* an arbitrary one, and 0 stands for those no schedule reaches.           *)
Priorities(depth) ==
  {p \in [Threads -> depth..(depth + threads_count - 1)] :
     \A i, j \in Threads : p[i] = p[j] => i = j}
ChangePoints(depth, k) ==
  [1..(depth - 1) -> IF k = 0 THEN 0..MaxLength ELSE 1..k]

(* Other strategies have none of this state. *)
InitPct ==
  /\ current_depth = 1
  /\ current_schedule_length = 0
  /\ k_statistics = [sum |-> 0, size |-> 0]
  /\ priority_change_points = << >>
  /\ IF kind = "pct" THEN priorities \in Priorities(1)
     ELSE priorities = [i \in Threads |-> 0]

InitStrategy == InitBase /\ InitPct

-----------------------------------------------------------------------------
(* The loop over the priorities, for the threads in S: the last one of the *)
(* highest priority.                                                       *)
HighestOf(S) ==
  {i \in S : \A j \in S : \/ priorities[j] < priorities[i]
                          \/ priorities[j] = priorities[i] /\ j <= i}

PctPicks ==
  {[thread |-> i, next |-> next_task, looked |-> Threads] :
     i \in HighestOf({j \in Threads : ~Skipped(j)})}

(* The priority given to thread i by the change points that were reached,  *)
(* positions counted from 1; the last one decides.                         *)
Demoted(i, points) ==
  [priorities EXCEPT
     ![i] = current_depth + 1 - (CHOOSE p \in points : \A q \in points : q <= p)]

(* What Next and NextSchedule do to the strategy once a thread is picked. *)
AfterPick(p) ==
  /\ next_task' = p.next
  /\ UNCHANGED <<kind, priority_change_points, current_depth, k_statistics>>
  /\ IF kind = "pct"
     THEN LET length == current_schedule_length + 1
              points == {j \in DOMAIN priority_change_points :
                           priority_change_points[j] = length}
          IN /\ current_schedule_length' = length
             /\ priorities' = IF points = {} THEN priorities
                              ELSE Demoted(p.thread, points)
     ELSE UNCHANGED <<current_schedule_length, priorities>>

-----------------------------------------------------------------------------
(* CountNames *)
CountNames(except_thread) ==
  {Last(threads[i]).call.name :
     i \in {j \in Threads \ {except_thread} : threads[j] # << >>}}

(* Mutant: the verifier is not asked. *)
PctCreatesUnverified(i) == Generates(state, i)

(* The tasks Next can create in thread i.  With forbid_all_same it draws   *)
(* constructors until one passes the verifier and `names` has two members; *)
(* `names` keeps the constructors that were drawn and rejected, so one of  *)
(* the name all other threads run passes after another one was rejected.   *)
(* Without forbid_all_same the verifier is not asked.  If there is none,   *)
(* it draws for ever (DrawsForever).                                       *)
PctCreates(i) ==
  LET drawn == Generates(state, i)
      names == CountNames(i)
      rejected(d) == names = {} \/ ~Verify(status, d, i, TRUE)
      passes(c) ==
        /\ Verify(status, c, i, TRUE)
        /\ \/ names \ {c.name} # {}
           \/ \E d \in drawn : d.name # c.name /\ rejected(d)
  IN {c \in drawn : forbid_all_same => passes(c)}

-----------------------------------------------------------------------------
(* UpdateStatistics, at the end of StartNextRound and ResetCurrentRound. *)
UpdateStatistics ==
  LET depth == IF current_depth + 1 >= depth_limit THEN depth_limit
               ELSE current_depth + 1
      stats == [sum |-> k_statistics.sum + current_schedule_length,
                size |-> k_statistics.size + 1]
  IN /\ current_depth' = depth
     /\ k_statistics' = stats
     /\ current_schedule_length' = 0
     /\ priorities' \in Priorities(depth)
     /\ priority_change_points' \in ChangePoints(depth, stats.sum \div stats.size)

(* Only PctStrategy overrides these two methods to do more. *)
PrepareNextSchedule == IF kind = "pct" THEN UpdateStatistics ELSE UNCHANGED pctVars
=============================================================================
