----------------------------- MODULE RoundProofs -----------------------------
(***************************************************************************)
(* Proofs about StrategyScheduler::Run with a well-typed target: its state *)
(* is well-typed, rounds are isolated, only verified tasks are started,    *)
(* and with the recursive checker a round is reported exactly if it is not *)
(* linearizable.                                                           *)
(***************************************************************************)
EXTENDS StrategySchedulerProofs, Targets

CONSTANTS SpecStates, first_state, Result(_, _), Effect(_, _)

(* The checker ltest::Run builds, on results that are numbers. *)
Lin == INSTANCE RecursiveCheckerProofs WITH Rets <- Int

(* Typed tasks; where a task goes on is the target's business. *)
IsTyped(t) == IsTask(t) /\ TaskOK(t)

(* What is asked of a target.  Objs are the objects it can be left with,   *)
(* and Fits[o] are the tasks that can be in the queues while the object is *)
(* o: new ones of the generated calls, the ones that are resumed and, with *)
(* the object as they leave it, those that were there before.  Nothing is  *)
(* asked of the resume of a task that has returned, or when an assert of   *)
(* the target fails.                                                       *)
TargetOK(Objs, Fits) ==
  /\ NewObjs \subseteq Objs
  /\ \A o \in Objs : Reset(o) \in Objs
  /\ \A o \in Objs : \A t \in Fits[o] : IsTyped(t) /\ AfterIsBlocked(t, o) \in Fits[o]
  /\ \A o \in Objs, i \in Threads, id \in Nat : \A c \in Generates(o, i) :
       New(id, c, i) \in Fits[o]
  /\ \A o \in Objs : \A t \in Fits[o] : ~IsReturned(t) /\ ~Fails(t, o) =>
       /\ ObjAfter(t, o) \in Objs
       /\ Resumed(t, o) \in Fits[ObjAfter(t, o)]
       /\ Fits[o] \subseteq Fits[ObjAfter(t, o)]

(* Queues of tasks of the set S. *)
QueuesOf(th, S) == \A i \in Threads : \A k \in 1..Len(th[i]) : th[i][k] \in S

AreTyped(th) == \A i \in Threads : \A k \in 1..Len(th[i]) : IsTyped(th[i][k])

(* Tasks that fit an object are typed. *)
LEMMA FittingAreTyped ==
  ASSUME NEW Objs, NEW Fits, TargetOK(Objs, Fits), NEW o \in Objs,
         NEW th, QueuesOf(th, Fits[o])
  PROVE  AreTyped(th)
<1>1. \A t \in Fits[o] : IsTyped(t) BY DEF TargetOK
<1> QED BY <1>1 DEF AreTyped, QueuesOf

(* Pick leaves tasks of the target. *)
LEMMA LookingKeepsTarget ==
  ASSUME NEW Objs, NEW Fits, TargetOK(Objs, Fits), AreQueues(threads), state \in Objs,
         QueuesOf(threads, Fits[state]), NEW S
  PROVE  QueuesOf(AfterLooking(S), Fits[state])
<1> SUFFICES ASSUME NEW i \in Threads,
                    NEW q, q = threads[i], NEW u, u = AfterLooking(S)[i]
             PROVE  \A k \in 1..Len(u) : u[k] \in Fits[state]
  BY DEF QueuesOf
<1>1. IsQueue(q) /\ \A k \in 1..Len(q) : q[k] \in Fits[state]
  BY DEF AreQueues, QueuesOf
<1>2. Len(q) \in Nat /\ (q = << >> <=> Len(q) = 0) BY <1>1, EmptyQueue
<1>3. CASE i \in S /\ q # << >> /\ ~IsParked(Last(q), parked)
  <2>1. PICK e : e = AfterIsBlocked(q[Len(q)], state) OBVIOUS
  <2>2. u = [q EXCEPT ![Len(q)] = e] BY <1>3, <2>1 DEF AfterLooking
  <2>3. Len(q) \in 1..Len(q) BY <1>2, <1>3
  <2>4. Replaced(u, q, Len(q), e) BY <1>1, <2>2, <2>3, ReplaceOne DEF IsQueue
  <2>5. e \in Fits[state] BY <1>1, <2>1, <2>3 DEF TargetOK
  <2> QED BY <1>1, <2>4, <2>5 DEF Replaced
<1>4. CASE ~(i \in S /\ q # << >> /\ ~IsParked(Last(q), parked))
  BY <1>1, <1>4 DEF AfterLooking
<1> QED BY <1>3, <1>4

-----------------------------------------------------------------------------
(* The part of the type invariant that depends on the target, and that a   *)
(* round is over only while there are rounds left.  The destructor of the  *)
(* strategy resets the object under the last tasks.                        *)
TargetInv(Objs, Fits) ==
  /\ state \in Objs
  /\ AreTyped(threads)
  /\ phase # "done" => QueuesOf(threads, Fits[state])
  /\ parked \subseteq Nat
  /\ has_nonterminated_threads \in BOOLEAN
  /\ phase \in {"run", "minimize", "terminate", "destroy", "done", "abort", "draw"}
  /\ round \in 0..max_rounds
  /\ finished_tasks \in 0..max_tasks
  /\ sequential_history \in Seq(RefEvent)
  /\ full_history \in Seq(Nat)
  /\ result \in {"none", "nullopt", "histories", "exception"}
  /\ phase = "terminate" => round < max_rounds /\ new_task_id = 0

(* What Record leaves. *)
LEMMA RecordKeepsTypes ==
  ASSUME NEW i \in Threads, NEW r, IsTyped(r), NEW is_new \in BOOLEAN,
         InRound, Record(i, r, is_new), finished_tasks \in 0..max_tasks,
         sequential_history \in Seq(RefEvent), full_history \in Seq(Nat)
  PROVE  /\ sequential_history' \in Seq(RefEvent) /\ full_history' \in Seq(Nat)
         /\ finished_tasks' \in 0..max_tasks
<1>1. r.id \in Nat /\ r.ret \in Int BY DEF IsTyped, TaskOK
<1>2. InvokeOf(r, i) \in RefEvent /\ ResponseOf(r, i) \in RefEvent
  BY <1>1 DEF InvokeOf, ResponseOf, RefEvent, NoRet
<1>3. sequential_history' \in Seq(RefEvent)
  <2>1. PICK a, b : /\ a = IF is_new THEN <<InvokeOf(r, i)>> ELSE << >>
                    /\ b = IF IsReturned(r) THEN <<ResponseOf(r, i)>> ELSE << >>
    OBVIOUS
  <2>2. a \in Seq(RefEvent) /\ b \in Seq(RefEvent) BY <1>2, <2>1
  <2>3. sequential_history' = sequential_history \o a \o b BY <2>1 DEF Record
  <2> QED BY <2>2, <2>3, ConcatProperties
<1>4. full_history' \in Seq(Nat)
  BY <1>1, AppendProperties, EmptySeq DEF Record
<1>5. finished_tasks' \in 0..max_tasks
  BY BoundsAssumption DEF Record, InRound, FinishedNow
<1> QED BY <1>3, <1>4, <1>5

(* What a resume of a task of the target leaves. *)
LEMMA ResumeKeepsTypes ==
  ASSUME NEW Objs, NEW Fits, TargetOK(Objs, Fits), state \in Objs, parked \subseteq Nat,
         NEW t \in Fits[state], ~IsReturned(t), ~Fails(t, state)
  PROVE  /\ ObjAfter(t, state) \in Objs
         /\ Resumed(t, state) \in Fits[ObjAfter(t, state)]
         /\ IsTyped(Resumed(t, state))
         /\ Fits[state] \subseteq Fits[ObjAfter(t, state)]
         /\ ParkedAfter(t, state, parked) \subseteq Nat
<1>1. t.id \in Nat BY DEF TargetOK, IsTyped, TaskOK
<1>2. ParkedAfter(t, state, parked) \subseteq Nat BY <1>1 DEF ParkedAfter
<1>3. /\ ObjAfter(t, state) \in Objs /\ Resumed(t, state) \in Fits[ObjAfter(t, state)]
      /\ Fits[state] \subseteq Fits[ObjAfter(t, state)]
  BY DEF TargetOK
<1> QED BY <1>2, <1>3 DEF TargetOK

(* A task is started. *)
LEMMA StartKeepsTypes ==
  ASSUME NEW Objs, NEW Fits, TargetOK(Objs, Fits), StateInv, TargetInv(Objs, Fits),
         StartTask
  PROVE  TargetInv(Objs, Fits)'
<1>1a. PICK i \in Threads : \E c, th, r : Starts(i, c, th, r) BY StartShape
<1>1. PICK c, th, r : Starts(i, c, th, r) BY <1>1a
<1>2. /\ InRound /\ phase = "run" /\ UNCHANGED <<terminateVars, phase, round, result>>
  BY DEF StartTask, InRound
<1>3. /\ state \in Objs /\ QueuesOf(threads, Fits[state]) /\ parked \subseteq Nat
      /\ AreQueues(threads) /\ new_task_id \in Nat
  BY <1>2 DEF TargetInv, StateInv
<1>4. PICK t : t = New(new_task_id, c, i) OBVIOUS
<1>5. c \in Generates(state, i) BY <1>1 DEF Starts, Creates, PctCreates, PickCreates
<1>6. t \in Fits[state] /\ ~IsReturned(t)
  BY <1>3, <1>4, <1>5 DEF TargetOK, New, IsReturned
<1>7. /\ r = Resumed(t, state) /\ ~Fails(t, state) /\ state' = ObjAfter(t, state)
      /\ parked' = ParkedAfter(t, state, parked)
      /\ TaskAdded(threads', th, i, r) /\ Record(i, r, TRUE)
  BY <1>1, <1>4 DEF Starts
<1>8. /\ r \in Fits[state'] /\ IsTyped(r) /\ state' \in Objs /\ parked' \subseteq Nat
      /\ Fits[state] \subseteq Fits[state']
  BY <1>3, <1>6, <1>7, ResumeKeepsTypes
<1>9. QueuesOf(th, Fits[state])
  BY <1>1, <1>3, LookingKeepsTarget DEF Starts
<1>10. QueuesOf(threads', Fits[state'])
  <2>1. PICK tg, S : tg = threads' /\ S = Fits[state'] OBVIOUS
  <2>2. /\ \A j \in Threads : j # i => tg[j] = th[j]
        /\ Len(th[i]) \in Nat /\ Len(tg[i]) = Len(th[i]) + 1
        /\ \A k \in 1..Len(th[i]) : tg[i][k] = th[i][k]
        /\ tg[i][Len(th[i]) + 1] = r
    BY <1>7, <2>1 DEF TaskAdded, Appended
  <2>3. \A k \in 1..Len(tg[i]) : k \in 1..Len(th[i]) \/ k = Len(th[i]) + 1 BY <2>2
  <2>4. r \in S /\ \A j \in Threads : \A k \in 1..Len(th[j]) : th[j][k] \in S
    BY <1>8, <1>9, <2>1 DEF QueuesOf
  <2>5. \A k \in 1..Len(tg[i]) : tg[i][k] \in S BY <2>2, <2>3, <2>4
  <2>6. \A j \in Threads : \A k \in 1..Len(tg[j]) : tg[j][k] \in S BY <2>2, <2>4, <2>5
  <2> QED BY <2>1, <2>6 DEF QueuesOf
<1>11. /\ sequential_history' \in Seq(RefEvent) /\ full_history' \in Seq(Nat)
       /\ finished_tasks' \in 0..max_tasks
  BY <1>2, <1>7, <1>8, RecordKeepsTypes DEF TargetInv
<1>12. UNCHANGED <<has_nonterminated_threads, phase, round, result>>
  BY <1>2 DEF terminateVars
<1>13. AreTyped(threads') BY <1>8, <1>10, FittingAreTyped
<1> QED BY <1>2, <1>8, <1>10, <1>11, <1>12, <1>13 DEF TargetInv

(* Queues in which one task was replaced by another. *)
LEMMA ChangeKeepsTarget ==
  ASSUME NEW S, NEW T, S \subseteq T, NEW th, QueuesOf(th, S), NEW i \in Threads,
         NEW k, NEW r \in T, NEW tg, TaskChanged(tg, th, i, k, r)
  PROVE  QueuesOf(tg, T)
<1>1. /\ \A j \in Threads : j # i => tg[j] = th[j]
      /\ Len(tg[i]) = Len(th[i])
      /\ \A m \in 1..Len(th[i]) : tg[i][m] = r \/ tg[i][m] = th[i][m]
  BY DEF TaskChanged, Replaced
<1>2. \A m \in 1..Len(tg[i]) : tg[i][m] \in T BY <1>1 DEF QueuesOf
<1>3. \A j \in Threads : j # i => \A m \in 1..Len(tg[j]) : tg[j][m] \in T
  BY <1>1 DEF QueuesOf
<1> QED BY <1>2, <1>3 DEF QueuesOf

(* A task is resumed. *)
LEMMA RestartKeepsTypes ==
  ASSUME NEW Objs, NEW Fits, TargetOK(Objs, Fits), StateInv, TargetInv(Objs, Fits),
         ResumeTask
  PROVE  TargetInv(Objs, Fits)'
<1>1a. PICK i \in Threads : \E th, r : Resumes(i, th, r) BY ResumeShape
<1>1. PICK th, r : Resumes(i, th, r) BY <1>1a
<1>2. /\ InRound /\ phase = "run" /\ UNCHANGED <<terminateVars, phase, round, result>>
  BY DEF ResumeTask, InRound
<1>3. /\ state \in Objs /\ QueuesOf(threads, Fits[state]) /\ parked \subseteq Nat
      /\ AreQueues(threads)
  BY <1>2 DEF TargetInv, StateInv
<1>4. QueuesOf(th, Fits[state])
  BY <1>1, <1>3, LookingKeepsTarget DEF Resumes
<1>5. PICK t : t = th[i][Len(th[i])] OBVIOUS
<1>6. /\ r = Resumed(t, state) /\ ~Fails(t, state) /\ state' = ObjAfter(t, state)
      /\ parked' = ParkedAfter(t, state, parked)
      /\ TaskChanged(threads', th, i, Len(th[i]), r) /\ Record(i, r, FALSE)
      /\ IsOpen(threads[i]) /\ AlikeQueues(th, threads)
  BY <1>1, <1>5 DEF Resumes
<1>7. t \in Fits[state] /\ ~IsReturned(t)
  <2>1. Len(th[i]) = Len(threads[i]) /\ Len(threads[i]) \in Nat /\ Len(threads[i]) > 0
    BY <1>3, <1>6, IdsAreTyped DEF AlikeQueues, IsOpen
  <2>2. Len(th[i]) \in 1..Len(th[i]) BY <2>1
  <2>3. Alike(threads[i][Len(th[i])], t) BY <1>5, <1>6, <2>1, <2>2 DEF AlikeQueues
  <2>4. ~IsReturned(t) BY <1>6, <2>1, <2>3 DEF Alike, IsOpen, IsReturned
  <2> QED BY <1>4, <1>5, <2>2, <2>4 DEF QueuesOf
<1>8. /\ r \in Fits[state'] /\ IsTyped(r) /\ state' \in Objs /\ parked' \subseteq Nat
      /\ Fits[state] \subseteq Fits[state']
  BY <1>3, <1>6, <1>7, ResumeKeepsTypes
<1>9. QueuesOf(threads', Fits[state'])
  BY <1>4, <1>6, <1>8, ChangeKeepsTarget
<1>10. /\ sequential_history' \in Seq(RefEvent) /\ full_history' \in Seq(Nat)
       /\ finished_tasks' \in 0..max_tasks
  BY <1>2, <1>6, <1>8, RecordKeepsTypes DEF TargetInv
<1>11. UNCHANGED <<has_nonterminated_threads, phase, round, result>>
  BY <1>2 DEF terminateVars
<1>12. AreTyped(threads') BY <1>8, <1>9, FittingAreTyped
<1> QED BY <1>2, <1>8, <1>9, <1>10, <1>11, <1>12 DEF TargetInv

(* A visit of TerminateTasks. *)
LEMMA VisitKeepsTypes ==
  ASSUME NEW Objs, NEW Fits, TargetOK(Objs, Fits), StateInv, TargetInv(Objs, Fits),
         thread_index \in Threads, VisitThread, phase # "done",
         UNCHANGED <<new_task_id, schedulerVars>>
  PROVE  TargetInv(Objs, Fits)'
<1>1. /\ state \in Objs /\ QueuesOf(threads, Fits[state]) /\ parked \subseteq Nat
      /\ has_nonterminated_threads \in BOOLEAN /\ AreQueues(threads)
  BY DEF TargetInv, StateInv
<1>2. /\ state' \in Objs /\ QueuesOf(threads', Fits[state']) /\ parked' \subseteq Nat
      /\ has_nonterminated_threads' \in BOOLEAN
  <2>1. CASE UNCHANGED <<threads, state, parked, has_nonterminated_threads>>
    BY <1>1, <2>1
  <2>2. CASE ~UNCHANGED <<threads, state, parked, has_nonterminated_threads>>
    <3>a. PICK m \in 1..Len(threads[thread_index]) :
            LET t == AfterIsBlocked(threads[thread_index][m], state)
            IN /\ ~IsReturned(threads[thread_index][m])
               /\ ~Fails(t, state)
               /\ TaskChanged(threads', threads, thread_index, m, Resumed(t, state))
               /\ state' = ObjAfter(t, state)
               /\ parked' = ParkedAfter(t, state, parked)
               /\ has_nonterminated_threads' = TRUE
      BY <2>2, VisitShape
    <3>b. PICK t : t = AfterIsBlocked(threads[thread_index][m], state) OBVIOUS
    <3>c. PICK r : r = Resumed(t, state) OBVIOUS
    <3>1. /\ ~IsReturned(threads[thread_index][m])
          /\ t = AfterIsBlocked(threads[thread_index][m], state)
          /\ r = Resumed(t, state) /\ ~Fails(t, state)
          /\ TaskChanged(threads', threads, thread_index, m, r)
          /\ state' = ObjAfter(t, state)
          /\ parked' = ParkedAfter(t, state, parked)
          /\ has_nonterminated_threads' = TRUE
      BY <3>a, <3>b, <3>c
    <3>2. PICK v : v = threads[thread_index][m] OBVIOUS
    <3>3. v \in Fits[state] /\ IsTask(v)
      BY <1>1, <3>1, <3>2 DEF QueuesOf, AreQueues, IsQueue
    <3>4. t \in Fits[state] BY <1>1, <3>1, <3>2, <3>3 DEF TargetOK
    <3>5. ~IsReturned(t)
      <4>1. Alike(v, t) BY <3>1, <3>2, <3>3, TasksStayTasks
      <4> QED BY <3>1, <3>2, <4>1 DEF Alike, IsReturned
    <3>6. /\ r \in Fits[state'] /\ state' \in Objs /\ parked' \subseteq Nat
          /\ Fits[state] \subseteq Fits[state']
      BY <1>1, <3>1, <3>4, <3>5, ResumeKeepsTypes
    <3>7. QueuesOf(threads', Fits[state']) BY <1>1, <3>1, <3>6, ChangeKeepsTarget
    <3> QED BY <3>1, <3>6, <3>7
  <2> QED BY <2>1, <2>2
<1>3. AreTyped(threads') BY <1>2, FittingAreTyped
<1> QED BY <1>2, <1>3 DEF TargetInv, schedulerVars

(* The first round. *)
LEMMA InitHasTypes ==
  ASSUME NEW Objs, NEW Fits, TargetOK(Objs, Fits), Init
  PROVE  TargetInv(Objs, Fits)
<1>1. /\ threads = [i \in Threads |-> << >>] /\ state \in NewObjs /\ parked = {}
      /\ has_nonterminated_threads = FALSE /\ phase = "run" /\ round = 0
      /\ finished_tasks = 0 /\ sequential_history = << >> /\ full_history = << >>
      /\ result = "none"
  BY DEF Init, InitStrategy, InitBase
<1>2. QueuesOf(threads, Fits[state]) BY <1>1, EmptySeq DEF QueuesOf
<1>3. state \in Objs BY <1>1 DEF TargetOK
<1>4. round \in 0..max_rounds /\ finished_tasks \in 0..max_tasks
  BY <1>1, BoundsAssumption
<1>5. sequential_history \in Seq(RefEvent) /\ full_history \in Seq(Nat)
  BY <1>1, EmptySeq
<1>6. AreTyped(threads) BY <1>2, <1>3, FittingAreTyped
<1> QED BY <1>1, <1>2, <1>3, <1>4, <1>5, <1>6 DEF TargetInv

(* Every step keeps the types. *)
LEMMA NextKeepsTypes ==
  ASSUME NEW Objs, NEW Fits, TargetOK(Objs, Fits), StateInv, TargetInv(Objs, Fits),
         [Next]_vars
  PROVE  TargetInv(Objs, Fits)'
<1>1. CASE StartTask BY <1>1, StartKeepsTypes
<1>2. CASE ResumeTask BY <1>2, RestartKeepsTypes
<1>3. CASE Abort \/ CheckerThrows
  <2>1. phase # "done"
    BY <1>3 DEF Abort, AssertFails, DrawsForever, CheckerThrows, InRound, RoundFinished
  <2> QED
    BY <1>3, <2>1 DEF Abort, CheckerThrows, strategyVars, baseVars, terminateVars, TargetInv
<1>4. CASE FinishRound
  BY <1>4 DEF FinishRound, RoundFinished, BeginTerminateTasks, TargetInv
<1>5. CASE ReportRound
  BY <1>5 DEF ReportRound, RoundFinished, BeginTerminateTasks, terminateVars, TargetInv
<1>6. CASE TerminateTasks
  <2>1. UNCHANGED schedulerVars /\ phase # "done" BY <1>6 DEF TerminateTasks
  <2>2. CASE TerminateVisit
    <3>1. thread_index \in Threads /\ VisitThread /\ UNCHANGED new_task_id
      BY <2>2 DEF TerminateVisit
    <3> QED BY <2>1, <3>1, VisitKeepsTypes
  <2>3. CASE TerminateAgain
    BY <2>1, <2>3 DEF TerminateAgain, schedulerVars, TargetInv
  <2> QED BY <1>6, <2>2, <2>3 DEF TerminateTasks
<1>7. CASE StartNextRound
  <2>1. /\ phase = "terminate" /\ state' = Reset(state)
        /\ threads' = [i \in Threads |-> << >>] /\ parked' = {}
        /\ round' = round + 1 /\ finished_tasks' = 0
        /\ sequential_history' = << >> /\ full_history' = << >> /\ phase' = "run"
        /\ UNCHANGED <<has_nonterminated_threads, result>>
    BY <1>7 DEF StartNextRound, ResetObjects, terminateVars
  <2>2. state' \in Objs BY <2>1 DEF TargetInv, TargetOK
  <2>3. QueuesOf(threads', Fits[state'])
    <3>1. \A i \in Threads : Len(threads'[i]) = 0 BY <2>1, EmptySeq
    <3> QED BY <3>1 DEF QueuesOf
  <2>4. round' \in 0..max_rounds BY <2>1, BoundsAssumption DEF TargetInv
  <2>5. finished_tasks' \in 0..max_tasks BY <2>1, BoundsAssumption
  <2>6. AreTyped(threads') BY <2>2, <2>3, FittingAreTyped
  <2> QED BY <2>1, <2>2, <2>3, <2>4, <2>5, <2>6 DEF TargetInv
<1>8. CASE RunReturns
  BY <1>8 DEF RunReturns, BeginTerminateTasks, TargetInv
<1>9. CASE Destroyed
  <2>1. state' \in Objs BY <1>9 DEF Destroyed, ResetObjects, TargetInv, TargetOK
  <2> QED BY <1>9, <2>1 DEF Destroyed, terminateVars, TargetInv
<1>10. CASE Ended \/ UNCHANGED vars
  BY <1>10 DEF Ended, vars, strategyVars, baseVars, terminateVars, schedulerVars, TargetInv
<1> QED BY <1>1, <1>2, <1>3, <1>4, <1>5, <1>6, <1>7, <1>8, <1>9, <1>10 DEF Next

(* The state of the scheduler is well-typed for every target whose objects *)
(* and places make a closed set.                                           *)
THEOREM TypesAreKept ==
  ASSUME NEW Objs, NEW Fits, TargetOK(Objs, Fits)
  PROVE  Spec => []TypeOK
<1>1. Init => TargetInv(Objs, Fits) BY InitHasTypes
<1>2. StateInv /\ TargetInv(Objs, Fits) /\ [Next]_vars => TargetInv(Objs, Fits)'
  BY NextKeepsTypes
<1>3. StateInv /\ TargetInv(Objs, Fits) => TypeOK
  <2> SUFFICES ASSUME StateInv, TargetInv(Objs, Fits) PROVE TypeOK OBVIOUS
  <2>1. ASSUME NEW i \in Threads, NEW k \in DOMAIN threads[i]
        PROVE  TaskOK(threads[i][k])
    <3>1. IsSeq(threads[i]) BY DEF StateInv, AreQueues, IsQueue
    <3> QED BY <3>1, SeqDomain DEF TargetInv, AreTyped, IsTyped
  <2>2. /\ kind \in Kinds /\ DOMAIN threads = Threads /\ new_task_id \in Nat
        /\ next_task \in Threads /\ thread_index \in 0..threads_count
        /\ task_indexes \in [Threads -> Nat \ {0}]
    BY DEF StateInv, AreQueues
  <2> QED BY <2>1, <2>2 DEF TargetInv, TypeOK
<1> QED BY <1>1, <1>2, <1>3, InvariantHolds, PTL DEF Spec

(* A round begins on a fresh object, verifier and tokens, with no task and *)
(* the ids counted from 0: whatever TerminateTasks did after the last      *)
(* round, Reset and the destructors of the tasks undo it, provided that    *)
(* Reset makes a new object (two of the targets keep values there).        *)
THEOREM RoundsStartAfresh ==
  ASSUME NEW Objs, NEW Fits, TargetOK(Objs, Fits), \A o \in Objs : Reset(o) \in NewObjs
  PROVE  Spec => []RoundsAreIsolated
<1>1. Init => TargetInv(Objs, Fits) /\ RoundsAreIsolated
  BY InitHasTypes DEF Init, InitStrategy, InitBase, RoundsAreIsolated
<1>2. StateInv /\ TargetInv(Objs, Fits) /\ [Next]_vars => TargetInv(Objs, Fits)'
  BY NextKeepsTypes
<1>3. StateInv /\ TargetInv(Objs, Fits) /\ RoundsAreIsolated /\ [Next]_vars
        => RoundsAreIsolated'
  <2> SUFFICES ASSUME StateInv, TargetInv(Objs, Fits), RoundsAreIsolated, [Next]_vars
               PROVE  RoundsAreIsolated'
    OBVIOUS
  <2>1. IsSeq(sequential_history) BY DEF StateInv
  <2>2. CASE StartTask
    <3>1a. PICK i \in Threads : \E c, th, r : Starts(i, c, th, r) BY <2>2, StartShape
    <3>1. PICK c, th, r : Starts(i, c, th, r) BY <3>1a
    <3>2. PICK h, g, a, b : /\ h = sequential_history /\ g = sequential_history'
                            /\ a = InvokeOf(r, i) /\ b = ResponseOf(r, i)
      OBVIOUS
    <3>3. g = IF IsReturned(r) THEN h \o <<a>> \o <<b>> ELSE h \o <<a>> \o << >>
      BY <3>1, <3>2 DEF Starts, Record
    <3>4. /\ h \o <<a>> = Append(h, a) /\ IsSeq(Append(h, a))
          /\ Len(Append(h, a)) # 0
      <4>1. Appended(Append(h, a), h, a) BY <2>1, <3>2, AppendIsSeq
      <4> QED BY <2>1, <3>2, <4>1, HistoryGrows DEF Appended
    <3>5. PICK f : f = Append(h, a) OBVIOUS
    <3>6. f \o << >> = f /\ f \o <<b>> = Append(f, b) /\ Len(Append(f, b)) # 0
      <4>1. Appended(Append(f, b), f, b) BY <3>4, <3>5, AppendIsSeq
      <4> QED BY <3>4, <3>5, <4>1, HistoryGrows DEF Appended
    <3>7. Len(g) # 0 BY <3>3, <3>4, <3>5, <3>6
    <3>8. g # << >> BY <3>7, EmptySeq
    <3> QED BY <3>2, <3>8 DEF RoundsAreIsolated
  <2>3. CASE ResumeTask
    <3>1a. PICK i \in Threads : \E th, r : Resumes(i, th, r) BY <2>3, ResumeShape
    <3>1. PICK th, r : Resumes(i, th, r) BY <3>1a
    <3>2. phase = "run" BY <2>3 DEF ResumeTask, InRound
    <3>3. threads[i] # << >>
      <4>1. Len(threads[i]) > 0 BY <3>1 DEF Resumes, IsOpen
      <4>2. Len(<< >>) = 0 BY EmptySeq
      <4> QED BY <4>1, <4>2
    <3>4. sequential_history # << >> BY <3>2, <3>3 DEF RoundsAreIsolated
    <3>5. PICK h, g, b : /\ h = sequential_history /\ g = sequential_history'
                         /\ b = ResponseOf(r, i)
      OBVIOUS
    <3>6. g = IF IsReturned(r) THEN h \o << >> \o <<b>> ELSE h \o << >> \o << >>
      BY <3>1, <3>5 DEF Resumes, Record
    <3>7. /\ h \o << >> = h /\ h \o <<b>> = Append(h, b) /\ Len(Append(h, b)) # 0
      <4>1. Appended(Append(h, b), h, b) BY <2>1, <3>5, AppendIsSeq
      <4> QED BY <2>1, <3>5, <4>1, HistoryGrows DEF Appended
    <3>8. g # << >>
      <4>1. CASE IsReturned(r)
        <5>1. Len(g) # 0 BY <3>6, <3>7, <4>1
        <5> QED BY <5>1, EmptySeq
      <4>2. CASE ~IsReturned(r) BY <3>4, <3>5, <3>6, <3>7, <4>2
      <4> QED BY <4>1, <4>2
    <3> QED BY <3>5, <3>8 DEF RoundsAreIsolated
  <2>4. CASE StartNextRound
    <3>1. /\ phase = "terminate" /\ state' = Reset(state) /\ status' = NewStatus
          /\ threads' = [i \in Threads |-> << >>] /\ parked' = {}
          /\ UNCHANGED new_task_id
      BY <2>4 DEF StartNextRound, ResetObjects
    <3>2. state' \in NewObjs /\ new_task_id' = 0 BY <3>1 DEF TargetInv
    <3> QED BY <3>1, <3>2 DEF RoundsAreIsolated
  <2>5. CASE Abort \/ CheckerThrows \/ FinishRound \/ ReportRound \/ RunReturns \/ Destroyed
    <3>1. phase' # "run"
      BY <2>5 DEF Abort, CheckerThrows, FinishRound, ReportRound, RunReturns, Destroyed
    <3> QED BY <3>1 DEF RoundsAreIsolated
  <2>6. CASE TerminateTasks
    BY <2>6 DEF TerminateTasks, schedulerVars, RoundsAreIsolated
  <2>7. CASE Ended \/ UNCHANGED vars
    BY <2>7 DEF Ended, vars, strategyVars, baseVars, terminateVars, schedulerVars,
                RoundsAreIsolated
  <2> QED BY <2>2, <2>3, <2>4, <2>5, <2>6, <2>7 DEF Next
<1> QED BY <1>1, <1>2, <1>3, InvariantHolds, PTL DEF Spec

(* A task is started only if the verifier allows it, for every strategy    *)
(* but PctStrategy without forbid_all_same, which does not ask it.         *)
THEOREM OnlyVerifiedTasksStart ==
  ASSUME forbid_all_same \/ "pct" \notin Kinds
  PROVE  Spec => StartsAreVerified
<1>1. StateInv /\ [Next]_vars =>
        [\A i \in Threads : Len(threads'[i]) > Len(threads[i]) =>
           Verify(status, Last(threads'[i]).call, i, TRUE)]_vars
  <2> SUFFICES ASSUME StateInv, [Next]_vars, NEW j \in Threads,
                      Len(threads'[j]) > Len(threads[j])
               PROVE  Verify(status, Last(threads'[j]).call, j, TRUE)
    OBVIOUS
  <2>1. AreQueues(threads) /\ Len(threads[j]) \in Nat /\ kind \in Kinds
    BY IdsAreTyped DEF StateInv
  <2>2. CASE StartTask
    <3>1a. PICK i \in Threads : \E c, th, r : Starts(i, c, th, r) BY <2>2, StartShape
    <3>1. PICK c, th, r : Starts(i, c, th, r) BY <3>1a
    <3>2. /\ c \in Creates(i) /\ AlikeQueues(th, threads)
          /\ TaskAdded(threads', th, i, r)
          /\ r = Resumed(New(new_task_id, c, i), state)
      BY <3>1 DEF Starts
    <3>3. j = i BY <2>1, <3>2 DEF TaskAdded, AlikeQueues
    <3>4. Last(threads'[j]) = r BY <3>2, <3>3 DEF TaskAdded, Appended, Last
    <3>5. r.call = c
      BY <3>2, TasksStayTasks DEF StateInv
    <3>6. Verify(status, c, i, TRUE)
      BY <2>1, <3>2 DEF Creates, PctCreates, PickCreates
    <3> QED BY <3>3, <3>4, <3>5, <3>6
  <2>3. CASE ResumeTask
    <3>1a. PICK i \in Threads : \E th, r : Resumes(i, th, r) BY <2>3, ResumeShape
    <3>1. PICK th, r : Resumes(i, th, r) BY <3>1a
    <3>2. AlikeQueues(th, threads) /\ TaskChanged(threads', th, i, Len(th[i]), r)
      BY <3>1 DEF Resumes
    <3>3. Len(threads'[j]) = Len(threads[j])
      BY <3>2 DEF TaskChanged, Replaced, AlikeQueues
    <3> QED BY <2>1, <3>3
  <2>4. CASE TerminateTasks
    <3>1. CASE UNCHANGED threads BY <2>1, <3>1
    <3>2. CASE thread_index \in Threads /\ VisitThread
      <4>1. CASE \E m, r : TaskChanged(threads', threads, thread_index, m, r)
        BY <2>1, <4>1 DEF TaskChanged, Replaced
      <4> QED BY <3>1, <3>2, <4>1, VisitShape
    <3> QED BY <2>4, <3>1, <3>2 DEF TerminateTasks, TerminateVisit, TerminateAgain
  <2>5. CASE StartNextRound
    <3>1. threads'[j] = << >> BY <2>5 DEF StartNextRound
    <3> QED BY <2>1, <3>1, EmptySeq
  <2>6. CASE UNCHANGED threads BY <2>1, <2>6
  <2> QED BY <2>2, <2>3, <2>4, <2>5, <2>6
       DEF Next, Abort, CheckerThrows, FinishRound, ReportRound, RunReturns, Destroyed,
           Ended, vars, strategyVars, baseVars
<1> QED BY <1>1, InvariantHolds, PTL DEF Spec, StartsAreVerified

-----------------------------------------------------------------------------
(* The task slot an event refers to is one of the queues. *)
LEMMA ReferencesPoint ==
  ASSUME StateInv, HistoryInv, phase = "run", NEW p \in DOMAIN sequential_history
  PROVE  \E i \in Threads : \E n \in 1..Len(threads[i]) :
           GetTask(sequential_history[p].id) = threads[i][n]
<1>1. PICK e, id : e = sequential_history[p] /\ id = e.id OBVIOUS
<1>2. /\ EventBelongs(sequential_history, IdsOf(threads), p) /\ e.thread \in Threads
      /\ AreQueues(threads)
  BY <1>1 DEF HistoryInv, Linked, EventsAreTyped, StateInv
<1>3. PICK m \in 1..Len(IdsOf(threads)[e.thread]) : IdsOf(threads)[e.thread][m] = id
  BY <1>1, <1>2 DEF EventBelongs
<1>4. m \in 1..Len(threads[e.thread]) BY <1>2, <1>3, IdsAreTyped
<1>5. \A j \in Threads : IsSeq(threads[j]) BY <1>2 DEF AreQueues, IsQueue
<1>6. \A j \in Threads : DOMAIN threads[j] = 1..Len(threads[j]) BY <1>5, SeqDomain
<1>7. threads[e.thread][m].id = id BY <1>2, <1>3, <1>4 DEF IdsOf
<1>8. PICK i : i = CHOOSE j \in Threads : \E k \in DOMAIN threads[j] : threads[j][k].id = id
  OBVIOUS
<1>9. i \in Threads /\ \E k \in DOMAIN threads[i] : threads[i][k].id = id
  <2>1. \E j \in Threads : \E k \in DOMAIN threads[j] : threads[j][k].id = id
    BY <1>2, <1>4, <1>6, <1>7
  <2> QED BY <1>8, <2>1
<1>10. PICK n : n = CHOOSE k \in DOMAIN threads[i] : threads[i][k].id = id OBVIOUS
<1>11. n \in DOMAIN threads[i] BY <1>9, <1>10
<1>12. GetTask(id) = threads[i][n] BY <1>8, <1>10 DEF GetTask
<1>13. n \in 1..Len(threads[i]) BY <1>6, <1>9, <1>11
<1> QED BY <1>1, <1>9, <1>12, <1>13

(* So it is a task of the target. *)
LEMMA ReferencesAreTasks ==
  ASSUME NEW Objs, NEW Fits, StateInv, TargetInv(Objs, Fits), HistoryInv,
         phase = "run", NEW p \in DOMAIN sequential_history
  PROVE  IsTyped(GetTask(sequential_history[p].id))
BY ReferencesPoint DEF TargetInv, AreTyped

(* The task of the queues th that has this id. *)
HasTask(th, t) == \E i \in Threads : \E k \in 1..Len(th[i]) : t = th[i][k]
SlotOf(th, id) == CHOOSE t : HasTask(th, t) /\ t.id = id

(* There is only one. *)
LEMMA SlotIsTask ==
  ASSUME NEW th, AreQueues(th), IdsAreDistinct(IdsOf(th)), NEW t, HasTask(th, t)
  PROVE  SlotOf(th, t.id) = t
<1>1. PICK u : u = SlotOf(th, t.id) OBVIOUS
<1>2. HasTask(th, u) /\ u.id = t.id BY <1>1 DEF SlotOf
<1>3a. PICK i \in Threads : \E k \in 1..Len(th[i]) : t = th[i][k] BY DEF HasTask
<1>3. PICK k \in 1..Len(th[i]) : t = th[i][k] BY <1>3a
<1>4a. PICK j \in Threads : \E m \in 1..Len(th[j]) : u = th[j][m] BY <1>2 DEF HasTask
<1>4. PICK m \in 1..Len(th[j]) : u = th[j][m] BY <1>4a
<1>5. /\ Len(IdsOf(th)[i]) = Len(th[i]) /\ Len(IdsOf(th)[j]) = Len(th[j])
  BY IdsAreTyped
<1>6. IdsOf(th)[i][k] = t.id /\ IdsOf(th)[j][m] = u.id BY <1>3, <1>4 DEF IdsOf
<1>7. i = j /\ k = m BY <1>2, <1>3, <1>4, <1>5, <1>6 DEF IdsAreDistinct
<1> QED BY <1>1, <1>3, <1>4, <1>7

(* Every event refers to a task. *)
LEMMA EventHasTask ==
  ASSUME NEW th, AreQueues(th), NEW h, NEW open, Linked(h, IdsOf(th), open),
         NEW p \in DOMAIN h
  PROVE  /\ HasTask(th, SlotOf(th, h[p].id)) /\ SlotOf(th, h[p].id).id = h[p].id
         /\ h[p].id \in Nat /\ h[p].type \in {"invoke", "response"}
<1>1. /\ EventBelongs(h, IdsOf(th), p) /\ h[p].thread \in Threads
      /\ h[p].type \in {"invoke", "response"}
  BY DEF Linked, EventsAreTyped
<1>2. PICK i \in Threads : i = h[p].thread BY <1>1
<1>3. PICK k \in 1..Len(IdsOf(th)[i]) : IdsOf(th)[i][k] = h[p].id
  BY <1>1, <1>2 DEF EventBelongs
<1>4. k \in 1..Len(th[i]) BY <1>2, <1>3, IdsAreTyped
<1>5. th[i][k].id = h[p].id BY <1>2, <1>3, <1>4 DEF IdsOf
<1>6. IsTask(th[i][k]) BY <1>2, <1>4 DEF AreQueues, IsQueue
<1>7. HasTask(th, th[i][k]) BY <1>2, <1>4 DEF HasTask
<1>8. PICK t : t = th[i][k] OBVIOUS
<1>9. HasTask(th, t) /\ t.id = h[p].id BY <1>5, <1>7, <1>8
<1>10. HasTask(th, SlotOf(th, h[p].id)) /\ SlotOf(th, h[p].id).id = h[p].id
  BY <1>9 DEF SlotOf
<1> QED BY <1>1, <1>5, <1>6, <1>10 DEF IsTask

(* It is the one a checker reads. *)
LEMMA GetTaskIsSlot ==
  ASSUME StateInv, HistoryInv, phase = "run", NEW p \in DOMAIN sequential_history,
         NEW id, id = sequential_history[p].id
  PROVE  GetTask(id) = SlotOf(threads, id)
<1>1. /\ AreQueues(threads)
      /\ Linked(sequential_history, IdsOf(threads), OpenOf(threads))
      /\ IdsAreDistinct(IdsOf(threads))
  BY DEF StateInv, HistoryInv, Linked
<1>2. PICK t : t = SlotOf(threads, id) /\ HasTask(threads, t) /\ t.id = id
  BY <1>1, EventHasTask
<1>3. \E j \in Threads : \E m \in 1..Len(threads[j]) : t = threads[j][m]
  BY <1>2 DEF HasTask
<1>4. \A a \in Threads : DOMAIN threads[a] = 1..Len(threads[a])
  <2>1. \A a \in Threads : IsSeq(threads[a]) BY <1>1 DEF AreQueues, IsQueue
  <2> QED BY <2>1, SeqDomain
<1>5. PICK i : i = CHOOSE a \in Threads : \E k \in DOMAIN threads[a] : threads[a][k].id = id
  OBVIOUS
<1>6. \E a \in Threads : \E k \in DOMAIN threads[a] : threads[a][k].id = id
  BY <1>2, <1>3, <1>4
<1>7. i \in Threads /\ \E k \in DOMAIN threads[i] : threads[i][k].id = id
  BY <1>5, <1>6
<1>8. PICK n : n = CHOOSE k \in DOMAIN threads[i] : threads[i][k].id = id OBVIOUS
<1>9. n \in DOMAIN threads[i] /\ threads[i][n].id = id BY <1>7, <1>8
<1>10. GetTask(id) = threads[i][n] BY <1>5, <1>8 DEF GetTask
<1>11. HasTask(threads, threads[i][n]) BY <1>4, <1>7, <1>9 DEF HasTask
<1>12. SlotOf(threads, threads[i][n].id) = threads[i][n] BY <1>1, <1>11, SlotIsTask
<1> QED BY <1>9, <1>10, <1>12

(* What RunRound hands to the checker is a well-formed history. *)
LEMMA CheckedHistory ==
  ASSUME StateInv, HistoryInv, RoundIsWellFormed, phase = "run",
         \A p \in DOMAIN sequential_history :
           /\ GetTask(sequential_history[p].id).call \in Calls
           /\ GetTask(sequential_history[p].id).ret \in Int,
         NEW d, d = Dereferenced(sequential_history)
  PROVE  d \in Seq(Lin!Event) /\ Lin!WellFormed(d)
<1>1. PICK h : h = sequential_history OBVIOUS
<1>2. IsSeq(h) BY <1>1 DEF StateInv
<1>3. PICK n \in Nat : n = Len(h) BY <1>2, SeqDomain
<1>4. DOMAIN h = 1..n BY <1>2, <1>3, SeqDomain
<1>5. /\ DOMAIN d = 1..n
      /\ \A p \in 1..n :
           d[p] = [type |-> h[p].type,
                   task |-> [id |-> h[p].id, call |-> GetTask(h[p].id).call,
                             ret |-> GetTask(h[p].id).ret]]
  BY <1>1, <1>4 DEF Dereferenced
<1>6. \A p \in 1..n : d[p].type = h[p].type /\ d[p].task.id = h[p].id BY <1>5
<1>7. \A p \in 1..n : d[p] \in Lin!Event
  <2> SUFFICES ASSUME NEW p \in 1..n PROVE d[p] \in Lin!Event OBVIOUS
  <2>2. GetTask(h[p].id).call \in Calls /\ GetTask(h[p].id).ret \in Int
    BY <1>1, <1>4
  <2>3. h[p].type \in {"invoke", "response"} /\ h[p].id \in Nat
    <3>1. AreQueues(threads) /\ Linked(h, IdsOf(threads), OpenOf(threads))
      BY <1>1 DEF StateInv, HistoryInv
    <3> QED BY <1>4, <3>1, EventHasTask
  <2> QED BY <1>5, <2>2, <2>3 DEF Lin!Event, Lin!Tasks
<1>8. d = [p \in 1..n |-> d[p]] BY <1>5 DEF Dereferenced
<1>9. d \in [1..n -> Lin!Event] BY <1>7, <1>8
<1>10. d \in Seq(Lin!Event) BY <1>9, SeqDef
<1>11. /\ \A p, q \in 1..n : h[p].type = h[q].type /\ h[p].id = h[q].id => p = q
       /\ \A p \in 1..n : h[p].type = "response" =>
            \E q \in 1..n : q < p /\ h[q].type = "invoke" /\ h[q].id = h[p].id
  BY <1>1, <1>4 DEF RoundIsWellFormed
<1>12. \A p, q \in Lin!Invokes(d) : d[p].task.id = d[q].task.id => p = q
  BY <1>5, <1>6, <1>11 DEF Lin!Invokes
<1>13. \A p, q \in Lin!Responses(d) : d[p].task.id = d[q].task.id => p = q
  BY <1>5, <1>6, <1>11 DEF Lin!Responses
<1>14. \A p \in Lin!Responses(d) : \E q \in Lin!Invokes(d) : Lin!Answers(d, p, q)
  BY <1>5, <1>6, <1>11 DEF Lin!Responses, Lin!Invokes, Lin!Answers
<1> QED BY <1>10, <1>12, <1>13, <1>14 DEF Lin!WellFormed

(* A round that Run goes on after is linearizable, and one that it reports *)
(* is not: with the checker that ltest::Run builds the scheduler neither   *)
(* misses nor invents an error of a round it has run.                      *)
RoundsAreJudged ==
  [][/\ FinishRound => Lin!Linearizable(Dereferenced(sequential_history))
     /\ ReportRound => ~Lin!Linearizable(Dereferenced(sequential_history))]_vars

(* With the recursive checker the verdict on every round is right, for     *)
(* every strategy and every target whose objects and places make a closed  *)
(* set.                                                                    *)
THEOREM RoundsAreJudgedRight ==
  ASSUME NEW Objs, NEW Fits, TargetOK(Objs, Fits), Lin!SpecAssumption,
         \A h : Check(h) = Lin!CheckRecursive(h)
  PROVE  Spec => RoundsAreJudged
<1>1. Init => TargetInv(Objs, Fits) BY InitHasTypes
<1>2. StateInv /\ TargetInv(Objs, Fits) /\ [Next]_vars => TargetInv(Objs, Fits)'
  BY NextKeepsTypes
<1>3. StateInv /\ HistoryInv /\ TargetInv(Objs, Fits) /\ RoundIsWellFormed /\ [Next]_vars =>
        [/\ FinishRound => Lin!Linearizable(Dereferenced(sequential_history))
         /\ ReportRound => ~Lin!Linearizable(Dereferenced(sequential_history))]_vars
  <2> SUFFICES ASSUME StateInv, HistoryInv, TargetInv(Objs, Fits), RoundIsWellFormed,
                      RoundFinished, NEW d, d = Dereferenced(sequential_history)
               PROVE  Check(d) <=> Lin!Linearizable(d)
    BY DEF FinishRound, ReportRound
  <2>1. d \in Seq(Lin!Event) /\ Lin!WellFormed(d)
    BY ReferencesAreTasks, CheckedHistory DEF RoundFinished, IsTyped, TaskOK
  <2>2. Lin!CheckRecursive(d) <=> Lin!Linearizable(d)
    BY <2>1, Lin!RecursiveIsExact
  <2> QED BY <2>2
<1> QED BY <1>1, <1>2, <1>3, InvariantHolds, HistoryIsWellFormed, PTL
        DEF Spec, RoundsAreJudged

-----------------------------------------------------------------------------
(* How a round can be shown to be linearizable while it is run.  op[p] is  *)
(* what is known of the operation invoked at position p: its call, whether *)
(* it is past, that is has taken effect, and the value it then returns.    *)
InvokesOf(h) == {p \in DOMAIN h : h[p].type = "invoke"}
Before(h, p, q) ==
  \E j \in DOMAIN h : h[j].type = "response" /\ h[j].id = h[p].id /\ p < j /\ j < q

(* order is a linearization of the n operations that are past, in the      *)
(* course of which the specification goes through states and reaches abs.  *)
IsOrder(h, op, n, order) ==
  /\ n \in Nat /\ order \in [1..n -> InvokesOf(h)]
  /\ \A k, m \in 1..n : order[k] = order[m] => k = m
  /\ \A k, m \in 1..n : k < m => ~Before(h, order[m], order[k])
  /\ \A k \in 1..n : op[order[k]].past
  /\ \A p \in InvokesOf(h) : op[p].past => \E k \in 1..n : order[k] = p
IsExecution(op, abs, n, order, states) ==
  /\ states \in [1..(n + 1) -> SpecStates]
  /\ states[1] = first_state /\ states[n + 1] = abs
  /\ \A k \in 1..n :
       /\ states[k + 1] = Effect(states[k], op[order[k]].call)
       /\ op[order[k]].value = Result(states[k], op[order[k]].call)
Explained(h, op, abs) ==
  \E n, order, states :
    IsOrder(h, op, n, order) /\ IsExecution(op, abs, n, order, states)

(* A step of one operation, the one invoked at q of the new history g,     *)
(* which had no response.                                                  *)
Stepped(h, g, op, op2, q) ==
  /\ \E n, m \in Nat : n <= m /\ DOMAIN h = 1..n /\ DOMAIN g = 1..m
  /\ \A p \in DOMAIN h : g[p] = h[p]
  /\ q \in InvokesOf(g) /\ InvokesOf(g) \subseteq InvokesOf(h) \cup {q}
  /\ \A j \in DOMAIN h : h[j].type = "response" => h[j].id # g[q].id
  /\ \A p \in InvokesOf(h) : p # q => op2[p] = op[p]
  /\ q \in InvokesOf(h) => op2[q].call = op[q].call

(* The order of the operations in a history stays what it was. *)
LEMMA OldOrderStays ==
  ASSUME NEW h, NEW g, NEW op, NEW op2, NEW q, Stepped(h, g, op, op2, q)
  PROVE  /\ InvokesOf(h) \subseteq InvokesOf(g)
         /\ \A p, s \in InvokesOf(h) : Before(g, p, s) => Before(h, p, s)
         /\ \A s \in InvokesOf(h) : ~Before(g, q, s)
<1>1. PICK n, m \in Nat : n <= m /\ DOMAIN h = 1..n /\ DOMAIN g = 1..m BY DEF Stepped
<1>2. /\ \A p \in DOMAIN h : g[p] = h[p]
      /\ \A j \in DOMAIN h : h[j].type = "response" => h[j].id # g[q].id
  BY DEF Stepped
<1>3. InvokesOf(h) \subseteq InvokesOf(g) BY <1>1, <1>2 DEF InvokesOf
<1>4. ASSUME NEW p, NEW s \in InvokesOf(h), Before(g, p, s)
      PROVE  \E j \in DOMAIN h :
               h[j].type = "response" /\ h[j].id = g[p].id /\ p < j /\ j < s
  <2>1. PICK j \in DOMAIN g :
          g[j].type = "response" /\ g[j].id = g[p].id /\ p < j /\ j < s
    BY <1>4 DEF Before
  <2>2. s \in 1..n BY <1>1 DEF InvokesOf
  <2>3. j \in DOMAIN h BY <1>1, <2>1, <2>2
  <2> QED BY <1>2, <2>1, <2>3
<1>5. ASSUME NEW p \in InvokesOf(h), NEW s \in InvokesOf(h), Before(g, p, s)
      PROVE  Before(h, p, s)
  <2>1. g[p] = h[p] BY <1>2 DEF InvokesOf
  <2> QED BY <1>4, <1>5, <2>1 DEF Before
<1>6. \A s \in InvokesOf(h) : ~Before(g, q, s) BY <1>2, <1>4
<1> QED BY <1>3, <1>5, <1>6

(* A step in which no operation takes effect. *)
LEMMA OrderStays ==
  ASSUME NEW h, NEW g, NEW op, NEW op2, NEW q, NEW abs, Stepped(h, g, op, op2, q),
         Explained(h, op, abs),
         op2[q].past <=> q \in InvokesOf(h) /\ op[q].past,
         op2[q].past => op2[q].value = op[q].value
  PROVE  Explained(g, op2, abs)
<1>1. PICK n, order, states :
        IsOrder(h, op, n, order) /\ IsExecution(op, abs, n, order, states)
  BY DEF Explained
<1>2. /\ n \in Nat /\ order \in [1..n -> InvokesOf(h)]
      /\ \A k, m \in 1..n : order[k] = order[m] => k = m
      /\ \A k, m \in 1..n : k < m => ~Before(h, order[m], order[k])
      /\ \A k \in 1..n : op[order[k]].past
      /\ \A p \in InvokesOf(h) : op[p].past => \E k \in 1..n : order[k] = p
  BY <1>1 DEF IsOrder
<1>3. /\ InvokesOf(h) \subseteq InvokesOf(g)
      /\ \A p, s \in InvokesOf(h) : Before(g, p, s) => Before(h, p, s)
  BY OldOrderStays
<1>4. /\ InvokesOf(g) \subseteq InvokesOf(h) \cup {q}
      /\ \A p \in InvokesOf(h) : p # q => op2[p] = op[p]
      /\ q \in InvokesOf(h) => op2[q].call = op[q].call
  BY DEF Stepped
<1>5. \A k \in 1..n : /\ order[k] \in InvokesOf(h) /\ op2[order[k]].past
                      /\ op2[order[k]].call = op[order[k]].call
                      /\ op2[order[k]].value = op[order[k]].value
  BY <1>2, <1>4
<1>6. order \in [1..n -> InvokesOf(g)] BY <1>2, <1>3
<1>7. \A k, m \in 1..n : k < m => ~Before(g, order[m], order[k]) BY <1>2, <1>3, <1>5
<1>8. \A p \in InvokesOf(g) : op2[p].past => \E k \in 1..n : order[k] = p
  BY <1>2, <1>4
<1>9. IsOrder(g, op2, n, order) BY <1>2, <1>5, <1>6, <1>7, <1>8 DEF IsOrder
<1>10. IsExecution(op2, abs, n, order, states) BY <1>1, <1>5 DEF IsExecution
<1> QED BY <1>9, <1>10 DEF Explained

(* A step in which the operation takes effect: it becomes the last one. *)
LEMMA OrderGrows ==
  ASSUME NEW h, NEW g, NEW op, NEW op2, NEW q, NEW abs, NEW abs2 \in SpecStates,
         Stepped(h, g, op, op2, q), Explained(h, op, abs),
         ~(q \in InvokesOf(h) /\ op[q].past), op2[q].past,
         abs2 = Effect(abs, op2[q].call), op2[q].value = Result(abs, op2[q].call)
  PROVE  Explained(g, op2, abs2)
<1>1. PICK n, order, states :
        IsOrder(h, op, n, order) /\ IsExecution(op, abs, n, order, states)
  BY DEF Explained
<1>2. /\ n \in Nat /\ order \in [1..n -> InvokesOf(h)]
      /\ \A k, m \in 1..n : order[k] = order[m] => k = m
      /\ \A k, m \in 1..n : k < m => ~Before(h, order[m], order[k])
      /\ \A k \in 1..n : op[order[k]].past
      /\ \A p \in InvokesOf(h) : op[p].past => \E k \in 1..n : order[k] = p
  BY <1>1 DEF IsOrder
<1>3. /\ InvokesOf(h) \subseteq InvokesOf(g)
      /\ \A p, s \in InvokesOf(h) : Before(g, p, s) => Before(h, p, s)
      /\ \A s \in InvokesOf(h) : ~Before(g, q, s)
  BY OldOrderStays
<1>4. /\ q \in InvokesOf(g) /\ InvokesOf(g) \subseteq InvokesOf(h) \cup {q}
      /\ \A p \in InvokesOf(h) : p # q => op2[p] = op[p]
  BY DEF Stepped
<1>5. \A k \in 1..n :
        order[k] \in InvokesOf(h) /\ order[k] # q /\ op2[order[k]] = op[order[k]]
  BY <1>2, <1>4
<1>6. PICK order2 : order2 = [k \in 1..(n + 1) |-> IF k = n + 1 THEN q ELSE order[k]]
  OBVIOUS
<1>7. PICK states2 :
        states2 = [k \in 1..(n + 2) |-> IF k = n + 2 THEN abs2 ELSE states[k]]
  OBVIOUS
<1>8. /\ n + 1 \in Nat /\ order2[n + 1] = q
      /\ \A k \in 1..(n + 1) : k = n + 1 \/ (k \in 1..n /\ order2[k] = order[k])
      /\ \A k \in 1..n : k \in 1..(n + 1) /\ k # n + 1 /\ order2[k] = order[k]
  BY <1>2, <1>6
<1>9. IsOrder(g, op2, n + 1, order2)
  <2>1. order2 \in [1..(n + 1) -> InvokesOf(g)]
    <3>1. \A k \in 1..(n + 1) : order2[k] \in InvokesOf(g)
      BY <1>3, <1>4, <1>5, <1>8
    <3> QED BY <1>6, <3>1
  <2>2. \A k, m \in 1..(n + 1) : order2[k] = order2[m] => k = m BY <1>2, <1>5, <1>8
  <2>3. ASSUME NEW k \in 1..(n + 1), NEW m \in 1..(n + 1), k < m
        PROVE  ~Before(g, order2[m], order2[k])
    <3>1. k \in 1..n /\ order2[k] = order[k] /\ order[k] \in InvokesOf(h)
      BY <1>2, <1>5, <1>8, <2>3
    <3>2. CASE m = n + 1 BY <1>3, <1>8, <3>1, <3>2
    <3>3. CASE m # n + 1 BY <1>2, <1>3, <1>5, <1>8, <2>3, <3>1, <3>3
    <3> QED BY <3>2, <3>3
  <2>4. \A k \in 1..(n + 1) : op2[order2[k]].past BY <1>2, <1>5, <1>8
  <2>5. \A p \in InvokesOf(g) : op2[p].past => \E k \in 1..(n + 1) : order2[k] = p
    <3> SUFFICES ASSUME NEW p \in InvokesOf(g), op2[p].past
                 PROVE  \E k \in 1..(n + 1) : order2[k] = p
      OBVIOUS
    <3>1. CASE p = q BY <1>2, <1>8, <3>1
    <3>2. CASE p # q
      <4>1. op[p].past /\ p \in InvokesOf(h) BY <1>4, <3>2
      <4>2. PICK k \in 1..n : order[k] = p BY <1>2, <4>1
      <4> QED BY <1>8, <4>2
    <3> QED BY <3>1, <3>2
  <2> QED BY <1>8, <2>1, <2>2, <2>3, <2>4, <2>5 DEF IsOrder
<1>10. IsExecution(op2, abs2, n + 1, order2, states2)
  <2>1. /\ states \in [1..(n + 1) -> SpecStates]
        /\ states[1] = first_state /\ states[n + 1] = abs
        /\ \A k \in 1..n :
             /\ states[k + 1] = Effect(states[k], op[order[k]].call)
             /\ op[order[k]].value = Result(states[k], op[order[k]].call)
    BY <1>1 DEF IsExecution
  <2>2. /\ n + 2 = (n + 1) + 1 /\ states2[n + 2] = abs2
        /\ \A k \in 1..(n + 1) : states2[k] = states[k]
    BY <1>2, <1>7
  <2>3. states2 \in [1..(n + 2) -> SpecStates]
    <3>1. \A k \in 1..(n + 2) : states2[k] \in SpecStates
      <4>1. \A k \in 1..(n + 2) : k = n + 2 \/ k \in 1..(n + 1) BY <1>2
      <4> QED BY <2>1, <2>2, <4>1
    <3> QED BY <1>7, <3>1
  <2>4. states2[1] = first_state
    <3>1. 1 \in 1..(n + 1) BY <1>2
    <3> QED BY <2>1, <2>2, <3>1
  <2>5. ASSUME NEW k \in 1..(n + 1)
        PROVE  /\ states2[k + 1] = Effect(states2[k], op2[order2[k]].call)
               /\ op2[order2[k]].value = Result(states2[k], op2[order2[k]].call)
    <3>1. CASE k = n + 1 BY <1>2, <1>8, <2>1, <2>2, <3>1
    <3>2. CASE k # n + 1
      <4>1. k \in 1..n /\ k + 1 \in 1..(n + 1) BY <1>2, <3>2
      <4>2. states2[k + 1] = states[k + 1] /\ states2[k] = states[k] BY <2>2, <4>1
      <4> QED BY <1>5, <1>8, <2>1, <4>1, <4>2
    <3> QED BY <3>1, <3>2
  <2> QED BY <2>2, <2>3, <2>4, <2>5 DEF IsExecution
<1> QED BY <1>9, <1>10 DEF Explained

(* What Record adds to the history h: the invocation e of a new task, and  *)
(* no other.                                                               *)
Recorded(h, g, n, m, is_new, e) ==
  /\ n \in Nat /\ m \in Nat /\ n <= m /\ DOMAIN h = 1..n /\ DOMAIN g = 1..m
  /\ \A p \in DOMAIN h : g[p] = h[p]
  /\ \A p \in DOMAIN g : p \notin DOMAIN h /\ g[p].type = "invoke" =>
       is_new /\ p = n + 1
  /\ is_new => n + 1 \in DOMAIN g /\ g[n + 1] = e

(* The history grows so in every step of a round. *)
LEMMA RecordExtends ==
  ASSUME StateInv, NEW i, NEW r, NEW is_new \in BOOLEAN, Record(i, r, is_new),
         NEW h, h = sequential_history, NEW g, g = sequential_history'
  PROVE  \E n, m : Recorded(h, g, n, m, is_new, InvokeOf(r, i))
<1>1. IsSeq(h) BY DEF StateInv
<1>2. PICK inv, res : inv = InvokeOf(r, i) /\ res = ResponseOf(r, i) OBVIOUS
<1>3. res.type = "response" BY <1>2 DEF ResponseOf
<1>4. PICK f : f = h \o (IF is_new THEN <<inv>> ELSE << >>) OBVIOUS
<1>5. g = f \o (IF IsReturned(r) THEN <<res>> ELSE << >>) BY <1>2, <1>4 DEF Record
<1>6. PICK n \in Nat : n = Len(h) /\ DOMAIN h = 1..n BY <1>1, SeqDomain
<1>7. PICK l \in Nat :
        /\ IsSeq(f) /\ DOMAIN f = 1..l /\ l = Len(f) /\ l = IF is_new THEN n + 1 ELSE n
        /\ \A p \in 1..n : f[p] = h[p]
        /\ is_new => f[n + 1] = inv
  <2>1. CASE is_new
    <3>1. f = Append(h, inv) BY <1>1, <1>4, <2>1, HistoryGrows
    <3>2. IsSeq(f) /\ Extended(f, h, inv) BY <1>1, <3>1, HistoryGrows
    <3>3. DOMAIN f = 1..Len(f) /\ Len(f) \in Nat BY <3>2, SeqDomain
    <3>4. /\ DOMAIN f = 1..(n + 1) /\ f[n + 1] = inv /\ \A p \in 1..n : f[p] = h[p]
      BY <1>6, <3>2 DEF Extended
    <3>5. Len(f) = n + 1
      <4>1. Appended(f, h, inv) BY <1>1, <3>1, AppendIsSeq
      <4> QED BY <1>6, <4>1 DEF Appended
    <3> QED BY <2>1, <3>2, <3>3, <3>4, <3>5
  <2>2. CASE ~is_new
    <3>1. f = h BY <1>1, <1>4, <2>2, HistoryGrows
    <3> QED BY <1>1, <1>6, <2>2, <3>1
  <2> QED BY <2>1, <2>2
<1>8. CASE IsReturned(r)
  <2>1. g = Append(f, res) BY <1>5, <1>7, <1>8, HistoryGrows
  <2>2. Extended(g, f, res) BY <1>7, <2>1, HistoryGrows
  <2>3. DOMAIN g = 1..(l + 1) /\ g[l + 1] = res /\ \A p \in 1..l : g[p] = f[p]
    BY <1>7, <2>2 DEF Extended
  <2>4. \A p \in 1..n : p \in 1..l BY <1>7
  <2>5. \A p \in DOMAIN h : g[p] = h[p] BY <1>6, <1>7, <2>3, <2>4
  <2>6. ASSUME NEW p \in DOMAIN g, p \notin DOMAIN h, g[p].type = "invoke"
        PROVE  is_new /\ p = n + 1
    <3>1. p # l + 1 BY <1>3, <2>3, <2>6
    <3> QED BY <1>6, <1>7, <2>3, <2>6, <3>1
  <2>7. is_new => n + 1 \in DOMAIN g /\ g[n + 1] = inv BY <1>7, <2>3
  <2>8. l + 1 \in Nat /\ n <= l + 1 BY <1>7
  <2>9. Recorded(h, g, n, l + 1, is_new, inv)
    BY <1>6, <2>3, <2>5, <2>6, <2>7, <2>8 DEF Recorded
  <2> QED BY <1>2, <2>9
<1>9. CASE ~IsReturned(r)
  <2>1. g = f BY <1>5, <1>7, <1>9, HistoryGrows
  <2>2. n <= l BY <1>7
  <2>3. \A p \in DOMAIN g : p \notin DOMAIN h => is_new /\ p = n + 1
    BY <1>6, <1>7, <2>1
  <2>4. is_new => n + 1 \in DOMAIN g /\ g[n + 1] = inv BY <1>7, <2>1
  <2>5. Recorded(h, g, n, l, is_new, inv)
    BY <1>6, <1>7, <2>1, <2>2, <2>3, <2>4 DEF Recorded
  <2> QED BY <1>2, <2>5
<1> QED BY <1>8, <1>9

(* A step of a round: the task that was t, and r after it, is the one      *)
(* invoked at q; all others stay alike.                                    *)
Advances(h, g, th, tg, q, t, r) ==
  /\ \E n, m \in Nat : n <= m /\ DOMAIN h = 1..n /\ DOMAIN g = 1..m
  /\ \A p \in DOMAIN h : g[p] = h[p]
  /\ q \in InvokesOf(g) /\ InvokesOf(g) \subseteq InvokesOf(h) \cup {q}
  /\ \A j \in DOMAIN h : h[j].type = "response" => h[j].id # g[q].id
  /\ \A p \in InvokesOf(h) : p # q => Alike(SlotOf(th, h[p].id), SlotOf(tg, g[p].id))
  /\ SlotOf(tg, g[q].id) = r
  /\ q \in InvokesOf(h) => Alike(SlotOf(th, h[q].id), t)

(* The tasks that are not concerned by a step. *)
LEMMA OthersStay ==
  ASSUME NEW th, AreQueues(th), NEW h, NEW open, Linked(h, IdsOf(th), open),
         NEW tl, AlikeQueues(tl, th), NEW tg, AreQueues(tg), IdsAreDistinct(IdsOf(tg)),
         NEW i \in Threads, NEW r,
         \/ TaskAdded(tg, tl, i, r)
         \/ TaskChanged(tg, tl, i, Len(tl[i]), r) /\ r.id = tl[i][Len(tl[i])].id,
         NEW p \in DOMAIN h, h[p].id # r.id
  PROVE  Alike(SlotOf(th, h[p].id), SlotOf(tg, h[p].id))
<1>1. PICK t : t = SlotOf(th, h[p].id) /\ HasTask(th, t) /\ t.id = h[p].id
  BY EventHasTask
<1>2. PICK j \in Threads : \E k \in 1..Len(th[j]) : t = th[j][k] BY <1>1 DEF HasTask
<1>3. PICK k \in 1..Len(th[j]) : t = th[j][k] BY <1>2
<1>4. PICK v : v = tl[j][k] OBVIOUS
<1>5. Alike(t, v) /\ k \in 1..Len(tl[j]) BY <1>3, <1>4 DEF AlikeQueues
<1>6. v.id = h[p].id BY <1>1, <1>5 DEF Alike
<1>7. k \in 1..Len(tg[j]) /\ tg[j][k] = v
  <2>1. CASE j # i BY <1>4, <1>5, <2>1 DEF TaskAdded, TaskChanged
  <2>2. CASE j = i /\ TaskAdded(tg, tl, i, r)
    BY <1>4, <1>5, <2>2 DEF TaskAdded, Appended
  <2>3. CASE j = i /\ TaskChanged(tg, tl, i, Len(tl[i]), r) /\ r.id = tl[i][Len(tl[i])].id
    <3>1. k # Len(tl[i]) BY <1>4, <1>6, <2>3
    <3> QED BY <1>4, <1>5, <2>3, <3>1 DEF TaskChanged, Replaced
  <2> QED BY <2>1, <2>2, <2>3
<1>8. HasTask(tg, v) BY <1>2, <1>7 DEF HasTask
<1>9. SlotOf(tg, v.id) = v BY <1>8, SlotIsTask
<1> QED BY <1>1, <1>5, <1>6, <1>9

(* A task is started. *)
LEMMA StartAdvances ==
  ASSUME StateInv, HistoryInv, phase = "run", StateInv', HistoryInv', phase' = "run",
         NEW i \in Threads, NEW c, NEW th, NEW r, Starts(i, c, th, r), NEW t,
         NEW h, h = sequential_history, NEW g, g = sequential_history'
  PROVE  \E q \in InvokesOf(g) \ InvokesOf(h) : Advances(h, g, threads, threads', q, t, r)
<1>1. /\ AlikeQueues(th, threads) /\ TaskAdded(threads', th, i, r)
      /\ r = Resumed(New(new_task_id, c, i), state) /\ Record(i, r, TRUE)
      /\ AreQueues(threads) /\ AreQueues(threads') /\ new_task_id \in Nat
  BY DEF Starts, StateInv
<1>2. /\ Linked(h, IdsOf(threads), OpenOf(threads)) /\ IdsAreDistinct(IdsOf(threads'))
      /\ IdsAreOld(IdsOf(threads), new_task_id)
  BY DEF HistoryInv, Linked
<1>3. r.id = new_task_id /\ IsTask(r) BY <1>1, TasksStayTasks
<1>4. PICK n, m \in Nat :
        /\ n <= m /\ DOMAIN h = 1..n /\ DOMAIN g = 1..m
        /\ \A p \in DOMAIN h : g[p] = h[p]
        /\ \A p \in DOMAIN g : p \notin DOMAIN h /\ g[p].type = "invoke" => p = n + 1
        /\ n + 1 \in DOMAIN g /\ g[n + 1] = InvokeOf(r, i)
  <2>1. TRUE \in BOOLEAN /\ Record(i, r, TRUE) BY <1>1
  <2>2. PICK n, m : Recorded(h, g, n, m, TRUE, InvokeOf(r, i)) BY <2>1, RecordExtends
  <2> QED BY <2>2 DEF Recorded
<1>5. PICK q : q = n + 1 /\ q \notin DOMAIN h BY <1>4
<1>6. g[q].type = "invoke" /\ g[q].id = r.id BY <1>4, <1>5 DEF InvokeOf
<1>7. q \in InvokesOf(g) /\ q \notin InvokesOf(h) BY <1>4, <1>5, <1>6 DEF InvokesOf
<1>8. InvokesOf(g) \subseteq InvokesOf(h) \cup {q} BY <1>4, <1>5 DEF InvokesOf
<1>9. ASSUME NEW p \in DOMAIN h PROVE h[p].id # r.id
  <2>1. PICK u : HasTask(threads, u) /\ u.id = h[p].id BY <1>1, <1>2, EventHasTask
  <2>2. PICK j \in Threads : \E k \in 1..Len(threads[j]) : u = threads[j][k]
    BY <2>1 DEF HasTask
  <2>3. PICK k \in 1..Len(threads[j]) : u = threads[j][k] BY <2>2
  <2>4. k \in 1..Len(IdsOf(threads)[j]) /\ IdsOf(threads)[j][k] = u.id
    BY <1>1, <2>2, <2>3, IdsAreTyped DEF IdsOf
  <2>5. u.id < new_task_id BY <1>2, <2>2, <2>4 DEF IdsAreOld
  <2>6. u.id \in Nat BY <1>1, <1>2, <2>1, EventHasTask
  <2> QED BY <1>1, <1>3, <2>1, <2>5, <2>6
<1>10. \A p \in InvokesOf(h) :
         Alike(SlotOf(threads, h[p].id), SlotOf(threads', g[p].id))
  <2> SUFFICES ASSUME NEW p \in InvokesOf(h)
               PROVE  Alike(SlotOf(threads, h[p].id), SlotOf(threads', g[p].id))
    OBVIOUS
  <2>1. p \in DOMAIN h BY DEF InvokesOf
  <2>2. h[p].id # r.id /\ g[p] = h[p] BY <1>4, <1>9, <2>1
  <2>3. Alike(SlotOf(threads, h[p].id), SlotOf(threads', h[p].id))
    BY <1>1, <1>2, <2>1, <2>2, OthersStay
  <2> QED BY <2>2, <2>3
<1>11. SlotOf(threads', g[q].id) = r
  <2>1. /\ Appended(threads'[i], th[i], r) BY <1>1 DEF TaskAdded
  <2>2. Len(threads'[i]) \in 1..Len(threads'[i]) /\ threads'[i][Len(threads'[i])] = r
    BY <2>1 DEF Appended
  <2>3. HasTask(threads', r) BY <2>2 DEF HasTask
  <2> QED BY <1>1, <1>2, <1>6, <2>3, SlotIsTask
<1>12. Advances(h, g, threads, threads', q, t, r)
  BY <1>4, <1>6, <1>7, <1>8, <1>9, <1>10, <1>11 DEF Advances
<1> QED BY <1>7, <1>12

(* A task goes on. *)
LEMMA ResumeAdvances ==
  ASSUME StateInv, HistoryInv, phase = "run", StateInv', HistoryInv', phase' = "run",
         RoundIsWellFormed,
         NEW i \in Threads, NEW th, NEW r, Resumes(i, th, r),
         NEW t, t = th[i][Len(th[i])],
         NEW h, h = sequential_history, NEW g, g = sequential_history'
  PROVE  \E q \in InvokesOf(h) : Advances(h, g, threads, threads', q, t, r)
<1>1. /\ AlikeQueues(th, threads) /\ TaskChanged(threads', th, i, Len(th[i]), r)
      /\ r = Resumed(t, state) /\ Record(i, r, FALSE) /\ IsOpen(threads[i])
      /\ AreQueues(threads) /\ AreQueues(threads')
  BY DEF Resumes, StateInv
<1>2. /\ Linked(h, IdsOf(threads), OpenOf(threads)) /\ IdsAreDistinct(IdsOf(threads))
      /\ IdsAreDistinct(IdsOf(threads'))
  BY DEF HistoryInv, Linked
<1>3. PICK l \in Nat \ {0} : l = Len(threads[i]) /\ l = Len(th[i]) /\ l \in 1..l
  <2>1. Len(threads[i]) \in Nat BY <1>1, IdsAreTyped
  <2> QED BY <1>1, <2>1 DEF IsOpen, AlikeQueues
<1>4. PICK u : u = threads[i][l] OBVIOUS
<1>5. Alike(u, t) BY <1>1, <1>3, <1>4 DEF AlikeQueues
<1>6. r.id = t.id /\ t.id = u.id /\ IsTask(t) BY <1>1, <1>5, TasksStayTasks DEF Alike
<1>7. HasTask(threads, u) BY <1>3, <1>4 DEF HasTask
<1>8. l \in 1..Len(IdsOf(threads)[i]) /\ IdsOf(threads)[i][l] = u.id
      /\ l = Len(IdsOf(threads)[i])
  BY <1>1, <1>3, <1>4, IdsAreTyped DEF IdsOf
<1>9. i \in OpenOf(threads) BY <1>1 DEF OpenOf
<1>10. TaskIsRecorded(h, IdsOf(threads), OpenOf(threads), i, l) BY <1>2, <1>8 DEF Linked
<1>11. PICK q \in DOMAIN h : h[q].type = "invoke" /\ h[q].id = u.id
  BY <1>8, <1>10 DEF TaskIsRecorded
<1>12. \A j \in DOMAIN h : h[j].type = "response" => h[j].id # u.id
  BY <1>8, <1>9, <1>10 DEF TaskIsRecorded, ResponsesIn
<1>13. PICK n, m \in Nat :
         /\ n <= m /\ DOMAIN h = 1..n /\ DOMAIN g = 1..m
         /\ \A p \in DOMAIN h : g[p] = h[p]
         /\ \A p \in DOMAIN g : p \notin DOMAIN h => g[p].type # "invoke"
  <2>1. FALSE \in BOOLEAN /\ Record(i, r, FALSE) BY <1>1
  <2>2. PICK n, m : Recorded(h, g, n, m, FALSE, InvokeOf(r, i)) BY <2>1, RecordExtends
  <2> QED BY <2>2 DEF Recorded
<1>14. q \in InvokesOf(h) /\ q \in InvokesOf(g) /\ InvokesOf(g) \subseteq InvokesOf(h)
  BY <1>11, <1>13 DEF InvokesOf
<1>15. g[q].id = u.id BY <1>11, <1>13
<1>16. ASSUME NEW p \in InvokesOf(h), p # q
       PROVE  Alike(SlotOf(threads, h[p].id), SlotOf(threads', g[p].id))
  <2>1. p \in DOMAIN h /\ h[p].type = "invoke" BY DEF InvokesOf
  <2>2. h[p].id # r.id
    <3>1. \A a, b \in DOMAIN h : h[a].type = h[b].type /\ h[a].id = h[b].id => a = b
      BY DEF RoundIsWellFormed
    <3> QED BY <1>6, <1>11, <1>16, <2>1, <3>1
  <2>3. Alike(SlotOf(threads, h[p].id), SlotOf(threads', h[p].id))
    BY <1>1, <1>2, <1>6, <2>1, <2>2, OthersStay
  <2> QED BY <1>13, <2>1, <2>3
<1>17. SlotOf(threads', g[q].id) = r
  <2>1. Replaced(threads'[i], th[i], l, r) BY <1>1, <1>3 DEF TaskChanged
  <2>2. l \in 1..Len(threads'[i]) /\ threads'[i][l] = r BY <1>3, <2>1 DEF Replaced
  <2>3. HasTask(threads', r) BY <2>2 DEF HasTask
  <2> QED BY <1>1, <1>2, <1>6, <1>15, <2>3, SlotIsTask
<1>18. Alike(SlotOf(threads, h[q].id), t)
  <2>1. SlotOf(threads, u.id) = u BY <1>1, <1>2, <1>7, SlotIsTask
  <2> QED BY <1>5, <1>11, <2>1
<1>19. Advances(h, g, threads, threads', q, t, r)
  BY <1>12, <1>13, <1>14, <1>15, <1>16, <1>17, <1>18 DEF Advances
<1> QED BY <1>14, <1>19

(* A history that is explained so, with the results the tasks returned, is *)
(* linearizable; d is what the checker reads of h.                         *)
LEMMA ExplainedIsLinearizable ==
  ASSUME Lin!SpecAssumption, NEW h, NEW d, NEW op, NEW abs, Explained(h, op, abs),
         DOMAIN d = DOMAIN h,
         \A p \in DOMAIN h : d[p].type = h[p].type /\ d[p].task.id = h[p].id,
         \A p \in InvokesOf(h) : op[p].call = d[p].task.call,
         \A p \in InvokesOf(h) :
           (\E j \in DOMAIN h : h[j].type = "response" /\ h[j].id = h[p].id) =>
             op[p].past /\ op[p].value = d[p].task.ret
  PROVE  Lin!Linearizable(d)
<1>1. PICK n, order, states :
        IsOrder(h, op, n, order) /\ IsExecution(op, abs, n, order, states)
  BY DEF Explained
<1>2. /\ n \in Nat /\ order \in [1..n -> InvokesOf(h)]
      /\ \A k, m \in 1..n : order[k] = order[m] => k = m
      /\ \A k, m \in 1..n : k < m => ~Before(h, order[m], order[k])
      /\ \A p \in InvokesOf(h) : op[p].past => \E k \in 1..n : order[k] = p
  BY <1>1 DEF IsOrder
<1>3. Lin!Invokes(d) = InvokesOf(h) BY DEF Lin!Invokes, InvokesOf
<1>4. \A p \in InvokesOf(h) : Lin!Answered(d, p) => op[p].past /\ op[p].value = d[p].task.ret
  BY DEF InvokesOf, Lin!Answered, Lin!Responses, Lin!Answers
<1>5. PICK S : S = {order[k] : k \in 1..n} OBVIOUS
<1>6. S \in SUBSET Lin!Invokes(d) BY <1>2, <1>3, <1>5
<1>7. \A p \in Lin!Invokes(d) : Lin!Answered(d, p) => p \in S
  BY <1>2, <1>3, <1>4, <1>5
<1>8. order \in [1..n -> S]
  <2>1. \A k \in 1..n : order[k] \in S BY <1>5
  <2> QED BY <1>2, <2>1
<1>11. Lin!RespectsRealTime(d, order)
  <2> SUFFICES ASSUME NEW k \in 1..n, NEW m \in 1..n, k < m
               PROVE  ~Lin!Precedes(d, order[m], order[k])
    BY <1>2 DEF Lin!RespectsRealTime
  <2>1. order[m] \in DOMAIN h /\ ~Before(h, order[m], order[k])
    BY <1>2 DEF InvokesOf
  <2> QED BY <2>1 DEF Before, Lin!Precedes, Lin!Responses, Lin!Answers
<1>12. /\ states \in [1..(n + 1) -> SpecStates] /\ states[1] = first_state
       /\ \A k \in 1..n :
            /\ states[k + 1] = Effect(states[k], op[order[k]].call)
            /\ op[order[k]].value = Result(states[k], op[order[k]].call)
  BY <1>1 DEF IsExecution
<1>13. \A k \in 1..n : /\ op[order[k]].call = d[order[k]].task.call
                       /\ Lin!Answered(d, order[k]) =>
                            op[order[k]].value = d[order[k]].task.ret
  BY <1>2, <1>4
<1>14. Lin!Legal(d, order, states)
  <2>1. DOMAIN order = 1..n BY <1>2
  <2> QED BY <1>12, <1>13, <2>1 DEF Lin!Legal
<1>15. \A p \in S : \E k \in 1..n : order[k] = p BY <1>5
<1> QED BY <1>2, <1>6, <1>7, <1>8, <1>11, <1>12, <1>14, <1>15, Lin!LegalOrderLinearizes

(* A round that is past no operation. *)
LEMMA NothingIsExplained ==
  ASSUME NEW h, NEW op, InvokesOf(h) = {}, first_state \in SpecStates
  PROVE  Explained(h, op, first_state)
<1>1. PICK order, states : order = [k \in 1..0 |-> k] /\ states = [k \in 1..1 |-> first_state]
  OBVIOUS
<1>2. \A k \in 1..0 : FALSE OBVIOUS
<1>3. IsOrder(h, op, 0, order)
  <2>1. 0 \in Nat /\ order \in [1..0 -> InvokesOf(h)] BY <1>1, <1>2
  <2> QED BY <1>2, <2>1 DEF IsOrder
<1>4. IsExecution(op, first_state, 0, order, states)
  <2>1. states \in [1..(0 + 1) -> SpecStates] /\ states[1] = first_state
        /\ states[0 + 1] = first_state
    BY <1>1
  <2> QED BY <1>2, <2>1 DEF IsExecution
<1> QED BY <1>3, <1>4 DEF Explained

(* What a past operation returns is a result of the specification. *)
LEMMA ValuesAreResults ==
  ASSUME NEW h, NEW op, NEW abs, Explained(h, op, abs), NEW p \in InvokesOf(h), op[p].past
  PROVE  \E s \in SpecStates : op[p].value = Result(s, op[p].call)
<1>1. PICK n, order, states :
        IsOrder(h, op, n, order) /\ IsExecution(op, abs, n, order, states)
  BY DEF Explained
<1>2. n \in Nat /\ \E k \in 1..n : order[k] = p BY <1>1 DEF IsOrder
<1>3. PICK k \in 1..n : order[k] = p BY <1>2
<1>4. states[k] \in SpecStates /\ op[p].value = Result(states[k], op[p].call)
  BY <1>1, <1>2, <1>3 DEF IsExecution
<1> QED BY <1>4

(* What they lead to is a state of the specification. *)
LEMMA AbsIsState ==
  ASSUME NEW h, NEW op, NEW abs, Explained(h, op, abs)
  PROVE  abs \in SpecStates
BY DEF Explained, IsOrder, IsExecution

-----------------------------------------------------------------------------
(* What a resume leaves, for the outcomes of module Targets. *)
OutFields ==
  {"obj", "loc", "returned", "ret", "wait", "parks", "unparks", "coroutine", "fails"}
Leaves(out, obj, place, done, v, w) ==
  /\ DOMAIN out = OutFields
  /\ out.obj = obj /\ out.loc = <<place, 0>> /\ out.returned = done
  /\ out.ret = v /\ out.wait = w

(* The outcomes of going on, of a FUTEX_WAIT and of a return. *)
LEMMA Outcomes ==
  ASSUME NEW obj, NEW place, NEW v, NEW w
  PROVE  /\ Leaves(Yield(obj, place, 0), obj, place, FALSE, -2, -1)
         /\ Leaves([Yield(obj, place, 0) EXCEPT !.wait = w], obj, place, FALSE, -2, w)
         /\ Leaves(Return(obj, v), obj, "end", TRUE, v, -1)
<1>1. \A p : Leaves(Yield(obj, p, 0), obj, p, FALSE, -2, -1)
  BY DEF Yield, Leaves, OutFields
<1>2. PICK y, z : y = Yield(obj, place, 0) /\ z = Yield(obj, "end", 0) OBVIOUS
<1>3. Leaves(y, obj, place, FALSE, -2, -1) /\ Leaves(z, obj, "end", FALSE, -2, -1)
  BY <1>1, <1>2
<1>4. Leaves([y EXCEPT !.wait = w], obj, place, FALSE, -2, w)
  BY <1>3 DEF Leaves, OutFields
<1>5. Leaves([z EXCEPT !.returned = TRUE, !.ret = v], obj, "end", TRUE, v, -1)
  BY <1>3 DEF Leaves, OutFields
<1> QED BY <1>1, <1>2, <1>4, <1>5 DEF Return

(* The mutex of verifying/blocking/simple_mutex.cpp: locked_ is 0, 1 or 2, *)
(* and a task that has not returned is at a place of its method.           *)
LockPlaces   == {"entry", "lock", "waiting", "acquired"}
UnlockPlaces == {"entry", "unlock", "woken"}
PlacesOf(c)  == IF c.name = "Lock" THEN LockPlaces ELSE UnlockPlaces

FutexTasks ==
  {t \in [id : Nat, call : Calls, thread : Threads,
          loc : (LockPlaces \cup UnlockPlaces \cup {"end"}) \X {0},
          returned : BOOLEAN, ret : Int, fstate : Int] :
     ~t.returned => t.loc[1] \in PlacesOf(t.call)}

FutexLeaves(out, c) ==
  \E obj \in 0..2, v \in Int, w \in Int :
    \/ \E place \in PlacesOf(c) : Leaves(out, obj, place, FALSE, v, w)
    \/ Leaves(out, obj, "end", TRUE, v, w)

(* A resume of Lock or Unlock leaves one of the three values of locked_,  *)
(* and the task at a place of its method or returned.                      *)
LEMMA FutexMutexLeaves ==
  ASSUME NEW o \in 0..2, NEW t \in FutexTasks, ~IsReturned(t)
  PROVE  FutexLeaves(FutexMutexBody(o, t), t.call)
<1>1. PICK out, c, place : out = FutexMutexBody(o, t) /\ c = t.call /\ place = t.loc[1]
  OBVIOUS
<1>2. place \in PlacesOf(c) BY <1>1 DEF FutexTasks, IsReturned
<1>3. ASSUME NEW obj \in 0..2, NEW p \in PlacesOf(c)
      PROVE  FutexLeaves(Yield(obj, p, 0), c)
  <2>1. Leaves(Yield(obj, p, 0), obj, p, FALSE, -2, -1) BY Outcomes
  <2>2. -2 \in Int /\ -1 \in Int OBVIOUS
  <2> QED BY <2>1, <2>2, Zenon DEF FutexLeaves
<1>4. ASSUME NEW obj \in 0..2 PROVE FutexLeaves(Return(obj, 0), c)
  <2>1. Leaves(Return(obj, 0), obj, "end", TRUE, 0, -1) BY Outcomes
  <2>2. 0 \in Int /\ -1 \in Int OBVIOUS
  <2> QED BY <2>1, <2>2, Zenon DEF FutexLeaves
<1>5. CASE c.name = "Lock"
  <2>1. PICK waits, again : /\ waits = [Yield(2, "waiting", 0) EXCEPT !.wait = 2]
                            /\ again = LockLoop(o)
    OBVIOUS
  <2>2. PlacesOf(c) = LockPlaces BY <1>5 DEF PlacesOf
  <2>3. FutexLeaves(waits, c)
    <3>1. Leaves(waits, 2, "waiting", FALSE, -2, 2) BY <2>1, Outcomes
    <3>2. 2 \in 0..2 /\ -2 \in Int /\ 2 \in Int OBVIOUS
    <3>3. "waiting" \in PlacesOf(c) BY <2>2 DEF LockPlaces
    <3> QED BY <3>1, <3>2, <3>3, Zenon DEF FutexLeaves
  <2>4. FutexLeaves(again, c)
    <3>1. again = IF o = 0 THEN Yield(2, "acquired", 0) ELSE waits
      BY <2>1 DEF LockLoop
    <3> QED BY <1>3, <2>2, <2>3, <3>1 DEF LockPlaces
  <2>5. out = FutexLock(o, place, again) BY <1>1, <1>5, <2>1 DEF FutexMutexBody
  <2>6. \/ out = Yield(o, "lock", 0) \/ out = Yield(1, "acquired", 0)
        \/ out = again \/ out = waits \/ out = Return(o, 0)
    BY <1>2, <2>1, <2>2, <2>5 DEF FutexLock, LockPlaces
  <2> QED BY <1>1, <1>3, <1>4, <2>2, <2>3, <2>4, <2>6 DEF LockPlaces
<1>6. CASE c.name # "Lock"
  <2>1. PlacesOf(c) = UnlockPlaces BY <1>6 DEF PlacesOf
  <2>2. out = FutexUnlock(o, place) BY <1>1, <1>6 DEF FutexMutexBody
  <2>3. \/ out = Yield(o, "unlock", 0) \/ out = Return(0, 0)
        \/ out = Yield(0, "woken", 0) \/ out = Return(o, 0)
    BY <1>2, <2>1, <2>2 DEF FutexUnlock, UnlockPlaces
  <2> QED BY <1>1, <1>3, <1>4, <2>1, <2>3 DEF UnlockPlaces
<1> QED BY <1>5, <1>6

(* It is a target as TargetOK asks for, and Reset makes a new one. *)
LEMMA FutexMutexIsTarget ==
  ASSUME NewObjs = {0}, \A o : Reset(o) = 0,
         \A o, t : Body(o, t) = FutexMutexBody(o, t),
         \A o, i : Generates(o, i) \subseteq Calls
  PROVE  /\ TargetOK(0..2, [o \in 0..2 |-> FutexTasks])
         /\ \A o \in 0..2 : Reset(o) \in NewObjs
<1>1. ASSUME NEW t \in FutexTasks
      PROVE  IsTyped(t) /\ \A o : AfterIsBlocked(t, o) \in FutexTasks
  <2>1. IsTyped(t) BY DEF FutexTasks, IsTyped, IsTask, Fields, TaskOK
  <2>2. \A o : AfterIsBlocked(t, o) \in FutexTasks
    BY DEF FutexTasks, AfterIsBlocked, NoFutex
  <2> QED BY <2>1, <2>2
<1>2. ASSUME NEW id \in Nat, NEW c \in Calls, NEW i \in Threads
      PROVE  New(id, c, i) \in FutexTasks
  BY DEF FutexTasks, New, NoRet, NoFutex, PlacesOf, LockPlaces, UnlockPlaces
<1>3. ASSUME NEW o \in 0..2, NEW t \in FutexTasks, ~IsReturned(t)
      PROVE  ObjAfter(t, o) \in 0..2 /\ Resumed(t, o) \in FutexTasks
  <2>1. PICK out : out = Body(o, t) OBVIOUS
  <2>2. FutexLeaves(out, t.call) BY <1>3, <2>1, FutexMutexLeaves
  <2>3. PICK obj \in 0..2, place \in PlacesOf(t.call) \cup {"end"}, done \in BOOLEAN,
             v \in Int, w \in Int :
          Leaves(out, obj, place, done, v, w) /\ (~done => place \in PlacesOf(t.call))
    <3>1. "end" \in PlacesOf(t.call) \cup {"end"} OBVIOUS
    <3> QED BY <2>2, <3>1, Zenon DEF FutexLeaves
  <2>4. PICK f \in Int : f = FutexAfter(t, out)
    BY <2>3 DEF Leaves, FutexAfter, FutexTasks
  <2>5. Resumed(t, o) = [t EXCEPT !.loc = <<place, 0>>, !.returned = done,
                                  !.ret = v, !.fstate = f]
    BY <2>1, <2>3, <2>4 DEF Resumed, Leaves
  <2>6. <<place, 0>> \in (LockPlaces \cup UnlockPlaces \cup {"end"}) \X {0}
        /\ <<place, 0>>[1] = place
    BY <2>3 DEF PlacesOf
  <2>7. Resumed(t, o) \in FutexTasks BY <2>3, <2>5, <2>6 DEF FutexTasks
  <2> QED BY <2>1, <2>3, <2>7 DEF ObjAfter, Leaves
<1>4. \A o \in 0..2 : [u \in 0..2 |-> FutexTasks][o] = FutexTasks OBVIOUS
<1> QED BY <1>1, <1>2, <1>3, <1>4 DEF TargetOK
=============================================================================
