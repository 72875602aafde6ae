--------------------------- MODULE MCTlaScheduler ---------------------------
(***************************************************************************)
(* TLAScheduler on the test programs of the repository.  The search is     *)
(* compared with the recursion it stands for: one that keeps the states it *)
(* has to come back to, where the code replays.                            *)
(***************************************************************************)
EXTENDS TlaScheduler, TargetTable

MaxThreads == 3
ZeroStatus == [i \in 0..(MaxThreads - 1) |-> 0]

(* The task builders in the order of their registration. *)
TargetConstructors(obj) ==
  CASE obj[1] \in Mutexes    -> <<"Lock", "Unlock">>
    [] obj[1] \in Registers  -> <<"add", "get">>
    [] obj[1] \in Containers -> <<"Push", "Pop">>
    [] obj[1] = "deadlock"   -> <<"Lock">>
    [] OTHER                 -> <<"Get">>

Opts(program, thread_count, task_count, depth, switches, rounds) ==
  [obj |-> FreshObj(program), threads |-> thread_count, tasks |-> task_count,
   depth |-> depth, switches |-> switches, rounds |-> rounds]

Unlimited == 1000
MaxSteps == 24      \* of an execution; the longest method has 11

SearchOptions ==
  {Opts("counique_args", 3, 3, 1, 1, Unlimited),
   Opts("unique_args", 3, 3, 1, Unlimited, Unlimited),
   Opts("race_register", 2, 2, 2, Unlimited, Unlimited),
   Opts("race_register", 2, 3, 2, 1, Unlimited),
   Opts("simple_mutex", 1, 2, 2, Unlimited, Unlimited),
   Opts("atomic_register", 2, 2, 2, Unlimited, Unlimited),
   Opts("atomic_register", 2, 2, 2, 0, 7),
   Opts("atomic_register", 2, 3, 0, Unlimited, Unlimited),
   Opts("mutex_queue", 2, 2, 1, 1, Unlimited),
   Opts("deadlock", 2, 2, 1, 4, Unlimited),
   Opts("deadlock", 2, 2, 1, Unlimited, Unlimited),
   Opts("deadlock", 2, 3, 1, Unlimited, Unlimited),
   Opts("deadlock", 3, 4, 1, Unlimited, Unlimited)}

VerifierOptions == {Opts("simple_mutex", 1, 3, 3, Unlimited, Unlimited)}

-----------------------------------------------------------------------------
(* An execution: what was chosen, and what came of it. *)
NewExecution(o) ==
  [table |-> << >>, switches |-> 0, started |-> 0, finished |-> 0,
   history |-> << >>, entries |-> << >>,
   world |-> World([i \in 0..(o.threads - 1) |-> << >>], o.obj, {})]

(* Task t of thread i goes on, the last one of the queues th; n is the     *)
(* constructor it was started with, 0 for one that was started before.     *)
Extended(e, th, t, n) ==
  LET i == t.thread
      m == Moved(Machine(t, e.world.obj, e.world.parked))
      switch == n = 0 /\ e.table # << >> /\ Last(e.table)[1] # i
  IN [table |-> Append(e.table, <<i, n>>),
      switches |-> e.switches + (IF switch THEN 1 ELSE 0),
      started |-> e.started + (IF n = 0 THEN 0 ELSE 1),
      finished |-> e.finished + (IF IsReturned(m.task) THEN 1 ELSE 0),
      history |-> e.history \o Events(t, n # 0, IsReturned(m.task)),
      entries |-> e.entries \o FullEntries(t, n # 0, Body(e.world.obj, t).coroutine),
      world |-> World([th EXCEPT ![i] = Append(Front(@), m.task)], m.obj, m.parked)]

Started(e, i, c, n) ==
  LET t == New(<<i, Len(e.world.threads[i]) + 1>>, c, i)
  IN Extended(e, [e.world.threads EXCEPT ![i] = Append(@, t)], t, n)

(* The executions of one more step. *)
Extensions(o, e) ==
  LET th == e.world.threads
      running(i) == th[i] # << >> /\ ~IsReturned(Last(th[i]))
      continued == {Extended(e, th, Last(th[i]), 0) :
                      i \in {i \in DOMAIN th : running(i) /\ ~IsParked(Last(th[i]), e.world.parked)}}
      started(i) == {Started(e, i, c, n) :
                       n \in DOMAIN TargetConstructors(o.obj),
                       c \in GeneratedCalls(e.world.obj, i)}
  IN {next \in continued : next.switches <= o.switches}
       \cup UNION {{next \in started(i) : Last(next.world.threads[i]).call.name
                                            = TargetConstructors(o.obj)[Last(next.table)[2]]} :
                    i \in {i \in DOMAIN th : /\ ~running(i)
                                             /\ e.started < o.tasks
                                             /\ Len(th[i]) < o.depth}}

(* The executions that are complete after at most MaxSteps steps; one that *)
(* cannot go on is dropped.                                                *)
ExecutionsOf(o) ==
  LET after[n \in 0..MaxSteps] ==
        IF n = 0 THEN {NewExecution(o)}
        ELSE UNION {IF e.finished = o.tasks THEN {e} ELSE Extensions(o, e) :
                      e \in after[n - 1]}
  IN after[MaxSteps]

Executions == [o \in Options |-> ExecutionsOf(o)]

-----------------------------------------------------------------------------
(* The table of the search: what its frames chose. *)
Choice(frame) == <<frame.task[1], IF frame.is_new THEN frame.constructor ELSE 0>>
Table == [p \in DOMAIN frames |-> Choice(frames[p])]

(* The order of the two loops of RunStep, and of the places of a search. *)
Earlier(a, b) ==
  \E p \in DOMAIN a \cap DOMAIN b :
    /\ \A q \in 1..(p - 1) : a[q] = b[q]
    /\ \E k \in DOMAIN a[p] : a[p][k] < b[p][k] /\ \A j \in 1..(k - 1) : a[p][j] = b[p][j]

Repeat(e, frame) ==
  LET i == frame.task[1]
      th == e.world.threads
  IN IF frame.is_new
     THEN Started(e, i, threads[i][frame.task[2]].call, frame.constructor)
     ELSE Extended(e, th, Last(th[i]), 0)

(* The execution the frames below the top one describe. *)
Repeated == FoldLeft(Repeat, NewExecution(opts), Front(frames))

(* The program has a verifier: what it learnt from a finished task is not  *)
(* taken back, see UnlocksFollowLocks.                                     *)
Verified == state[1] \in Mutexes

(* "In fact, it enumerates tables": the executions are judged one by one,  *)
(* each once and none left out, however often the search went back, and    *)
(* the search ends after the last or with the limit of rounds.             *)
EnumeratesAll ==
  ~Verified =>
  LET all == {e.table : e \in Executions[opts]}
  IN /\ mode = "judge" =>
          /\ Table \in all
          /\ finished_rounds = Cardinality({t \in all : Earlier(t, Table)})
     /\ mode = "done" /\ result = "nullopt" =>
          finished_rounds = Min({Cardinality(all), opts.rounds})

(* "As we can't return to the past in coroutine, we need to replay all     *)
(* tasks from the beginning": when RunStep tries its next choice, the      *)
(* object, the tasks and the tokens are those its execution led to,        *)
(* although everything has been terminated and run again since.            *)
ReplayRestores ==
  mode = "step" => World(threads, state, parked) = Repeated.world

(* The histories and the counters are those of the execution as well.  The *)
(* entry of a task whose first step starts a coroutine is taken back only  *)
(* in the first task of a thread.                                          *)
BacktrackRestores ==
  mode = "step" =>
    LET e == Repeated
    IN /\ sequential_history = e.history
       /\ opts.depth <= 1 => full_history = e.entries
       /\ Len(thread_id_history) = Len(e.table)
       /\ \A p \in DOMAIN thread_id_history : thread_id_history[p] = e.table[p][1]
       /\ <<started_tasks, finished_tasks, Top.switches>>
            = <<e.started, e.finished, e.switches>>

(* The history of an execution as the checker sees it. *)
Seen(e) ==
  [p \in DOMAIN e.history |->
     LET slot == e.history[p].id
         t == e.world.threads[slot[1]][slot[2]]
     IN [type |-> e.history[p].type, task |-> [id |-> slot, call |-> t.call, ret |-> t.ret]]]

(* The search reports an execution that is not linearizable, and nothing  *)
(* only if all executions are or the limit of rounds ends it.              *)
VerdictIsRight ==
  mode = "done" /\ ~Verified =>
    IF result = "histories" THEN ~TargetLinearizable(Dereferenced(sequential_history))
    ELSE \/ finished_rounds = opts.rounds
         \/ \A e \in Executions[opts] : TargetLinearizable(Seen(e))

(* "deadlock" is asserted only in a deadlock: every thread waits in the    *)
(* queue of a mutex whose holder waits in the queue of the other one, no   *)
(* matter how often the tasks were terminated, reset and replayed on the   *)
(* way there.  The other asserts fail only when TerminateTasks runs a task *)
(* that waits.                                                             *)
DeadlockIsReal ==
  LET waiting(m) == {state[2][m][k] : k \in 2..Len(state[2][m])}
  IN mode = "abort" /\ result = "none" =>
       /\ parked # {}
       /\ Top.thread = opts.threads =>
            /\ state[1] = "deadlock"
            /\ parked = {<<i, 1>> : i \in Threads}
            /\ \A slot \in parked : \E m \in 1..2 :
                 slot \in waiting(m) /\ Head(state[2][m]) \in waiting(3 - m)

(* Where the search is: the positions of the loops of all activations of   *)
(* RunStep, and whether a step was resumed and undone.                     *)
Position ==
  [p \in DOMAIN frames |->
     <<frames[p].thread, frames[p].constructor,
       IF p < Len(frames) \/ mode = "judge" THEN 1
       ELSE IF mode = "undo" THEN 2 ELSE 0>>]

(* The search never comes back to a place where it was, although it goes   *)
(* back and replays after every step.  Its depth is bounded for targets    *)
(* whose methods end, so it ends.                                          *)
SearchAdvances ==
  [][mode' \in {"step", "judge", "undo"} => Earlier(Position, Position')]_vars

(* scheduler.h:37: "we are not allowed to schedule unlock before lock      *)
(* call".                                                                  *)
UnlocksFollowLocks ==
  \A i \in Threads : \A k \in DOMAIN threads[i] :
    threads[i][k].call.name = "Unlock" =>
      k > 1 /\ threads[i][k - 1].call.name = "Lock"
=============================================================================
