---------------------------- MODULE TlaScheduler -----------------------------
(***************************************************************************)
(* TLAScheduler (runtime/include/scheduler.h): a depth-first search over   *)
(* all executions.  RunStep and ResumeTask call each other; their          *)
(* activations are the frames, each the code's Frame together with the     *)
(* local variables of the two functions:                                   *)
(*                                                                         *)
(*   thread, constructor  the positions of the two loops of RunStep        *)
(*   switches, all_parked its parameter and local variable                 *)
(*   task, is_new         the code's Frame                                 *)
(*   is_finished          of ResumeTask                                    *)
(*                                                                         *)
(* `mode` tells where the top frame is: "step" in the loops of RunStep,    *)
(* "judge" and "undo" in ResumeTask after the task was resumed.  Then      *)
(* "destroy" is the destructor; "done" and "abort" are ends.  A coroutine  *)
(* cannot go back, so an undone step is followed by a replay of all frames *)
(* below.  A task is named by its slot, as the histories refer to it.      *)
(***************************************************************************)
EXTENDS Coro, FiniteSets, SequencesExt

CONSTANTS
  Options,             \* the Opts of the command line, with the object
  Constructors(_),     \* the names of the task builders of an object
  NewStatus,
  Verify(_, _, _, _),
  OnFinished(_, _, _),
  Check(_),
  CheckThrows(_)

VARIABLES
  opts,                \* obj, threads, tasks, switches, rounds, depth
  threads, state, parked, status,
  frames, mode,
  started_tasks, finished_tasks, finished_rounds,
  sequential_history,  \* events as in StrategyScheduler
  full_history,        \* of tasks and, with `coroutine` not "none", of statuses
  thread_id_history,
  result               \* of Run: "none", "nullopt", "histories", "exception"

worldVars == <<threads, state, parked>>
historyVars == <<sequential_history, full_history, thread_id_history>>
countVars == <<started_tasks, finished_tasks, finished_rounds>>
vars == <<opts, worldVars, status, frames, mode, countVars, historyVars, result>>

Threads == 0..(opts.threads - 1)

(* What a step changes and a replay restores. *)
World(th, obj, tokens) == [threads |-> th, obj |-> obj, parked |-> tokens]

NewFrame(switches) ==
  [thread |-> 0, constructor |-> 1, switches |-> switches, all_parked |-> TRUE,
   task |-> << >>, is_new |-> FALSE, is_finished |-> FALSE]

Init ==
  /\ opts \in Options
  /\ threads = [i \in Threads |-> << >>]
  /\ state = opts.obj
  /\ parked = {}
  /\ status = NewStatus
  /\ frames = <<NewFrame(0)>>
  /\ mode = "step"
  /\ started_tasks = 0 /\ finished_tasks = 0 /\ finished_rounds = 0
  /\ sequential_history = << >> /\ full_history = << >>
  /\ thread_id_history = << >>
  /\ result = "none"

Top == Last(frames)
WithTop(frame) == Append(Front(frames), frame)

-----------------------------------------------------------------------------
(* TerminateTasks and Replay.  A run is a world in which an assert may     *)
(* have failed.                                                            *)
RunOf(w) == [threads |-> w.threads, obj |-> w.obj, parked |-> w.parked, fails |-> FALSE]

PutTask(r, slot, m) ==
  [threads |-> [r.threads EXCEPT ![slot[1]][slot[2]] = m.task], obj |-> m.obj,
   parked |-> m.parked, fails |-> r.fails \/ m.fails]

TerminateTask(r, slot) ==
  LET t == r.threads[slot[1]][slot[2]]
  IN IF IsReturned(t) THEN r
     ELSE PutTask(r, slot, Terminated(Machine(t, r.obj, r.parked)))

(* Thread by thread, in the order of the queues; parked or not. *)
TerminateTasks(w) ==
  LET slots == FlattenSeq([n \in 1..opts.threads |->
                 [k \in 1..Len(w.threads[n - 1]) |-> <<n - 1, k>>]])
  IN FoldLeft(TerminateTask, RunOf(w), slots)

(* The token stays with the task, parked or not. *)
RestartedFrame(frame, t) == IF frame.is_new THEN New(t.id, t.call, t.thread) ELSE t

ReplayFrame(r, frame) ==
  LET t == RestartedFrame(frame, r.threads[frame.task[1]][frame.task[2]])
  IN IF IsReturned(t) THEN [r EXCEPT !.fails = TRUE]
     ELSE PutTask(r, frame.task, Moved(Machine(t, r.obj, r.parked)))

(* Mutant: state.Reset() is left out. *)
ReplayNoReset(w) == FoldLeft(ReplayFrame, TerminateTasks(w), Front(frames))

(* Replay(step): the frames below the top one. *)
Replay(w) ==
  LET terminated == TerminateTasks(w)
  IN FoldLeft(ReplayFrame, [terminated EXCEPT !.obj = Reset(@)], Front(frames))

-----------------------------------------------------------------------------
(* RunStep looks at a thread. *)
Visiting == mode = "step" /\ Top.thread < opts.threads
Unfinished(i) == threads[i] # << >> /\ ~IsReturned(Last(threads[i]))
Names == Constructors(state)

NextThread(frame) == [frame EXCEPT !.thread = @ + 1, !.constructor = 1]

(* Mutant: all_parked is not cleared. *)
NotParkedForgets(frame) == frame

NotParked(frame) == [frame EXCEPT !.all_parked = FALSE]

(* The thread has a task that is not returned, parked or refused by the    *)
(* verifier.                                                               *)
SkipTask ==
  /\ Visiting
  /\ Unfinished(Top.thread)
  /\ LET t == Last(threads[Top.thread])
     IN /\ IsParked(t, parked) \/ ~Verify(status, t.call, Top.thread, FALSE)
        /\ frames' = WithTop(NextThread(IF IsParked(t, parked) THEN Top ELSE NotParked(Top)))
  /\ UNCHANGED <<opts, worldVars, status, mode, countVars, historyVars, result>>

(* Mutant: the depth is not looked at. *)
MayStartAnywhere(i) == started_tasks < opts.tasks

MayStart(i) == started_tasks < opts.tasks /\ Len(threads[i]) < opts.depth

(* No task is to be started: the bounds are reached, or all constructors   *)
(* were tried.                                                             *)
NoStart ==
  /\ Visiting
  /\ ~Unfinished(Top.thread)
  /\ ~MayStart(Top.thread) \/ Top.constructor > Len(Names)
  /\ frames' = WithTop(NextThread(NotParked(Top)))
  /\ UNCHANGED <<opts, worldVars, status, mode, countVars, historyVars, result>>

Starting ==
  /\ Visiting
  /\ ~Unfinished(Top.thread)
  /\ MayStart(Top.thread) /\ Top.constructor <= Len(Names)

(* What Verify is asked about a constructor is its name. *)
Refused == ~Verify(status, [of |-> state[1], name |-> Names[Top.constructor]],
                   Top.thread, TRUE)

SkipConstructor ==
  /\ Starting
  /\ Refused
  /\ frames' = WithTop([NotParked(Top) EXCEPT !.constructor = @ + 1])
  /\ UNCHANGED <<opts, worldVars, status, mode, countVars, historyVars, result>>

-----------------------------------------------------------------------------
(* ResumeTask *)

(* The counter of switches after a task of thread i went on. *)
NextSwitches(i) ==
  Top.switches
    + (IF thread_id_history = << >> \/ Last(thread_id_history) # i THEN 1 ELSE 0)

Continuing ==
  /\ Visiting
  /\ Unfinished(Top.thread)
  /\ LET t == Last(threads[Top.thread])
     IN ~IsParked(t, parked) /\ Verify(status, t.call, Top.thread, FALSE)

(* Mutant: the same thread is tried again. *)
AfterLimitStays(frame) == NotParked(frame)

AfterLimit(frame) == NextThread(NotParked(frame))

(* "The limit of switches is achieved. So, do not resume task."  RunStep   *)
(* replays all the same.                                                   *)
SwitchLimit ==
  /\ Continuing
  /\ NextSwitches(Top.thread) > opts.switches
  /\ LET r == Replay(World(threads, state, parked))
     IN /\ ~r.fails
        /\ threads' = r.threads /\ state' = r.obj /\ parked' = r.parked
  /\ frames' = WithTop(AfterLimit(Top))
  /\ UNCHANGED <<opts, status, mode, countVars, historyVars, result>>

(* UpdateFullHistory: a step that left a coroutine status is an entry of   *)
(* its own, after the one of the task if this was its first step.          *)
FullEntries(t, is_new, coroutine) ==
  LET entry(status_left) == <<[task |-> t.id, coroutine |-> status_left]>>
  IN (IF is_new \/ coroutine = "none" THEN entry("none") ELSE << >>)
       \o (IF coroutine = "none" THEN << >> ELSE entry(coroutine))

(* Invoke and Response *)
Events(t, is_new, finished) ==
  (IF is_new THEN <<[type |-> "invoke", id |-> t.id]>> ELSE << >>)
    \o (IF finished THEN <<[type |-> "response", id |-> t.id]>> ELSE << >>)

(* t is resumed, the last task of its thread in the queues th. *)
Resumes(th, t, is_new, switches) ==
  LET m == Moved(Machine(t, state, parked))
      i == t.thread
      after == World([th EXCEPT ![i] = Append(Front(@), m.task)], m.obj, m.parked)
      finished == IsReturned(m.task)
      frame == [NotParked(Top) EXCEPT !.task = t.id, !.is_new = is_new,
                                      !.is_finished = finished]
      stop == finished_tasks + (IF finished THEN 1 ELSE 0) = opts.tasks
  IN /\ ~m.fails
     /\ threads' = after.threads /\ state' = after.obj /\ parked' = after.parked
     /\ thread_id_history' = Append(thread_id_history, i)
     /\ full_history' = full_history \o FullEntries(t, is_new, Body(state, t).coroutine)
     /\ sequential_history' = sequential_history \o Events(t, is_new, finished)
     /\ started_tasks' = started_tasks + (IF is_new THEN 1 ELSE 0)
     /\ finished_tasks' = finished_tasks + (IF finished THEN 1 ELSE 0)
     /\ status' = IF finished THEN OnFinished(status, t.call, i) ELSE status
     /\ mode' = IF stop THEN "judge" ELSE "step"
     /\ frames' = WithTop(frame) \o (IF stop THEN << >> ELSE <<NewFrame(switches)>>)
     /\ UNCHANGED <<opts, finished_rounds, result>>

ContinueTask ==
  /\ Continuing
  /\ NextSwitches(Top.thread) <= opts.switches
  /\ Resumes(threads, Last(threads[Top.thread]), FALSE, NextSwitches(Top.thread))

(* The calls Build can return for the constructor that is tried. *)
Builds == {c \in Generates(state, Top.thread) : c.name = Names[Top.constructor]}

NewTask(c) == New(<<Top.thread, Len(threads[Top.thread]) + 1>>, c, Top.thread)

StartTask ==
  /\ Starting
  /\ ~Refused
  /\ \E c \in Builds :
       Resumes([threads EXCEPT ![Top.thread] = Append(@, NewTask(c))], NewTask(c),
               TRUE, Top.switches)

-----------------------------------------------------------------------------
Dereferenced(h) ==
  [p \in DOMAIN h |->
     LET t == threads[h[p].id[1]][h[p].id[2]]
     IN [type |-> h[p].type, task |-> [id |-> h[p].id, call |-> t.call, ret |-> t.ret]]]

(* "Stop, check if the the generated history is linearizable": the search  *)
(* ends with the histories or after the last round, or it goes back.       *)
Judge ==
  /\ mode = "judge"
  /\ ~CheckThrows(Dereferenced(sequential_history))
  /\ finished_rounds' = finished_rounds + 1
  /\ LET passes == Check(Dereferenced(sequential_history))
     IN \/ ~passes /\ result' = "histories" /\ mode' = "destroy"
        \/ /\ passes /\ finished_rounds' = opts.rounds
           /\ result' = "nullopt" /\ mode' = "destroy"
        \/ /\ passes /\ finished_rounds' # opts.rounds
           /\ mode' = "undo"
           /\ UNCHANGED result
  /\ UNCHANGED <<opts, worldVars, status, frames, started_tasks, finished_tasks, historyVars>>

CheckerThrows ==
  /\ mode = "judge"
  /\ CheckThrows(Dereferenced(sequential_history))
  /\ mode' = "abort"
  /\ result' = "exception"
  /\ UNCHANGED <<opts, worldVars, status, frames, countVars, historyVars>>

(* The end of RunStep. *)
EndStep ==
  /\ mode = "step"
  /\ Top.thread = opts.threads
  /\ ~Top.all_parked
  /\ frames' = Front(frames)
  /\ IF Len(frames) = 1
     THEN mode' = "destroy" /\ result' = "nullopt"
     ELSE mode' = "undo" /\ UNCHANGED result
  /\ UNCHANGED <<opts, worldVars, status, countVars, historyVars>>

(* Mutant: takes back one entry only. *)
FullHistoryPoppedOnce == Front(full_history)

(* "Removing combination of start of task + coroutine start": the entry of *)
(* the task is taken back with the one of the coroutine if it is the first *)
(* entry of the thread.                                                    *)
FullHistoryPopped ==
  LET n == Len(full_history)
      entry == full_history[n]
      first == CHOOSE p \in 1..n :
                 /\ full_history[p].task[1] = entry.task[1]
                 /\ \A q \in 1..(p - 1) : full_history[q].task[1] # entry.task[1]
      pair == entry.coroutine = "start" /\ first = n - 1
  IN SubSeq(full_history, 1, IF pair THEN n - 2 ELSE n - 1)

(* The rest of ResumeTask and of the iteration of RunStep: what the step   *)
(* did is taken back.                                                      *)
Undone ==
  LET i == Top.thread
  IN IF Top.is_new
     THEN World([threads EXCEPT ![i] = Front(@)], state, parked \ {Last(threads[i]).id})
     ELSE World(threads, state, parked)

(* Mutant: the other constructors are not tried. *)
NextTrySkips(frame) == NextThread(frame)

NextTry(frame) ==
  IF frame.is_new THEN [frame EXCEPT !.constructor = @ + 1] ELSE NextThread(frame)

Undo ==
  /\ mode = "undo"
  /\ thread_id_history' = Front(thread_id_history)
  /\ full_history' = FullHistoryPopped
  /\ LET events == (IF Top.is_finished THEN 1 ELSE 0) + (IF Top.is_new THEN 1 ELSE 0)
     IN sequential_history' =
          SubSeq(sequential_history, 1, Len(sequential_history) - events)
  /\ finished_tasks' = finished_tasks - (IF Top.is_finished THEN 1 ELSE 0)
  /\ started_tasks' = started_tasks - (IF Top.is_new THEN 1 ELSE 0)
  /\ LET r == Replay(Undone)
     IN /\ ~r.fails
        /\ threads' = r.threads /\ state' = r.obj /\ parked' = r.parked
  /\ frames' = WithTop(NextTry(Top))
  /\ mode' = "step"
  /\ UNCHANGED <<opts, status, finished_rounds, result>>

-----------------------------------------------------------------------------
(* ~TLAScheduler *)
Destroy ==
  /\ mode = "destroy"
  /\ LET r == TerminateTasks(World(threads, state, parked))
     IN /\ ~r.fails
        /\ threads' = r.threads /\ state' = r.obj /\ parked' = r.parked
  /\ mode' = "done"
  /\ UNCHANGED <<opts, status, frames, countVars, historyVars, result>>

(* assert(!all_parked && "deadlock"), "extra call" of an argument          *)
(* generator, the asserts of Terminate and Resume and those of the target. *)
AssertFails ==
  \/ mode = "step" /\ Top.thread = opts.threads /\ Top.all_parked
  \/ Starting /\ ~Refused
       /\ (Builds = {} \/ \E c \in Builds : Fails(NewTask(c), state))
  \/ Continuing /\ IF NextSwitches(Top.thread) > opts.switches
                   THEN Replay(World(threads, state, parked)).fails
                   ELSE Fails(Last(threads[Top.thread]), state)
  \/ mode = "undo" /\ Replay(Undone).fails
  \/ mode = "destroy" /\ TerminateTasks(World(threads, state, parked)).fails

Abort ==
  /\ AssertFails = TRUE
  /\ mode' = "abort"
  /\ UNCHANGED <<opts, worldVars, status, frames, countVars, historyVars, result>>

Ended == mode \in {"done", "abort"} /\ UNCHANGED vars

Next ==
  \/ SkipTask \/ NoStart \/ SkipConstructor \/ SwitchLimit \/ ContinueTask
  \/ StartTask \/ Judge \/ CheckerThrows \/ EndStep \/ Undo \/ Destroy
  \/ Abort \/ Ended

Spec == Init /\ [][Next]_vars

(* The types, and the bounds of the options: no thread has more tasks than *)
(* its depth, no execution more than its switches and tasks.               *)
TypeOK ==
  /\ opts \in Options
  /\ mode \in {"step", "judge", "undo", "destroy", "done", "abort"}
  /\ result \in {"none", "nullopt", "histories", "exception"}
  /\ \A i \in Threads : Len(threads[i]) <= opts.depth
  /\ \A i \in Threads : \A k \in DOMAIN threads[i] :
       threads[i][k].id = <<i, k>> /\ threads[i][k].thread = i
  /\ \A slot \in parked : slot[1] \in Threads /\ slot[2] \in DOMAIN threads[slot[1]]
  /\ \A p \in DOMAIN frames :
       /\ frames[p].thread \in 0..opts.threads
       /\ frames[p].constructor \in 1..(Len(Names) + 1)
       /\ frames[p].switches \in 0..opts.switches
  /\ finished_tasks \in 0..started_tasks /\ started_tasks \in 0..opts.tasks
  /\ finished_rounds \in 0..opts.rounds
=============================================================================
