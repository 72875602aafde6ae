-------------------------------- MODULE Coro --------------------------------
(***************************************************************************)
(* Coroutines (runtime/include/lib.h, runtime/lib.cpp) and the futex part  *)
(* of the syscall hook (syscall_intercept/hook.cpp).                       *)
(*                                                                         *)
(* The program runs in one OS thread.  A task is a fiber that runs from    *)
(* one CoroYield to the next whenever the scheduler resumes it, so a       *)
(* resume is atomic.  What the code between two yields does is the target  *)
(* under test, a parameter here:                                           *)
(*                                                                         *)
(*   Body(obj, t) is the outcome of running task t on the object obj up to *)
(*   its next yield: the object after it, `loc` (the place where it goes   *)
(*   on and a local value),                                                *)
(*   `returned` with `ret`, the value it waits for (`wait`, NoFutex if it  *)
(*   made no FUTEX_WAIT), its use of tokens: `parks` if it called          *)
(*   Token::Park on its own token, `unparks` the ids of the tasks whose    *)
(*   token it unparked; `coroutine`, the CoroutineStatus it left, if any;  *)
(*   and `fails` if an assert of the target failed;                        *)
(*   Word(obj) is the value of the futex word of the object (the targets   *)
(*   use one).                                                             *)
(*                                                                         *)
(* Several targets can be checked in one run: NewObjs has one fresh object *)
(* for each of them, and an object says which target it belongs to.        *)
(***************************************************************************)
EXTENDS Integers, Sequences

CONSTANTS
  Calls,            \* the task builders, each with arguments it may generate
  Generates(_, _),  \* Generates(obj, i): those Build can return for thread i
  NewObjs,          \* TargetObj after its constructor
  Reset(_),         \* TargetObj::Reset()
  Body(_, _),
  Word(_),
  MaxTries          \* the bound of the assert of Terminate

ASSUME TriesAssumption == MaxTries \in Nat

NoFutex == -1    \* fstate.addr is nullptr
NoRet   == -2    \* ret of a coroutine that has not returned

(* Coro::New, called by TaskBuilder::Build with the thread the task is for *)
(* (argument generators see it) and by Restart.                            *)
New(id, call, thread) ==
  [id |-> id, call |-> call, thread |-> thread, loc |-> <<"entry", 0>>, returned |-> FALSE,
   ret |-> NoRet, fstate |-> NoFutex]

IsReturned(t) == t.returned

(* IsBlocked compares the futex word with the value the task waits for.    *)
(* FUTEX_WAKE has no effect of its own: a waiter is woken when somebody    *)
(* looks at it while the word has another value.                           *)
IsBlocked(t, obj) == t.fstate # NoFutex /\ t.fstate = Word(obj)

(* The task after a call of IsBlocked, which forgets the futex when the    *)
(* answer is false.                                                        *)
AfterIsBlocked(t, obj) ==
  IF IsBlocked(t, obj) THEN t ELSE [t EXCEPT !.fstate = NoFutex]

(* `parked` is the set of the ids of the tasks whose token is parked. *)
IsParked(t, parked) == t.id \in parked

(* The syscall hook: SetBlocked for a FUTEX_WAIT, nothing for a FUTEX_WAKE *)
(* and sched_yield; all of them yield.                                     *)
FutexAfter(t, out) == IF out.wait = NoFutex THEN t.fstate ELSE out.wait

(* CoroBase::Resume: the task, the object and the tokens after it. *)
Resumed(t, obj) ==
  LET out == Body(obj, t)
  IN [t EXCEPT !.loc = out.loc, !.returned = out.returned, !.ret = out.ret,
               !.fstate = FutexAfter(t, out)]

ObjAfter(t, obj) == Body(obj, t).obj

(* An assert of the target fails before the next yield. *)
Fails(t, obj) == Body(obj, t).fails

(* Mutants: Unpark and Park have no effect. *)
ParkedAfterNoUnpark(t, obj, parked) ==
  parked \cup (IF Body(obj, t).parks THEN {t.id} ELSE {})
ParkedAfterNoPark(t, obj, parked) == parked

(* Token::Park on the own token, Token::Unpark on the ones of others. *)
ParkedAfter(t, obj, parked) ==
  LET out == Body(obj, t)
  IN (parked \cup (IF out.parks THEN {t.id} ELSE {})) \ out.unparks

(* A task together with what a resume of it can change. *)
Machine(t, obj, parked) ==
  [task |-> t, obj |-> obj, parked |-> parked, fails |-> FALSE]

Moved(m) ==
  [task |-> Resumed(m.task, m.obj), obj |-> ObjAfter(m.task, m.obj),
   parked |-> ParkedAfter(m.task, m.obj, m.parked),
   fails |-> m.fails \/ Fails(m.task, m.obj)]

(* CoroBase::Terminate resumes the task, parked or blocked, until it has   *)
(* returned: "coroutine is spinning too long, possible wrong terminating   *)
(* order" is asserted after MaxTries resumes.                              *)
Terminated(m) ==
  LET tried[n \in 0..MaxTries] ==
        IF n = 0 THEN m
        ELSE LET before == tried[n - 1]
             IN IF IsReturned(before.task) THEN before ELSE Moved(before)
      last == tried[MaxTries]
  IN [last EXCEPT !.fails = @ \/ ~IsReturned(last.task)]
=============================================================================
