------------------------------- MODULE Targets -------------------------------
(***************************************************************************)
(* Objects under test, as Body operators of module Coro; more of them are  *)
(* in module LockFreeTargets.  The yield pass                              *)
(* (codegen/yieldpass.cpp) puts a CoroYield after every load, store and    *)
(* atomic read-modify-write instruction of the annotated method itself,    *)
(* not of the functions it calls.  A method therefore yields at its entry, *)
(* where it saves `this`, before any access to the object, and after the   *)
(* store of its return value; yields with no access to the object between  *)
(* them are merged into one.                                               *)
(***************************************************************************)
EXTENDS Integers, Sequences

(* An outcome that only moves on to another place. *)
Yield(obj, place, local) ==
  [obj |-> obj, loc |-> <<place, local>>, returned |-> FALSE, ret |-> -2,
   wait |-> -1, parks |-> FALSE, unparks |-> {}, coroutine |-> "none",
   fails |-> FALSE]

Return(obj, v) ==
  [Yield(obj, "end", 0) EXCEPT !.returned = TRUE, !.ret = v]

(* assert(ok) in the method. *)
Asserting(ok, out) == [out EXCEPT !.fails = ~ok]

(* `return v` after a store of v, which yields; every Body goes on from the *)
(* place "return" with Return.                                              *)
Returning(obj, v) == Yield(obj, "return", v)

-----------------------------------------------------------------------------
(* verifying/blocking/simple_mutex.cpp and nonlinear_mutex.cpp: the object *)
(* is locked_.                                                             *)

(* The loop of verifying/blocking/nonlinear_mutex.cpp, which goes on only  *)
(* while the compare-exchange finds 1.                                     *)
NonlinearLoop(locked) ==
  CASE locked = 0 -> Yield(2, "acquired", 0)
    [] locked = 1 -> [Yield(2, "waiting", 0) EXCEPT !.wait = 2]
    [] OTHER      -> Yield(locked, "acquired", 0)

(* while (CompareExchange(0, 2) != 0): a mutex that is held is marked      *)
(* contended, so the inner loop finds 2 and waits for it to change.        *)
LockLoop(locked) ==
  IF locked = 0 THEN Yield(2, "acquired", 0)
  ELSE [Yield(2, "waiting", 0) EXCEPT !.wait = 2]

(* `again` is the outcome of the loop, whose condition the two mutexes     *)
(* write differently.                                                      *)
FutexLock(locked, place, again) ==
  CASE place = "entry"    -> Yield(locked, "lock", 0)
    [] place = "lock"     -> IF locked = 0 THEN Yield(1, "acquired", 0)
                             ELSE again
    [] place = "waiting"  -> IF locked = 2
                             THEN [Yield(2, "waiting", 0) EXCEPT !.wait = 2]
                             ELSE again
    [] place = "acquired" -> Return(locked, 0)

(* fetch_sub(1); if there may be waiters, store(0) and FutexWake, which    *)
(* yields in the syscall hook.                                             *)
FutexUnlock(locked, place) ==
  CASE place = "entry"  -> Yield(locked, "unlock", 0)
    [] place = "unlock" -> IF locked = 1 THEN Return(0, 0)
                           ELSE Yield(0, "woken", 0)
    [] place = "woken"  -> Return(locked, 0)

FutexMutexBody(locked, t) ==
  IF t.call.name = "Lock" THEN FutexLock(locked, t.loc[1], LockLoop(locked))
  ELSE FutexUnlock(locked, t.loc[1])

NonlinearMutexBody(locked, t) ==
  IF t.call.name = "Lock" THEN FutexLock(locked, t.loc[1], NonlinearLoop(locked))
  ELSE FutexUnlock(locked, t.loc[1])

FutexMutexWord(locked) == locked

-----------------------------------------------------------------------------
(* verifying/blocking/folly_rwspinlock.cpp: the object is bits_, WRITER    *)
(* plus READER for every reader (upgrades are not among the tasks).  The   *)
(* loops yield between the attempts; try_lock_shared takes READER back     *)
(* within the attempt.                                                     *)
try_lock(bits) == bits = 0
try_lock_shared(bits) == bits % 2 = 0

RWSpinLockBody(bits, t) ==
  LET name == t.call.name
      again == Yield(bits, "bits_", 0)
  IN IF t.loc[1] = "entry" THEN again
     ELSE CASE name = "lock"        -> IF try_lock(bits) THEN Return(1, 0) ELSE again
            [] name = "lock_shared" -> IF try_lock_shared(bits)
                                       THEN Return(bits + 4, 0) ELSE again
            [] name = "unlock"        -> Return(bits - (bits % 2), 0)
            [] name = "unlock_shared" -> Return(bits - 4, 0)

-----------------------------------------------------------------------------
(* verifying/targets/race_register.cpp: the object is x.  ++x yields       *)
(* between its load and its store.                                         *)
RaceRegisterBody(x, t) ==
  LET place == t.loc[1]
  IN CASE place = "entry" -> Yield(x, "load", 0)
       [] place = "load"  -> Yield(x, "loaded", x)
       [] place = "loaded" ->
            IF t.call.name = "add" THEN Yield(t.loc[2] + 1, "stored", 0)
            ELSE Return(x, t.loc[2])
       [] place = "stored" -> Return(x, -1)

NoWord(obj) == 0

-----------------------------------------------------------------------------
(* verifying/targets/mutex_queue.cpp with verifying/lib/mutex.h: the ids   *)
(* of the tasks whose tokens are in `waiters`, the queued values and cnt.  *)
(* In the section a task has e, the result of Pop, and the value of cnt it *)
(* loaded; a[head++] = v and a[tail++] are one step.                       *)
EmptyMutexQueue == [waiters |-> << >>, items |-> << >>, cnt |-> 0]

AfterItem(q, c) ==
  IF c.name = "Push" THEN Append(q.items, c.arg)
  ELSE IF q.items = << >> THEN << >> ELSE Tail(q.items)

(* Mutant: Pop takes the last value for none. *)
TakenItemButLast(q, c) ==
  IF c.name = "Pop" /\ Len(q.items) > 1 THEN Head(q.items) ELSE 0

TakenItem(q, c) ==
  IF c.name = "Pop" /\ q.items # << >> THEN Head(q.items) ELSE 0

(* Mutex::Unlock unparks the next waiter; Push returns right after it. *)
QueueUnlock(q, t) ==
  LET rest == IF q.waiters = << >> THEN << >> ELSE Tail(q.waiters)
      unlocked == [q EXCEPT !.waiters = rest]
      out == IF t.call.name = "Push" THEN Return(unlocked, -1)
             ELSE Returning(unlocked, t.loc[2].e)
  IN Asserting(q.waiters # << >>,
       [out EXCEPT !.unparks = IF rest = << >> THEN {} ELSE {Head(rest)}])

MutexQueueBody(q, t) ==
  LET queued == [q EXCEPT !.waiters = Append(@, t.id)]
      l == t.loc[2]
      locals(e, cnt) == [e |-> e, cnt |-> cnt]
      to(obj, place, cnt) == Yield(obj, place, locals(l.e, cnt))
  IN CASE t.loc[1] = "entry" -> Yield(q, "lock", 0)
       [] t.loc[1] = "lock"  ->
            IF q.waiters = << >> THEN Yield(queued, "locked", 0)
            ELSE [Yield(queued, "locked", 0) EXCEPT !.parks = TRUE]
       [] t.loc[1] = "locked" ->
            Yield([q EXCEPT !.items = AfterItem(q, t.call)], "++cnt",
                  locals(TakenItem(q, t.call), 0))
       [] t.loc[1] = "++cnt"  -> to(q, "cnt+1", q.cnt)
       [] t.loc[1] = "cnt+1"  -> to([q EXCEPT !.cnt = l.cnt + 1], "assert", 0)
       [] t.loc[1] = "assert" -> Asserting(q.cnt = 1, to(q, "--cnt", 0))
       [] t.loc[1] = "--cnt"  -> to(q, "cnt-1", q.cnt)
       [] t.loc[1] = "cnt-1"  -> to([q EXCEPT !.cnt = l.cnt - 1], "unlock", 0)
       [] t.loc[1] = "unlock" -> QueueUnlock(q, t)
       [] t.loc[1] = "return" -> Return(q, l)

-----------------------------------------------------------------------------
(* verifying/targets/deadlock.cpp: the queues of tokens of mu1 and mu2.    *)
(* A task in an even thread locks mu1 first, the others mu2.               *)
NewMutexes == <<<< >>, << >>>>

FirstMutex(t)  == IF t.thread % 2 = 0 THEN 1 ELSE 2
SecondMutex(t) == 3 - FirstMutex(t)

(* Mutex::Lock: the token parks unless it is alone in the queue. *)
TokenLock(mu, m, t, place) ==
  [Yield([mu EXCEPT ![m] = Append(@, t.id)], place, 0)
     EXCEPT !.parks = (mu[m] # << >>)]

(* Mutant: nobody is unparked. *)
UnparkedByUnlockLost(mu) == {}

(* The tokens Mutex::Unlock unparks when both mutexes are unlocked. *)
UnparkedByUnlock(mu) ==
  {mu[m][2] : m \in {m \in 1..2 : Len(mu[m]) > 1}}

DeadlockBody(mu, t) ==
  CASE t.loc[1] = "entry"   -> Yield(mu, "first", 0)
    [] t.loc[1] = "first"   -> TokenLock(mu, FirstMutex(t), t, "second")
    [] t.loc[1] = "second"  -> TokenLock(mu, SecondMutex(t), t, "release")
    [] t.loc[1] = "release" ->
         Asserting(\A m \in 1..2 : mu[m] # << >>,
           [Return([m \in 1..2 |-> IF mu[m] = << >> THEN mu[m] ELSE Tail(mu[m])],
                   -1)
              EXCEPT !.unparks = UnparkedByUnlock(mu)])
=============================================================================
