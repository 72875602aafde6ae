----------------------------- MODULE LockProofs ------------------------------
(***************************************************************************)
(* Proofs about the test programs that are correct and about deadlock:     *)
(* simple_mutex and folly_rwspinlock exclude each other's holders, at most *)
(* one task is in the section of mutex_queue, no assert fails while a      *)
(* round is run, but for the one that reports the deadlock of              *)
(* deadlock.cpp, and a correct program is never reported.                  *)
(***************************************************************************)
EXTENDS MCStrategyScheduler, RoundProofs

(* The programs these proofs are about. *)
ProvedPrograms == CorrectPrograms \cup {"deadlock"}

(* The constants are the test programs, as ltest::Run puts them together,  *)
(* with a strategy that asks the verifier.                                 *)
RunsPrograms(programs) ==
  /\ \A obj, t : Body(obj, t) = TargetBody(obj, t)
  /\ \A obj : Word(obj) = TargetWord(obj)
  /\ \A obj : Reset(obj) = ResetObj(obj)
  /\ \A obj, i : Generates(obj, i) = GeneratedCalls(obj, i)
  /\ \A s, c, i, is_new : Verify(s, c, i, is_new) = TargetVerify(s, c, i, is_new)
  /\ \A s, c, i : OnFinished(s, c, i) = TargetOnFinished(s, c, i)
  /\ NewStatus = ZeroStatus
  /\ NewObjs \subseteq Fresh(programs)
  /\ forbid_all_same \/ "pct" \notin Kinds

-----------------------------------------------------------------------------
(* The places of a task that has not returned. *)
PlacesIn(program, name) ==
  CASE program = "simple_mutex" ->
         IF name = "Lock" THEN {"entry", "lock", "waiting", "acquired"}
         ELSE {"entry", "unlock", "woken"}
    [] program = "folly_rwspinlock" -> {"entry", "bits_"}
    [] program = "atomic_register" -> {"entry", "x"}
    [] program = "mutex_queue" ->
         {"entry", "lock", "locked", "++cnt", "cnt+1", "assert", "--cnt", "cnt-1",
          "unlock", "return"}
    [] program = "deadlock" -> {"entry", "first", "second", "release"}

IsPlaced(program, t) ==
  /\ t.call \in CallsOf(program)
  /\ IsReturned(t) \/ (t.loc[1] \in PlacesIn(program, t.call.name) /\ t.ret = NoRet)

(* All tasks of the queues th are tasks of the program. *)
ArePlaced(program, th) ==
  \A i \in Threads : \A k \in 1..Len(th[i]) : IsPlaced(program, th[i][k])

(* In every phase the object belongs to the program, and so do the tasks. *)
PlaceInv(programs) ==
  /\ Program \in programs
  /\ ArePlaced(Program, threads)
  /\ phase = "terminate" => ~(finished_tasks < max_tasks)
  /\ phase = "destroy" => result # "none"

(* Where a thread is: at its last task, or at none. *)
NoTask ==
  [id |-> -1, call |-> [of |-> "none", name |-> "none", arg |-> 0], thread |-> 0,
   loc |-> <<"end", 0>>, returned |-> TRUE, ret |-> 0, fstate |-> NoFutex]
TaskOf(q) == IF Len(q) = 0 THEN NoTask ELSE q[Len(q)]
Current(th) == [i \in Threads |-> TaskOf(th[i])]

-----------------------------------------------------------------------------
(* simple_mutex: the thread of the task t holds the mutex; what the        *)
(* verifier knows of it is s.                                              *)
HasMutex(t) ==
  \/ t.call.name = "Lock" /\ t.loc[1] \in {"acquired", "end"}
  \/ t.call.name = "Unlock" /\ t.loc[1] = "unlock"

FutexTask(t, s) ==
  \/ t.call.name = "none" /\ IsReturned(t) /\ s = 0
  \/ t.call.name \in {"Lock", "Unlock"} /\ IsReturned(t) /\ t.loc[1] = "end"
       /\ s = (IF t.call.name = "Lock" THEN 1 ELSE 0)
  \/ t.call.name = "Lock" /\ ~IsReturned(t) /\ s = 0
       /\ t.loc[1] \in {"lock", "waiting", "acquired"}
  \/ t.call.name = "Unlock" /\ ~IsReturned(t) /\ s = 1
       /\ t.loc[1] \in {"unlock", "woken"}

(* The word is 0 exactly if no thread has the mutex, and only one has it.  *)
(* A task waits only at the place "waiting", with the word 2.              *)
FutexInv(locked, cur, st, pk) ==
  /\ locked \in 0..2
  /\ pk = {}
  /\ \A i \in Threads : FutexTask(cur[i], st[i])
  /\ \A i \in Threads : cur[i].fstate # NoFutex =>
       cur[i].loc[1] = "waiting" /\ cur[i].fstate = 2
  /\ \A i, j \in Threads : HasMutex(cur[i]) /\ HasMutex(cur[j]) => i = j
  /\ locked = 0 <=> \A i \in Threads : ~HasMutex(cur[i])

-----------------------------------------------------------------------------
(* folly_rwspinlock: what the verifier knows is always true, since a lock  *)
(* is taken and given back in the step in which its task returns.          *)
SpinTask(t, s) ==
  \/ t.call.name = "none" /\ IsReturned(t) /\ s = FREE
  \/ IsReturned(t) /\ t.loc[1] = "end"
       /\ \/ t.call.name = "lock" /\ s = WRITER
          \/ t.call.name = "lock_shared" /\ s = READER
          \/ t.call.name \in {"unlock", "unlock_shared"} /\ s = FREE
  \/ ~IsReturned(t) /\ t.loc[1] = "bits_"
       /\ \/ t.call.name \in {"lock", "lock_shared"} /\ s = FREE
          \/ t.call.name = "unlock" /\ s = WRITER
          \/ t.call.name = "unlock_shared" /\ s = READER

Having(st, s) == {i \in Threads : st[i] = s}

SpinInv(bits, cur, st, pk) ==
  /\ pk = {}
  /\ \A i \in Threads : SpinTask(cur[i], st[i]) /\ cur[i].fstate = NoFutex
  /\ bits = Cardinality(Having(st, WRITER)) + 4 * Cardinality(Having(st, READER))
  /\ \A i, j \in Threads : st[i] = WRITER /\ st[j] # FREE => i = j

-----------------------------------------------------------------------------
(* The ids in the queue w of a mutex are those of the threads in S, each   *)
(* once.                                                                   *)
QueueOf(w, cur, S) ==
  /\ w \in Seq(Nat)
  /\ \A k, m \in 1..Len(w) : w[k] = w[m] => k = m
  /\ \A i \in S : \E k \in 1..Len(w) : w[k] = cur[i].id
  /\ \A k \in 1..Len(w) : \E i \in S : w[k] = cur[i].id

(* All but the first one are parked. *)
Waiting(w) == {w[k] : k \in 2..Len(w)}

(* mutex_queue: the tasks that have called Lock and not yet Unlock, and    *)
(* those between ++cnt and --cnt.                                          *)
LockedPlaces == {"locked", "++cnt", "cnt+1", "assert", "--cnt", "cnt-1", "unlock"}
CountedPlaces == {"assert", "--cnt", "cnt-1"}
Locking(cur) == {i \in Threads : cur[i].loc[1] \in LockedPlaces}
Counted(cur) == {i \in Threads : cur[i].loc[1] \in CountedPlaces}

(* What a task that has read cnt has read. *)
ReadCnt(loc) ==
  /\ loc[1] = "cnt+1" => loc[2].cnt = 0
  /\ loc[1] = "cnt-1" => loc[2].cnt = 1

(* The first one of the queue is the only one that is not parked, and the  *)
(* only one that may have passed Lock.  It is counted by cnt while it is   *)
(* between ++cnt and --cnt.                                                *)
TokenInv(q, cur, pk) ==
  /\ DOMAIN q = {"waiters", "items", "cnt"}
  /\ \A i \in Threads :
       cur[i].fstate = NoFutex /\ (IsReturned(cur[i]) => cur[i].loc[1] = "end")
  /\ QueueOf(q.waiters, cur, Locking(cur))
  /\ pk = Waiting(q.waiters)
  /\ \A i \in Locking(cur) :
       /\ cur[i].loc[1] # "locked" => cur[i].id = q.waiters[1]
       /\ ReadCnt(cur[i].loc)
  /\ q.cnt = IF Counted(cur) = {} THEN 0 ELSE 1

-----------------------------------------------------------------------------
(* deadlock: the tasks in the queue of mutex m.  One that has called both  *)
(* Locks has the first mutex.                                              *)
LockingOf(cur, m) ==
  {i \in Threads : \/ cur[i].loc[1] = "second" /\ FirstMutex(cur[i]) = m
                   \/ cur[i].loc[1] = "release"}

DeadlockInv(mu, cur, pk) ==
  /\ \A i \in Threads : cur[i].fstate = NoFutex /\ (IsReturned(cur[i]) => cur[i].loc[1] = "end")
  /\ DOMAIN mu = 1..2
  /\ \A m \in 1..2 : QueueOf(mu[m], cur, LockingOf(cur, m))
  /\ pk = Waiting(mu[1]) \cup Waiting(mu[2])
  /\ \A i \in Threads : cur[i].loc[1] = "release" =>
       mu[FirstMutex(cur[i])][1] = cur[i].id

(* atomic_register never waits. *)
RegisterInv(x, cur, pk) ==
  x \in Int /\ pk = {} /\ \A i \in Threads : cur[i].fstate = NoFutex

(* While a round is run the object is in the state its tasks say. *)
ProgramInv(cur) ==
  /\ Program = "simple_mutex" => FutexInv(Object, cur, status, parked)
  /\ Program = "folly_rwspinlock" => SpinInv(Object, cur, status, parked)
  /\ Program = "atomic_register" => RegisterInv(Object, cur, parked)
  /\ Program = "mutex_queue" => TokenInv(Object, cur, parked)
  /\ Program = "deadlock" => DeadlockInv(Object, cur, parked)
LockInv == phase = "run" => DOMAIN status = Threads /\ ProgramInv(Current(threads))

-----------------------------------------------------------------------------
(* A record of module Targets, and what TargetBody makes of it. *)
IsOutcome(out) == DOMAIN out = OutFields

Wraps(out, program, b) ==
  /\ IsOutcome(out)
  /\ out.obj = <<program, b.obj>> /\ out.loc = b.loc /\ out.returned = b.returned
  /\ out.ret = b.ret /\ out.wait = b.wait /\ out.parks = b.parks
  /\ out.unparks = b.unparks /\ out.fails = b.fails

(* TargetBody runs the method of the program. *)
LEMMA BodyWraps ==
  ASSUME NEW obj, NEW t, NEW program, NEW b, obj[1] = program, IsOutcome(b),
         \/ program = "simple_mutex" /\ b = FutexMutexBody(obj[2], t)
         \/ program = "folly_rwspinlock" /\ b = RWSpinLockBody(obj[2], t)
         \/ program = "atomic_register" /\ b = AtomicRegisterBody(obj[2], t)
         \/ program = "mutex_queue" /\ b = MutexQueueBody(obj[2], t)
         \/ program = "deadlock" /\ b = DeadlockBody(obj[2], t)
  PROVE  Wraps(TargetBody(obj, t), program, b)
<1>1. TargetBody(obj, t) = [b EXCEPT !.obj = <<program, b.obj>>]
  BY DEF TargetBody
<1> QED BY <1>1 DEF Wraps, IsOutcome, OutFields

(* The fields of the outcomes a method is built from. *)
Simple(out, obj, place, local) ==
  /\ IsOutcome(out)
  /\ out.obj = obj /\ out.loc = <<place, local>> /\ out.returned = FALSE /\ out.ret = NoRet
  /\ out.wait = NoFutex /\ out.parks = FALSE /\ out.unparks = {} /\ out.fails = FALSE
Ends(out, obj, v) ==
  /\ IsOutcome(out)
  /\ out.obj = obj /\ out.loc = <<"end", 0>> /\ out.returned = TRUE /\ out.ret = v
  /\ out.wait = NoFutex /\ out.parks = FALSE /\ out.unparks = {} /\ out.fails = FALSE

(* Yield and Return have them. *)
LEMMA OutcomesHaveFields ==
  /\ \A obj, place, local : Simple(Yield(obj, place, local), obj, place, local)
  /\ \A obj, v : Ends(Return(obj, v), obj, v)
<1>1. ASSUME NEW obj, NEW place, NEW local
      PROVE  Simple(Yield(obj, place, local), obj, place, local)
  BY DEF Simple, Yield, IsOutcome, OutFields, NoFutex, NoRet
<1>2. ASSUME NEW obj, NEW v PROVE Ends(Return(obj, v), obj, v)
  <2>1. PICK y : y = Yield(obj, "end", 0) OBVIOUS
  <2>2. Simple(y, obj, "end", 0) BY <1>1, <2>1
  <2>3. Return(obj, v) = [y EXCEPT !.returned = TRUE, !.ret = v] BY <2>1 DEF Return
  <2> QED BY <2>2, <2>3 DEF Simple, Ends, IsOutcome, OutFields
<1> QED BY <1>1, <1>2

(* The wait of simple_mutex on its futex. *)
Waits(out) ==
  /\ IsOutcome(out)
  /\ out.obj = 2 /\ out.loc = <<"waiting", 0>> /\ out.returned = FALSE /\ out.ret = NoRet
  /\ out.wait = 2 /\ out.parks = FALSE /\ out.unparks = {} /\ out.fails = FALSE

(* The steps of simple_mutex, by the place the task is at. *)
LEMMA FutexSteps ==
  ASSUME NEW o, NEW t, NEW b, b = FutexMutexBody(o, t), NEW place, place = t.loc[1]
  PROVE  /\ t.call.name = "Lock" =>
              /\ place = "entry" => Simple(b, o, "lock", 0)
              /\ place = "lock" => IF o = 0 THEN Simple(b, 1, "acquired", 0) ELSE Waits(b)
              /\ place = "waiting" =>
                   IF o = 0 THEN Simple(b, 2, "acquired", 0) ELSE Waits(b)
              /\ place = "acquired" => Ends(b, o, 0)
         /\ t.call.name # "Lock" =>
              /\ place = "entry" => Simple(b, o, "unlock", 0)
              /\ place = "unlock" => IF o = 1 THEN Ends(b, 0, 0) ELSE Simple(b, 0, "woken", 0)
              /\ place = "woken" => Ends(b, o, 0)
<1>1. PICK w : w = [Yield(2, "waiting", 0) EXCEPT !.wait = 2] OBVIOUS
<1>2. Waits(w)
  <2>1. PICK y : y = Yield(2, "waiting", 0) OBVIOUS
  <2>2. Simple(y, 2, "waiting", 0) BY <2>1, OutcomesHaveFields
  <2> QED BY <1>1, <2>1, <2>2 DEF Simple, Waits, IsOutcome, OutFields
<1>3. CASE t.call.name = "Lock"
  <2>1. PICK again : again = LockLoop(o) OBVIOUS
  <2>2. again = IF o = 0 THEN Yield(2, "acquired", 0) ELSE w
    BY <1>1, <2>1 DEF LockLoop
  <2>3. b = FutexLock(o, place, again) BY <1>3, <2>1 DEF FutexMutexBody
  <2>4. /\ place = "entry" => b = Yield(o, "lock", 0)
        /\ place = "lock" => b = IF o = 0 THEN Yield(1, "acquired", 0) ELSE again
        /\ place = "waiting" => b = IF o = 2 THEN w ELSE again
        /\ place = "acquired" => b = Return(o, 0)
    BY <1>1, <2>3 DEF FutexLock
  <2> QED BY <1>2, <1>3, <2>2, <2>4, OutcomesHaveFields
<1>4. CASE t.call.name # "Lock"
  <2>1. b = FutexUnlock(o, place) BY <1>4 DEF FutexMutexBody
  <2>2. /\ place = "entry" => b = Yield(o, "unlock", 0)
        /\ place = "unlock" => b = IF o = 1 THEN Return(0, 0) ELSE Yield(0, "woken", 0)
        /\ place = "woken" => b = Return(o, 0)
    BY <2>1 DEF FutexUnlock
  <2> QED BY <1>4, <2>2, OutcomesHaveFields
<1> QED BY <1>3, <1>4

(* The steps of folly_rwspinlock. *)
LEMMA SpinSteps ==
  ASSUME NEW o, NEW t, NEW b, b = RWSpinLockBody(o, t), NEW name, name = t.call.name
  PROVE  /\ t.loc[1] = "entry" => Simple(b, o, "bits_", 0)
         /\ t.loc[1] = "bits_" =>
              /\ name = "lock" => IF o = 0 THEN Ends(b, 1, 0) ELSE Simple(b, o, "bits_", 0)
              /\ name = "lock_shared" =>
                   IF o % 2 = 0 THEN Ends(b, o + 4, 0) ELSE Simple(b, o, "bits_", 0)
              /\ name = "unlock" => Ends(b, o - (o % 2), 0)
              /\ name = "unlock_shared" => Ends(b, o - 4, 0)
<1>1. t.loc[1] = "entry" => b = Yield(o, "bits_", 0) BY DEF RWSpinLockBody
<1>2. t.loc[1] = "bits_" =>
        /\ name = "lock" => b = IF o = 0 THEN Return(1, 0) ELSE Yield(o, "bits_", 0)
        /\ name = "lock_shared" =>
             b = IF o % 2 = 0 THEN Return(o + 4, 0) ELSE Yield(o, "bits_", 0)
        /\ name = "unlock" => b = Return(o - (o % 2), 0)
        /\ name = "unlock_shared" => b = Return(o - 4, 0)
  BY DEF RWSpinLockBody, try_lock, try_lock_shared
<1> QED BY <1>1, <1>2, OutcomesHaveFields

(* The steps of atomic_register. *)
LEMMA RegisterSteps ==
  ASSUME NEW x, NEW t, NEW b, b = AtomicRegisterBody(x, t)
  PROVE  /\ t.loc[1] = "entry" => Simple(b, x, "x", 0)
         /\ t.loc[1] = "x" =>
              IF t.call.name = "add" THEN Ends(b, x + 1, -1) ELSE Ends(b, x, x)
<1>1. /\ t.loc[1] = "entry" => b = Yield(x, "x", 0)
      /\ t.loc[1] = "x" =>
           b = IF t.call.name = "add" THEN Return(x + 1, -1) ELSE Return(x, x)
  BY DEF AtomicRegisterBody
<1> QED BY <1>1, OutcomesHaveFields

(* The outcomes of mutex_queue that are not simple. *)
Queued(out, q, t) ==
  /\ IsOutcome(out)
  /\ out.obj = [q EXCEPT !.waiters = Append(q.waiters, t.id)]
  /\ out.loc = <<"locked", 0>> /\ out.returned = FALSE /\ out.ret = NoRet
  /\ out.wait = NoFutex /\ out.parks = (q.waiters # << >>) /\ out.unparks = {} /\ out.fails = FALSE
RestOf(w) == IF w = << >> THEN << >> ELSE Tail(w)
Unqueued(out, q, t) ==
  /\ IsOutcome(out)
  /\ out.obj = [q EXCEPT !.waiters = RestOf(q.waiters)]
  /\ out.returned = IF t.call.name = "Push" THEN TRUE ELSE FALSE
  /\ out.loc[1] = IF t.call.name = "Push" THEN "end" ELSE "return"
  /\ t.call.name # "Push" => out.loc[2] = t.loc[2].e
  /\ out.ret = IF t.call.name = "Push" THEN -1 ELSE NoRet
  /\ out.wait = NoFutex /\ out.parks = FALSE
  /\ out.unparks = IF RestOf(q.waiters) = << >> THEN {} ELSE {Head(RestOf(q.waiters))}
  /\ out.fails = (q.waiters = << >>)
Asserted(out, q, l) ==
  /\ IsOutcome(out)
  /\ out.obj = q /\ out.loc = <<"--cnt", l>> /\ out.returned = FALSE /\ out.ret = NoRet
  /\ out.wait = NoFutex /\ out.parks = FALSE /\ out.unparks = {}
  /\ out.fails = (q.cnt # 1)

(* The steps of mutex_queue.  The ones of the queue's own code are simple. *)
LEMMA TokenSteps ==
  ASSUME NEW q, NEW t, NEW b, b = MutexQueueBody(q, t), NEW place, place = t.loc[1],
         NEW e, e = t.loc[2].e, NEW cnt, cnt = t.loc[2].cnt
  PROVE  /\ place = "entry" => Simple(b, q, "lock", 0)
         /\ place = "lock" => Queued(b, q, t)
         /\ place = "locked" =>
              Simple(b, [q EXCEPT !.items = AfterItem(q, t.call)], "++cnt",
                     [e |-> TakenItem(q, t.call), cnt |-> 0])
         /\ place = "++cnt" => Simple(b, q, "cnt+1", [e |-> e, cnt |-> q.cnt])
         /\ place = "cnt+1" =>
              Simple(b, [q EXCEPT !.cnt = cnt + 1], "assert", [e |-> e, cnt |-> 0])
         /\ place = "assert" => Asserted(b, q, [e |-> e, cnt |-> 0])
         /\ place = "--cnt" => Simple(b, q, "cnt-1", [e |-> e, cnt |-> q.cnt])
         /\ place = "cnt-1" =>
              Simple(b, [q EXCEPT !.cnt = cnt - 1], "unlock", [e |-> e, cnt |-> 0])
         /\ place = "unlock" => Unqueued(b, q, t)
         /\ place = "return" => Ends(b, q, t.loc[2])
<1>1. CASE place \in {"entry", "locked", "++cnt", "cnt+1", "--cnt", "cnt-1", "return"}
  <2>1. /\ place = "entry" => b = Yield(q, "lock", 0)
        /\ place = "locked" =>
             b = Yield([q EXCEPT !.items = AfterItem(q, t.call)], "++cnt",
                       [e |-> TakenItem(q, t.call), cnt |-> 0])
        /\ place = "++cnt" => b = Yield(q, "cnt+1", [e |-> e, cnt |-> q.cnt])
        /\ place = "cnt+1" =>
             b = Yield([q EXCEPT !.cnt = cnt + 1], "assert", [e |-> e, cnt |-> 0])
        /\ place = "--cnt" => b = Yield(q, "cnt-1", [e |-> e, cnt |-> q.cnt])
        /\ place = "cnt-1" =>
             b = Yield([q EXCEPT !.cnt = cnt - 1], "unlock", [e |-> e, cnt |-> 0])
        /\ place = "return" => b = Return(q, t.loc[2])
    BY <1>1 DEF MutexQueueBody
  <2> QED BY <1>1, <2>1, OutcomesHaveFields
<1>2. CASE place = "lock"
  <2>1. PICK obj, y : /\ obj = [q EXCEPT !.waiters = Append(q.waiters, t.id)]
                      /\ y = Yield(obj, "locked", 0)
    OBVIOUS
  <2>2. Simple(y, obj, "locked", 0) BY <2>1, OutcomesHaveFields
  <2>3. b = IF q.waiters = << >> THEN y ELSE [y EXCEPT !.parks = TRUE]
    BY <1>2, <2>1 DEF MutexQueueBody
  <2> QED BY <1>2, <2>1, <2>2, <2>3 DEF Simple, Queued, IsOutcome, OutFields
<1>3. CASE place = "assert"
  <2>1. PICK l, y : l = [e |-> e, cnt |-> 0] /\ y = Yield(q, "--cnt", l) OBVIOUS
  <2>2. Simple(y, q, "--cnt", l) BY <2>1, OutcomesHaveFields
  <2>3. b = [y EXCEPT !.fails = ~(q.cnt = 1)]
    BY <1>3, <2>1 DEF MutexQueueBody, Asserting
  <2> QED BY <1>3, <2>1, <2>2, <2>3 DEF Simple, Asserted, IsOutcome, OutFields
<1>4. CASE place = "unlock"
  <2>1. PICK rest, obj : /\ rest = RestOf(q.waiters)
                         /\ obj = [q EXCEPT !.waiters = rest]
    OBVIOUS
  <2>2. PICK y : y = IF t.call.name = "Push" THEN Return(obj, -1) ELSE Yield(obj, "return", e)
    OBVIOUS
  <2>3. IF t.call.name = "Push" THEN Ends(y, obj, -1) ELSE Simple(y, obj, "return", e)
    BY <2>2, OutcomesHaveFields
  <2>4. PICK un, z : /\ un = IF rest = << >> THEN {} ELSE {Head(rest)}
                     /\ z = [y EXCEPT !.unparks = un]
    OBVIOUS
  <2>5. b = [z EXCEPT !.fails = ~(q.waiters # << >>)]
    BY <1>4, <2>1, <2>2, <2>4
    DEF MutexQueueBody, QueueUnlock, Asserting, Returning, RestOf
  <2>6. IsOutcome(y) BY <2>3 DEF Simple, Ends
  <2>7. IsOutcome(b) /\ b.obj = y.obj /\ b.loc = y.loc /\ b.returned = y.returned
        /\ b.ret = y.ret /\ b.wait = y.wait /\ b.parks = y.parks /\ b.unparks = un
        /\ b.fails = ~(q.waiters # << >>)
    BY <2>4, <2>5, <2>6 DEF IsOutcome, OutFields
  <2>8. /\ y.obj = obj /\ y.wait = NoFutex /\ y.parks = FALSE
        /\ y.returned = IF t.call.name = "Push" THEN TRUE ELSE FALSE
        /\ y.loc[1] = IF t.call.name = "Push" THEN "end" ELSE "return"
        /\ t.call.name # "Push" => y.loc[2] = e
        /\ y.ret = IF t.call.name = "Push" THEN -1 ELSE NoRet
    <3>1. CASE t.call.name = "Push"
      <4>1. Ends(y, obj, -1) BY <2>3, <3>1
      <4>2. y.loc = <<"end", 0>> /\ y.returned = TRUE BY <4>1 DEF Ends
      <4>3. y.obj = obj /\ y.wait = NoFutex /\ y.parks = FALSE /\ y.ret = -1
        BY <4>1 DEF Ends
      <4>4. y.loc[1] = "end" BY <4>2
      <4> QED BY <3>1, <4>2, <4>3, <4>4
    <3>2. CASE t.call.name # "Push"
      <4>1. Simple(y, obj, "return", e) BY <2>3, <3>2
      <4>2. y.loc = <<"return", e>> /\ y.returned = FALSE BY <4>1 DEF Simple
      <4>3. y.obj = obj /\ y.wait = NoFutex /\ y.parks = FALSE /\ y.ret = NoRet
        BY <4>1 DEF Simple
      <4>4. y.loc[1] = "return" /\ y.loc[2] = e BY <4>2
      <4> QED BY <3>2, <4>2, <4>3, <4>4
    <3> QED BY <3>1, <3>2
  <2>9. Unqueued(b, q, t)
    BY <2>1, <2>4, <2>7, <2>8 DEF Unqueued
  <2> QED BY <1>4, <2>9
<1> QED BY <1>1, <1>2, <1>3, <1>4

(* The outcomes of deadlock that are not simple. *)
TokenLocks(out, mu, m, t, place) ==
  /\ IsOutcome(out)
  /\ out.obj = [mu EXCEPT ![m] = Append(mu[m], t.id)]
  /\ out.loc = <<place, 0>> /\ out.returned = FALSE /\ out.ret = NoRet
  /\ out.wait = NoFutex /\ out.parks = (mu[m] # << >>) /\ out.unparks = {} /\ out.fails = FALSE
Releases(out, mu) ==
  /\ IsOutcome(out)
  /\ out.obj = [m \in 1..2 |-> RestOf(mu[m])]
  /\ out.loc = <<"end", 0>> /\ out.returned = TRUE /\ out.wait = NoFutex
  /\ out.parks = FALSE /\ out.unparks = UnparkedByUnlock(mu)
  /\ out.fails = ~(\A m \in 1..2 : mu[m] # << >>)

(* The steps of deadlock. *)
LEMMA DeadlockSteps ==
  ASSUME NEW mu, NEW t, NEW b, b = DeadlockBody(mu, t), NEW place, place = t.loc[1]
  PROVE  /\ place = "entry" => Simple(b, mu, "first", 0)
         /\ place = "first" => TokenLocks(b, mu, FirstMutex(t), t, "second")
         /\ place = "second" => TokenLocks(b, mu, SecondMutex(t), t, "release")
         /\ place = "release" => Releases(b, mu)
<1>1. ASSUME NEW m, NEW p PROVE TokenLocks(TokenLock(mu, m, t, p), mu, m, t, p)
  <2>1. PICK obj, y : /\ obj = [mu EXCEPT ![m] = Append(mu[m], t.id)]
                      /\ y = Yield(obj, p, 0)
    OBVIOUS
  <2>2. Simple(y, obj, p, 0) BY <2>1, OutcomesHaveFields
  <2>3. TokenLock(mu, m, t, p) = [y EXCEPT !.parks = (mu[m] # << >>)]
    BY <2>1 DEF TokenLock
  <2> QED BY <2>1, <2>2, <2>3 DEF Simple, TokenLocks, IsOutcome, OutFields
<1>2. CASE place = "release"
  <2>1. PICK obj, y : obj = [m \in 1..2 |-> RestOf(mu[m])] /\ y = Return(obj, -1)
    OBVIOUS
  <2>2. Ends(y, obj, -1) BY <2>1, OutcomesHaveFields
  <2>3. obj = [m \in 1..2 |-> IF mu[m] = << >> THEN mu[m] ELSE Tail(mu[m])]
    BY <2>1 DEF RestOf
  <2>4. PICK z : z = [y EXCEPT !.unparks = UnparkedByUnlock(mu)] OBVIOUS
  <2>5. b = [z EXCEPT !.fails = ~(\A m \in 1..2 : mu[m] # << >>)]
    BY <1>2, <2>1, <2>3, <2>4 DEF DeadlockBody, Asserting
  <2> QED BY <1>2, <2>1, <2>2, <2>4, <2>5 DEF Ends, Releases, IsOutcome, OutFields
<1>3. /\ place = "entry" => b = Yield(mu, "first", 0)
      /\ place = "first" => b = TokenLock(mu, FirstMutex(t), t, "second")
      /\ place = "second" => b = TokenLock(mu, SecondMutex(t), t, "release")
  BY DEF DeadlockBody
<1> QED BY <1>1, <1>2, <1>3, OutcomesHaveFields

(* Where these outcomes leave a task. *)
LeavesAt(b, place, returned) ==
  /\ IsOutcome(b) /\ b.loc[1] = place /\ b.returned = returned
  /\ b.returned \/ b.ret = NoRet

(* What the shape of an outcome says of it. *)
LEMMA OutcomesLeave ==
  ASSUME NEW b, NEW o, NEW t, NEW l, NEW m, NEW place
  PROVE  /\ Simple(b, o, place, l) => LeavesAt(b, place, FALSE)
         /\ Ends(b, o, l) => LeavesAt(b, "end", TRUE)
         /\ Waits(b) => LeavesAt(b, "waiting", FALSE)
         /\ Queued(b, o, t) => LeavesAt(b, "locked", FALSE)
         /\ Asserted(b, o, l) => LeavesAt(b, "--cnt", FALSE)
         /\ TokenLocks(b, o, m, t, place) => LeavesAt(b, place, FALSE)
         /\ Releases(b, o) => LeavesAt(b, "end", TRUE)
<1>1. ASSUME NEW q, NEW v, b.loc = <<q, v>> PROVE b.loc[1] = q BY <1>1
<1>2. Simple(b, o, place, l) => b.loc = <<place, l>> BY DEF Simple
<1>3. Ends(b, o, l) => b.loc = <<"end", 0>> BY DEF Ends
<1>4. Waits(b) => b.loc = <<"waiting", 0>> BY DEF Waits
<1>5. Queued(b, o, t) => b.loc = <<"locked", 0>> BY DEF Queued
<1>6. Asserted(b, o, l) => b.loc = <<"--cnt", l>> BY DEF Asserted
<1>7. TokenLocks(b, o, m, t, place) => b.loc = <<place, 0>> BY DEF TokenLocks
<1>8. Releases(b, o) => b.loc = <<"end", 0>> BY DEF Releases
<1>9. /\ Simple(b, o, place, l) => IsOutcome(b) /\ b.returned = FALSE /\ b.ret = NoRet
      /\ Ends(b, o, l) => IsOutcome(b) /\ b.returned = TRUE
      /\ Waits(b) => IsOutcome(b) /\ b.returned = FALSE /\ b.ret = NoRet
      /\ Queued(b, o, t) => IsOutcome(b) /\ b.returned = FALSE /\ b.ret = NoRet
      /\ Asserted(b, o, l) => IsOutcome(b) /\ b.returned = FALSE /\ b.ret = NoRet
      /\ TokenLocks(b, o, m, t, place) => IsOutcome(b) /\ b.returned = FALSE /\ b.ret = NoRet
      /\ Releases(b, o) => IsOutcome(b) /\ b.returned = TRUE
  BY DEF Simple, Ends, Waits, Queued, Asserted, TokenLocks, Releases
<1> QED BY <1>1, <1>2, <1>3, <1>4, <1>5, <1>6, <1>7, <1>8, <1>9 DEF LeavesAt

-----------------------------------------------------------------------------
(* The calls of the programs. *)
LEMMA CallsHaveNames ==
  /\ \A c \in CallsOf("simple_mutex") :
       c.of = "simple_mutex" /\ c.name \in {"Lock", "Unlock"}
  /\ \A c \in CallsOf("folly_rwspinlock") :
       /\ c.of = "folly_rwspinlock"
       /\ c.name \in {"lock", "lock_shared", "unlock", "unlock_shared"}
  /\ \A c \in CallsOf("atomic_register") :
       c.of = "atomic_register" /\ c.name \in {"add", "get"}
  /\ \A c \in CallsOf("mutex_queue") : c.of = "mutex_queue" /\ c.name \in {"Push", "Pop"}
  /\ \A c \in CallsOf("deadlock") : c.of = "deadlock" /\ c.name = "Lock"
<1>0. \A c, p, N, A : c \in [of : {p}, name : N, arg : A] => c.of = p /\ c.name \in N
  OBVIOUS
<1>1. CallsOf("simple_mutex") = [of : {"simple_mutex"}, name : {"Lock", "Unlock"}, arg : {0}]
  BY DEF CallsOf, Mutexes, Registers, Containers, Queues
<1>2. CallsOf("folly_rwspinlock")
        = [of : {"folly_rwspinlock"},
           name : {"lock", "lock_shared", "unlock", "unlock_shared"}, arg : {0}]
  BY DEF CallsOf, Mutexes, Registers, Containers, Queues
<1>3. CallsOf("mutex_queue")
        = [of : {"mutex_queue"}, name : {"Push"}, arg : Values]
            \cup [of : {"mutex_queue"}, name : {"Pop"}, arg : {0}]
  BY DEF CallsOf, Mutexes, Registers, Containers, Queues
<1>4. CallsOf("deadlock") = [of : {"deadlock"}, name : {"Lock"}, arg : {0}]
  BY DEF CallsOf, Mutexes, Registers, Containers, Queues
<1>5. \A c \in CallsOf("simple_mutex") :
        c.of = "simple_mutex" /\ c.name \in {"Lock", "Unlock"}
  BY <1>0, <1>1, Zenon
<1>6. \A c \in CallsOf("folly_rwspinlock") :
        /\ c.of = "folly_rwspinlock"
        /\ c.name \in {"lock", "lock_shared", "unlock", "unlock_shared"}
  <2> TAKE c \in CallsOf("folly_rwspinlock")
  <2>1. c \in [of : {"folly_rwspinlock"},
              name : {"lock", "lock_shared", "unlock", "unlock_shared"}, arg : {0}]
    BY <1>2, Zenon
  <2> QED BY <1>0, <2>1, Zenon
<1>7. \A c \in CallsOf("mutex_queue") : c.of = "mutex_queue" /\ c.name \in {"Push", "Pop"}
  BY <1>3
<1>8. \A c \in CallsOf("deadlock") : c.of = "deadlock" /\ c.name \in {"Lock"}
  BY <1>0, <1>4, Zenon
<1>9. CallsOf("atomic_register")
        = [of : {"atomic_register"}, name : {"add", "get"}, arg : {0}]
  BY DEF CallsOf, Mutexes, Registers, Containers, Queues
<1>10. \A c \in CallsOf("atomic_register") :
         c.of = "atomic_register" /\ c.name \in {"add", "get"}
  BY <1>0, <1>9, Zenon
<1> QED BY <1>5, <1>6, <1>7, <1>8, <1>10

(* The method a program runs. *)
MethodOf(program, o, t) ==
  CASE program = "simple_mutex"     -> FutexMutexBody(o, t)
    [] program = "folly_rwspinlock" -> RWSpinLockBody(o, t)
    [] program = "atomic_register"  -> AtomicRegisterBody(o, t)
    [] program = "mutex_queue"      -> MutexQueueBody(o, t)
    [] program = "deadlock"         -> DeadlockBody(o, t)

(* A step leaves the task at a place of the program, or returned. *)
LEMMA MethodLeaves ==
  ASSUME NEW program \in ProvedPrograms, NEW o, NEW t, IsPlaced(program, t),
         ~IsReturned(t), NEW b, b = MethodOf(program, o, t)
  PROVE  /\ IsOutcome(b)
         /\ b.returned \/ (b.loc[1] \in PlacesIn(program, t.call.name) /\ b.ret = NoRet)
<1>1. t.call \in CallsOf(program) /\ t.loc[1] \in PlacesIn(program, t.call.name)
  BY DEF IsPlaced
<1>2. \A x, place, l : Simple(b, x, place, l) => LeavesAt(b, place, FALSE)
  BY OutcomesLeave
<1>3. \A x, v : Ends(b, x, v) => LeavesAt(b, "end", TRUE)
  BY OutcomesLeave
<1>4. CASE program = "simple_mutex"
  <2>1. b = FutexMutexBody(o, t) BY <1>4 DEF MethodOf
  <2>2. PlacesIn(program, t.call.name) =
          IF t.call.name = "Lock" THEN {"entry", "lock", "waiting", "acquired"}
          ELSE {"entry", "unlock", "woken"}
    BY <1>4 DEF PlacesIn
  <2>3. Waits(b) => LeavesAt(b, "waiting", FALSE) BY OutcomesLeave
  <2>4. CASE t.call.name = "Lock"
    <3>1. t.loc[1] \in {"entry", "lock", "waiting", "acquired"} BY <1>1, <2>2, <2>4
    <3>2. \/ Simple(b, o, "lock", 0) \/ Simple(b, 1, "acquired", 0) \/ Waits(b)
          \/ Simple(b, 2, "acquired", 0) \/ Ends(b, o, 0)
      BY <2>1, <2>4, <3>1, FutexSteps
    <3>3. \E place \in {"lock", "waiting", "acquired", "end"} :
            LeavesAt(b, place, place = "end")
      BY <1>2, <1>3, <2>3, <3>2
    <3> QED BY <2>2, <2>4, <3>3 DEF LeavesAt
  <2>5. CASE t.call.name # "Lock"
    <3>1. t.loc[1] \in {"entry", "unlock", "woken"} BY <1>1, <2>2, <2>5
    <3>2. \/ Simple(b, o, "unlock", 0) \/ Ends(b, 0, 0) \/ Simple(b, 0, "woken", 0)
          \/ Ends(b, o, 0)
      BY <2>1, <2>5, <3>1, FutexSteps
    <3>3. \E place \in {"unlock", "woken", "end"} : LeavesAt(b, place, place = "end")
      BY <1>2, <1>3, <3>2
    <3> QED BY <2>2, <2>5, <3>3 DEF LeavesAt
  <2> QED BY <2>4, <2>5
<1>5. CASE program = "folly_rwspinlock"
  <2>1. b = RWSpinLockBody(o, t) BY <1>5 DEF MethodOf
  <2>2. PlacesIn(program, t.call.name) = {"entry", "bits_"} BY <1>5 DEF PlacesIn
  <2>3. t.call.name \in {"lock", "lock_shared", "unlock", "unlock_shared"}
    BY <1>1, <1>5, CallsHaveNames
  <2>4. t.loc[1] \in {"entry", "bits_"} BY <1>1, <2>2
  <2>5. Simple(b, o, "bits_", 0) \/ \E x : Ends(b, x, 0)
    BY <2>1, <2>3, <2>4, SpinSteps
  <2>6. LeavesAt(b, "bits_", FALSE) \/ LeavesAt(b, "end", TRUE) BY <1>2, <1>3, <2>5
  <2> QED BY <2>2, <2>6 DEF LeavesAt
<1>6. CASE program = "mutex_queue"
  <2>1. b = MutexQueueBody(o, t) BY <1>6 DEF MethodOf
  <2>2. PlacesIn(program, t.call.name) =
          {"entry", "lock", "locked", "++cnt", "cnt+1", "assert", "--cnt", "cnt-1",
           "unlock", "return"}
    BY <1>6 DEF PlacesIn
  <2>3. CASE t.loc[1] = "unlock"
    <3>1. Unqueued(b, o, t) BY <2>1, <2>3, TokenSteps
    <3> QED BY <2>2, <3>1 DEF Unqueued
  <2>4. CASE t.loc[1] # "unlock"
    <3>1. t.loc[1] \in {"entry", "lock", "locked", "++cnt", "cnt+1", "assert", "--cnt",
                        "cnt-1", "return"}
      BY <1>1, <2>2, <2>4
    <3>2. PICK e, cnt : e = t.loc[2].e /\ cnt = t.loc[2].cnt OBVIOUS
    <3>3. PICK to : to = [p \in {"entry", "lock", "locked", "++cnt", "cnt+1", "assert",
                                 "--cnt", "cnt-1", "return"} |->
                            CASE p = "entry" -> "lock" [] p = "lock" -> "locked"
                              [] p = "locked" -> "++cnt" [] p = "++cnt" -> "cnt+1"
                              [] p = "cnt+1" -> "assert" [] p = "assert" -> "--cnt"
                              [] p = "--cnt" -> "cnt-1" [] p = "cnt-1" -> "unlock"
                              [] p = "return" -> "end"]
      OBVIOUS
    <3>4. LeavesAt(b, to[t.loc[1]], to[t.loc[1]] = "end")
      <4>1. Queued(b, o, t) => LeavesAt(b, "locked", FALSE) BY OutcomesLeave
      <4>2. Asserted(b, o, [e |-> e, cnt |-> 0]) => LeavesAt(b, "--cnt", FALSE)
        BY OutcomesLeave
      <4>0. /\ t.loc[1] = "entry" => Simple(b, o, "lock", 0)
            /\ t.loc[1] = "lock" => Queued(b, o, t)
            /\ t.loc[1] = "locked" =>
                 Simple(b, [o EXCEPT !.items = AfterItem(o, t.call)], "++cnt",
                        [e |-> TakenItem(o, t.call), cnt |-> 0])
            /\ t.loc[1] = "++cnt" => Simple(b, o, "cnt+1", [e |-> e, cnt |-> o.cnt])
            /\ t.loc[1] = "cnt+1" =>
                 Simple(b, [o EXCEPT !.cnt = cnt + 1], "assert", [e |-> e, cnt |-> 0])
            /\ t.loc[1] = "--cnt" => Simple(b, o, "cnt-1", [e |-> e, cnt |-> o.cnt])
            /\ t.loc[1] = "cnt-1" =>
                 Simple(b, [o EXCEPT !.cnt = cnt - 1], "unlock", [e |-> e, cnt |-> 0])
        BY <2>1, <3>2, TokenSteps
      <4>3. t.loc[1] = "entry" => LeavesAt(b, "lock", FALSE) BY <1>2, <4>0, Zenon
      <4>4. t.loc[1] = "lock" => LeavesAt(b, "locked", FALSE) BY <4>0, <4>1, Zenon
      <4>5. t.loc[1] = "locked" => LeavesAt(b, "++cnt", FALSE) BY <1>2, <4>0, Zenon
      <4>6. t.loc[1] = "++cnt" => LeavesAt(b, "cnt+1", FALSE) BY <1>2, <4>0, Zenon
      <4>7. t.loc[1] = "cnt+1" => LeavesAt(b, "assert", FALSE) BY <1>2, <4>0, Zenon
      <4>8. t.loc[1] = "assert" => LeavesAt(b, "--cnt", FALSE)
        BY <2>1, <3>2, <4>2, TokenSteps
      <4>9. t.loc[1] = "--cnt" => LeavesAt(b, "cnt-1", FALSE) BY <1>2, <4>0, Zenon
      <4>10. t.loc[1] = "cnt-1" => LeavesAt(b, "unlock", FALSE) BY <1>2, <4>0, Zenon
      <4>11. t.loc[1] = "return" => LeavesAt(b, "end", TRUE) BY <1>3, <2>1, TokenSteps
      <4> QED BY <3>1, <3>3, <4>3, <4>4, <4>5, <4>6, <4>7, <4>8, <4>9, <4>10, <4>11
    <3>5. to[t.loc[1]] \in {"lock", "locked", "++cnt", "cnt+1", "assert", "--cnt", "cnt-1",
                            "unlock", "end"}
      BY <3>1, <3>3
    <3> QED BY <2>2, <3>4, <3>5 DEF LeavesAt
  <2> QED BY <2>3, <2>4
<1>7. CASE program = "deadlock"
  <2>1. b = DeadlockBody(o, t) BY <1>7 DEF MethodOf
  <2>2. PlacesIn(program, t.call.name) = {"entry", "first", "second", "release"}
    BY <1>7 DEF PlacesIn
  <2>3. t.loc[1] \in {"entry", "first", "second", "release"} BY <1>1, <2>2
  <2>4. \A m, place : TokenLocks(b, o, m, t, place) => LeavesAt(b, place, FALSE)
    BY OutcomesLeave
  <2>5. Releases(b, o) => LeavesAt(b, "end", TRUE) BY OutcomesLeave
  <2>6. \/ Simple(b, o, "first", 0) \/ TokenLocks(b, o, FirstMutex(t), t, "second")
        \/ TokenLocks(b, o, SecondMutex(t), t, "release") \/ Releases(b, o)
    BY <2>1, <2>3, DeadlockSteps
  <2>7. \E place \in {"first", "second", "release", "end"} :
          LeavesAt(b, place, place = "end")
    BY <1>2, <2>4, <2>5, <2>6
  <2> QED BY <2>2, <2>7 DEF LeavesAt
<1>8. CASE program = "atomic_register"
  <2>1. b = AtomicRegisterBody(o, t) BY <1>8 DEF MethodOf
  <2>2. PlacesIn(program, t.call.name) = {"entry", "x"} BY <1>8 DEF PlacesIn
  <2>3. t.loc[1] \in {"entry", "x"} BY <1>1, <2>2
  <2>4. Simple(b, o, "x", 0) \/ \E y, v : Ends(b, y, v)
    BY <2>1, <2>3, RegisterSteps
  <2>5. LeavesAt(b, "x", FALSE) \/ LeavesAt(b, "end", TRUE) BY <1>2, <1>3, <2>4
  <2> QED BY <2>2, <2>5 DEF LeavesAt
<1> QED BY <1>4, <1>5, <1>6, <1>7, <1>8 DEF ProvedPrograms, CorrectPrograms

(* What a resume of a task of a program makes of it and of the object. *)
StepOf(program, b, t, r, obj, after) ==
  /\ IsOutcome(b)
  /\ IsTask(r) /\ r.id = t.id /\ r.call = t.call /\ r.thread = t.thread
  /\ r.loc = b.loc /\ r.returned = b.returned /\ r.ret = b.ret
  /\ r.fstate = IF b.wait = NoFutex THEN t.fstate ELSE b.wait
  /\ after = <<program, b.obj>>
  /\ Fails(t, obj) = b.fails
  /\ \A pk : ParkedAfter(t, obj, pk) =
       (pk \cup (IF b.parks THEN {t.id} ELSE {})) \ b.unparks

(* This holds for every task that is at a place of the program. *)
LEMMA ResumeIsStep ==
  ASSUME NEW programs, RunsPrograms(programs), NEW program \in ProvedPrograms,
         NEW obj, obj[1] = program, NEW t, IsTask(t), IsPlaced(program, t), ~IsReturned(t),
         NEW b, b = MethodOf(program, obj[2], t)
  PROVE  /\ StepOf(program, b, t, Resumed(t, obj), obj, ObjAfter(t, obj))
         /\ IsPlaced(program, Resumed(t, obj))
<1>1. /\ IsOutcome(b)
      /\ b.returned \/ (b.loc[1] \in PlacesIn(program, t.call.name) /\ b.ret = NoRet)
  BY MethodLeaves
<1>2. PICK out : out = Body(obj, t) OBVIOUS
<1>3. out = TargetBody(obj, t) BY <1>2 DEF RunsPrograms
<1>4. Wraps(out, program, b)
  <2>1. \/ program = "simple_mutex" /\ b = FutexMutexBody(obj[2], t)
        \/ program = "folly_rwspinlock" /\ b = RWSpinLockBody(obj[2], t)
        \/ program = "atomic_register" /\ b = AtomicRegisterBody(obj[2], t)
        \/ program = "mutex_queue" /\ b = MutexQueueBody(obj[2], t)
        \/ program = "deadlock" /\ b = DeadlockBody(obj[2], t)
    BY DEF MethodOf, ProvedPrograms, CorrectPrograms
  <2> QED BY <1>1, <1>3, <2>1, BodyWraps
<1>5. PICK r : r = Resumed(t, obj) OBVIOUS
<1>6. r = [t EXCEPT !.loc = out.loc, !.returned = out.returned, !.ret = out.ret,
                    !.fstate = FutexAfter(t, out)]
  BY <1>2, <1>5 DEF Resumed
<1>7. /\ IsTask(r) /\ r.id = t.id /\ r.call = t.call /\ r.thread = t.thread
      /\ r.loc = b.loc /\ r.returned = b.returned /\ r.ret = b.ret
      /\ r.fstate = IF b.wait = NoFutex THEN t.fstate ELSE b.wait
  BY <1>4, <1>6 DEF IsTask, Fields, Wraps, FutexAfter
<1>8. ObjAfter(t, obj) = <<program, b.obj>> /\ Fails(t, obj) = b.fails
  BY <1>2, <1>4 DEF ObjAfter, Fails, Wraps
<1>9. \A pk : ParkedAfter(t, obj, pk) =
        (pk \cup (IF b.parks THEN {t.id} ELSE {})) \ b.unparks
  BY <1>2, <1>4 DEF ParkedAfter, Wraps
<1>10. IsPlaced(program, r) BY <1>1, <1>7 DEF IsPlaced, IsReturned
<1> QED BY <1>1, <1>5, <1>7, <1>8, <1>9, <1>10 DEF StepOf

-----------------------------------------------------------------------------
(* What a look at a task leaves of it. *)
Calm(t, v) ==
  /\ v.id = t.id /\ v.call = t.call /\ v.thread = t.thread /\ v.loc = t.loc
  /\ v.returned = t.returned
  /\ v.fstate = t.fstate \/ v.fstate = NoFutex

(* After a look at the threads in S their current tasks are as before, and *)
(* one that neither is parked nor waits has no futex.                      *)
LEMMA LookingIsCalm ==
  ASSUME StateInv, NEW S, NEW th, th = AfterLooking(S), NEW i \in Threads
  PROVE  /\ Calm(TaskOf(threads[i]), TaskOf(th[i]))
         /\ i \in S /\ ~Skipped(i) /\ Len(threads[i]) > 0 =>
              TaskOf(th[i]).fstate = NoFutex /\ TaskOf(threads[i]).id \notin parked
<1>1. PICK q, u, n : q = threads[i] /\ u = th[i] /\ n = Len(q) OBVIOUS
<1>2. IsQueue(q) BY <1>1 DEF StateInv, AreQueues
<1>3. n \in Nat /\ (q = << >> <=> n = 0) BY <1>1, <1>2, EmptyQueue
<1>4. CASE i \in S /\ q # << >> /\ ~IsParked(Last(q), parked)
  <2>1. PICK t, v : t = q[n] /\ v = AfterIsBlocked(t, state) OBVIOUS
  <2>2. u = [q EXCEPT ![n] = v]
    BY <1>1, <1>4, <2>1 DEF AfterLooking
  <2>3. n \in 1..n BY <1>3, <1>4
  <2>4. IsSeq(q) /\ IsTask(t) BY <1>1, <1>2, <2>1, <2>3 DEF IsQueue
  <2>5. Replaced(u, q, n, v) BY <1>1, <2>2, <2>3, <2>4, ReplaceOne
  <2>6. Len(u) = n /\ u[n] = v BY <1>1, <2>3, <2>5 DEF Replaced
  <2>7. TaskOf(q) = t /\ TaskOf(u) = v BY <1>1, <2>1, <2>3, <2>6 DEF TaskOf
  <2>8. Calm(t, v) /\ (~IsBlocked(t, state) => v.fstate = NoFutex)
    BY <2>1, <2>4 DEF Calm, AfterIsBlocked, IsTask, Fields
  <2>9. ~Skipped(i) => ~IsBlocked(t, state)
    BY <1>1, <1>4, <2>1 DEF Skipped, Last
  <2>10. t.id \notin parked BY <1>1, <1>4, <2>1 DEF IsParked, Last
  <2> QED BY <1>1, <2>7, <2>8, <2>9, <2>10
<1>5. CASE ~(i \in S /\ q # << >> /\ ~IsParked(Last(q), parked))
  <2>1. u = q BY <1>1, <1>5 DEF AfterLooking
  <2>2. Calm(TaskOf(q), TaskOf(u)) BY <2>1 DEF Calm
  <2>3. ~(i \in S /\ ~Skipped(i) /\ n > 0)
    BY <1>1, <1>3, <1>5 DEF Skipped
  <2> QED BY <1>1, <2>2, <2>3
<1> QED BY <1>4, <1>5

(* A round resumes the task t of thread i, a new one or the current one,   *)
(* with outcome b.                                                         *)
Goes(cur, nxt, i, t, b) ==
  /\ nxt[i].id = t.id /\ nxt[i].call = t.call /\ nxt[i].thread = t.thread
  /\ nxt[i].loc = b.loc /\ nxt[i].returned = b.returned /\ nxt[i].fstate = b.wait
  /\ \A j \in Threads : j # i => Calm(cur[j], nxt[j])
IsNew(cur, st, i, t) ==
  /\ IsReturned(cur[i]) /\ t.loc[1] = "entry" /\ TargetVerify(st, t.call, i, TRUE)
  /\ \A j \in Threads : cur[j].id < t.id
IsCurrent(cur, i, t, pk) ==
  /\ cur[i].id = t.id /\ cur[i].call = t.call /\ cur[i].thread = t.thread
  /\ cur[i].loc = t.loc /\ ~IsReturned(cur[i]) /\ t.id \notin pk

Acts(i, t, b) ==
  /\ IsTask(t) /\ IsPlaced(Program, t) /\ ~IsReturned(t)
  /\ b = MethodOf(Program, Object, t) /\ IsOutcome(b) /\ ~b.fails
  /\ Goes(Current(threads), Current(threads'), i, t, b)
  /\ \/ IsNew(Current(threads), status, i, t)
     \/ IsCurrent(Current(threads), i, t, parked)
  /\ state' = <<Program, b.obj>>
  /\ parked' = (parked \cup (IF b.parks THEN {t.id} ELSE {})) \ b.unparks
  /\ status' = IF b.returned THEN TargetOnFinished(status, t.call, i) ELSE status

(* The current tasks of distinct threads differ. *)
IdsDiffer(cur) ==
  \A i, j \in Threads : cur[i].id = cur[j].id /\ cur[i].id # -1 => i = j

(* A queue at the end of which the task r was put, and one in which it     *)
(* replaced the last task.                                                 *)
LEMMA LastOf ==
  ASSUME NEW q, NEW u, NEW r, Len(q) \in Nat,
         Appended(u, q, r) \/ (Len(q) > 0 /\ Replaced(u, q, Len(q), r))
  PROVE  TaskOf(u) = r
<1>1. PICK n \in Nat : n = Len(q) OBVIOUS
<1>2. CASE Appended(u, q, r) BY <1>1, <1>2 DEF Appended, TaskOf
<1>3. CASE Len(q) > 0 /\ Replaced(u, q, Len(q), r)
  <2>1. n \in 1..n BY <1>1, <1>3
  <2> QED BY <1>1, <1>3, <2>1 DEF Replaced, TaskOf
<1> QED BY <1>2, <1>3

(* The ids of current tasks differ, and a new task has a larger one. *)
LEMMA CurrentIds ==
  ASSUME StateInv, HistoryInv, phase = "run"
  PROVE  /\ IdsDiffer(Current(threads))
         /\ \A j \in Threads : Current(threads)[j].id < new_task_id
         /\ \A j \in Threads : \/ Current(threads)[j] = NoTask
                               \/ /\ IsTask(Current(threads)[j])
                                  /\ \E k \in 1..Len(threads[j]) :
                                       Current(threads)[j] = threads[j][k]
<1>1. AreQueues(threads) /\ new_task_id \in Nat BY DEF StateInv
<1>2. IdsAreDistinct(IdsOf(threads)) /\ IdsAreOld(IdsOf(threads), new_task_id)
  BY DEF HistoryInv, Linked
<1>3. PICK cur : cur = Current(threads) OBVIOUS
<1>4. ASSUME NEW j \in Threads
      PROVE  \/ cur[j] = NoTask
             \/ /\ IsTask(cur[j])
                /\ Len(threads[j]) \in 1..Len(threads[j])
                /\ cur[j] = threads[j][Len(threads[j])]
  <2>1. IsQueue(threads[j]) BY <1>1 DEF AreQueues
  <2>2. Len(threads[j]) \in Nat BY <2>1, EmptyQueue
  <2>3. cur[j] = TaskOf(threads[j]) BY <1>3 DEF Current
  <2> QED BY <2>1, <2>2, <2>3 DEF TaskOf, IsQueue
<1>5. \A j \in Threads : cur[j] # NoTask =>
        /\ Len(threads[j]) \in 1..Len(IdsOf(threads)[j])
        /\ IdsOf(threads)[j][Len(threads[j])] = cur[j].id
  BY <1>1, <1>4, IdsAreTyped DEF IdsOf
<1>6. NoTask.id = -1 BY DEF NoTask
<1>7. IdsDiffer(cur)
  <2> SUFFICES ASSUME NEW i \in Threads, NEW j \in Threads, cur[i].id = cur[j].id,
                      cur[i].id # -1
               PROVE  i = j
    BY DEF IdsDiffer
  <2>1. cur[i] # NoTask /\ cur[j] # NoTask BY <1>6
  <2> QED BY <1>2, <1>5, <2>1 DEF IdsAreDistinct
<1>8. \A j \in Threads : cur[j].id < new_task_id
  BY <1>1, <1>2, <1>4, <1>5, <1>6 DEF IdsAreOld
<1> QED BY <1>3, <1>4, <1>7, <1>8

-----------------------------------------------------------------------------
(* A look at the queues keeps their tasks at their places. *)
LEMMA AlikeArePlaced ==
  ASSUME NEW program, NEW th, NEW tg, ArePlaced(program, th), AlikeQueues(tg, th)
  PROVE  ArePlaced(program, tg)
<1>1. ASSUME NEW t, NEW v, Alike(t, v), IsPlaced(program, t) PROVE IsPlaced(program, v)
  BY <1>1 DEF Alike, IsPlaced, IsReturned
<1> QED BY <1>1 DEF ArePlaced, AlikeQueues

(* And so does a resume that leaves its task at a place. *)
LEMMA ChangeIsPlaced ==
  ASSUME NEW program, NEW th, NEW tg, ArePlaced(program, th), NEW r, IsPlaced(program, r),
         NEW i, NEW m,
         TaskAdded(tg, th, i, r) \/ TaskChanged(tg, th, i, m, r)
  PROVE  ArePlaced(program, tg)
<1> SUFFICES ASSUME NEW j \in Threads, NEW k \in 1..Len(tg[j])
             PROVE  IsPlaced(program, tg[j][k])
  BY DEF ArePlaced
<1>1. CASE j # i BY <1>1 DEF TaskAdded, TaskChanged, ArePlaced
<1>2. CASE j = i /\ TaskAdded(tg, th, i, r)
  <2>1. k \in 1..Len(th[i]) \/ k = Len(th[i]) + 1 BY <1>2 DEF TaskAdded, Appended
  <2> QED BY <1>2, <2>1 DEF TaskAdded, Appended, ArePlaced
<1>3. CASE j = i /\ TaskChanged(tg, th, i, m, r)
  BY <1>3 DEF TaskChanged, Replaced, ArePlaced
<1> QED BY <1>1, <1>2, <1>3

(* The verifier is asked before a task is started. *)
LEMMA CreatedAreVerified ==
  ASSUME NEW programs, RunsPrograms(programs), StateInv, NEW i, NEW c \in Creates(i)
  PROVE  TargetVerify(status, c, i, TRUE) /\ c \in GeneratedCalls(state, i)
<1>1. c \in Generates(state, i) BY DEF Creates, PctCreates, PickCreates
<1>2. kind \in Kinds BY DEF StateInv
<1>3. Verify(status, c, i, TRUE)
  BY <1>2 DEF Creates, PctCreates, PickCreates, RunsPrograms
<1> QED BY <1>1, <1>3 DEF RunsPrograms

(* What Record does to the verifier. *)
LEMMA RecordTells ==
  ASSUME NEW programs, RunsPrograms(programs), NEW i, NEW r, NEW is_new,
         Record(i, r, is_new)
  PROVE  status' = IF r.returned THEN TargetOnFinished(status, r.call, i) ELSE status
<1>1. status' = IF IsReturned(r) THEN OnFinished(status, r.call, i) ELSE status
  BY DEF Record
<1>2. OnFinished(status, r.call, i) = TargetOnFinished(status, r.call, i)
  BY DEF RunsPrograms
<1> QED BY <1>1, <1>2 DEF IsReturned

(* A new task of the program. *)
LEMMA NewIsPlaced ==
  ASSUME NEW program \in ProvedPrograms, NEW id \in Nat, NEW c \in CallsOf(program), NEW i,
         NEW t, t = New(id, c, i)
  PROVE  /\ IsTask(t) /\ t.id = id /\ t.call = c /\ t.thread = i /\ ~IsReturned(t)
         /\ t.fstate = NoFutex /\ t.loc[1] = "entry" /\ IsPlaced(program, t)
<1>1. /\ IsTask(t) /\ t.id = id /\ t.call = c /\ t.thread = i /\ ~IsReturned(t)
      /\ t.fstate = NoFutex /\ t.loc = <<"entry", 0>> /\ t.ret = NoRet
  BY DEF New, IsTask, Fields, IsReturned
<1>2. t.loc[1] = "entry" BY <1>1
<1>3. "entry" \in PlacesIn(program, c.name) BY DEF PlacesIn, ProvedPrograms, CorrectPrograms
<1> QED BY <1>1, <1>2, <1>3 DEF IsPlaced

(* A start and a resume of a task of one of the programs. *)
LEMMA StartActs ==
  ASSUME NEW programs, RunsPrograms(programs), Program \in ProvedPrograms,
         StateInv, HistoryInv, phase = "run", ArePlaced(Program, threads),
         NEW i \in Threads, NEW c, NEW th, NEW r, Starts(i, c, th, r),
         NEW t, t = New(new_task_id, c, i)
  PROVE  /\ \E b : Acts(i, t, b) /\ StepOf(Program, b, t, r, state, state')
         /\ ArePlaced(Program, threads')
<1>1. PICK b : b = MethodOf(Program, Object, t) OBVIOUS
<1>2. /\ AreQueues(threads) /\ new_task_id \in Nat /\ AlikeQueues(th, threads)
      /\ ~IsOpen(threads[i]) /\ c \in Creates(i)
      /\ r = Resumed(t, state) /\ ~Fails(t, state) /\ state' = ObjAfter(t, state)
      /\ parked' = ParkedAfter(t, state, parked)
      /\ TaskAdded(threads', th, i, r) /\ Record(i, r, TRUE)
  BY <1>1 DEF Starts, StateInv
<1>3. PICK S : i \in S /\ th = AfterLooking(S) BY DEF Starts
<1>4. TargetVerify(status, c, i, TRUE) /\ c \in CallsOf(Program)
  <2>1. TargetVerify(status, c, i, TRUE) /\ c \in GeneratedCalls(state, i)
    BY <1>2, CreatedAreVerified
  <2>2. GeneratedCalls(state, i) = CallsOf(Program)
    BY DEF GeneratedCalls, Program, ProvedPrograms, CorrectPrograms
  <2> QED BY <2>1, <2>2
<1>5. /\ IsTask(t) /\ t.id = new_task_id /\ t.call = c /\ t.thread = i /\ ~IsReturned(t)
      /\ t.fstate = NoFutex /\ t.loc[1] = "entry" /\ IsPlaced(Program, t)
  BY <1>1, <1>2, <1>4, NewIsPlaced
<1>6. /\ StepOf(Program, b, t, r, state, state') /\ IsPlaced(Program, r)
  BY <1>1, <1>2, <1>5, ResumeIsStep DEF Program, Object
<1>7. ArePlaced(Program, threads')
  <2>1. ArePlaced(Program, th) BY <1>2, AlikeArePlaced
  <2> QED BY <1>2, <1>6, <2>1, ChangeIsPlaced
<1>8. PICK cur, nxt : cur = Current(threads) /\ nxt = Current(threads') OBVIOUS
<1>9. nxt[i] = r
  <2>1. Appended(threads'[i], th[i], r) BY <1>2 DEF TaskAdded
  <2>2. Len(th[i]) \in Nat BY <2>1 DEF Appended
  <2> QED BY <1>8, <2>1, <2>2, LastOf DEF Current
<1>10. \A j \in Threads : j # i => Calm(cur[j], nxt[j])
  <2>1. \A j \in Threads : j # i => threads'[j] = th[j] BY <1>2 DEF TaskAdded
  <2>2. \A j \in Threads : Calm(TaskOf(threads[j]), TaskOf(th[j]))
    BY <1>3, LookingIsCalm
  <2> QED BY <1>8, <2>1, <2>2 DEF Current
<1>11. /\ r.id = t.id /\ r.call = t.call /\ r.thread = t.thread /\ r.loc = b.loc
       /\ r.returned = b.returned /\ r.fstate = b.wait /\ IsOutcome(b)
       /\ state' = <<Program, b.obj>> /\ b.fails = Fails(t, state)
       /\ parked' = (parked \cup (IF b.parks THEN {t.id} ELSE {})) \ b.unparks
  BY <1>2, <1>5, <1>6 DEF StepOf
<1>12. Goes(cur, nxt, i, t, b) BY <1>9, <1>10, <1>11 DEF Goes
<1>13. IsNew(cur, status, i, t)
  <2>1. IsReturned(cur[i])
    <3>1. cur[i] = TaskOf(threads[i]) BY <1>8 DEF Current
    <3>2. Len(threads[i]) \in Nat BY <1>2, IdsAreTyped
    <3> QED BY <1>2, <3>1, <3>2 DEF TaskOf, IsOpen, IsReturned, NoTask
  <2>2. \A j \in Threads : cur[j].id < t.id BY <1>5, <1>8, CurrentIds
  <2> QED BY <1>4, <1>5, <2>1, <2>2 DEF IsNew
<1>14. status' = IF b.returned THEN TargetOnFinished(status, t.call, i) ELSE status
  <2>1. status' = IF r.returned THEN TargetOnFinished(status, r.call, i) ELSE status
    BY <1>2, RecordTells
  <2> QED BY <1>11, <2>1
<1>15. ~b.fails BY <1>2, <1>11
<1>16. Acts(i, t, b)
  BY <1>1, <1>5, <1>8, <1>11, <1>12, <1>13, <1>14, <1>15 DEF Acts
<1> QED BY <1>6, <1>7, <1>16

(* The same for a task that goes on. *)
LEMMA ResumeActs ==
  ASSUME NEW programs, RunsPrograms(programs), Program \in ProvedPrograms,
         StateInv, phase = "run", ArePlaced(Program, threads),
         NEW i \in Threads, NEW th, NEW r, Resumes(i, th, r),
         NEW t, t = th[i][Len(th[i])]
  PROVE  /\ \E b : Acts(i, t, b) /\ StepOf(Program, b, t, r, state, state')
         /\ ArePlaced(Program, threads')
<1>1. PICK b : b = MethodOf(Program, Object, t) OBVIOUS
<1>2. /\ AreQueues(threads) /\ AlikeQueues(th, threads) /\ IsOpen(threads[i])
      /\ r = Resumed(t, state) /\ ~Fails(t, state) /\ state' = ObjAfter(t, state)
      /\ parked' = ParkedAfter(t, state, parked)
      /\ TaskChanged(threads', th, i, Len(th[i]), r) /\ Record(i, r, FALSE)
  BY <1>1 DEF Resumes, StateInv
<1>3. PICK S : i \in S /\ th = AfterLooking(S) /\ ~Skipped(i) BY DEF Resumes
<1>4. PICK n : /\ n = Len(threads[i]) /\ n = Len(th[i]) /\ n \in Nat /\ n > 0
               /\ n \in 1..n
  <2>1. Len(threads[i]) \in Nat BY <1>2, IdsAreTyped
  <2> QED BY <1>2, <2>1 DEF IsOpen, AlikeQueues
<1>5. ArePlaced(Program, th) BY <1>2, AlikeArePlaced
<1>6. Calm(TaskOf(threads[i]), t) /\ t.fstate = NoFutex /\ t.id \notin parked
  <2>1. TaskOf(th[i]) = t BY <1>1, <1>4 DEF TaskOf
  <2>2. Calm(TaskOf(threads[i]), t) BY <1>3, <2>1, LookingIsCalm
  <2>3. TaskOf(th[i]).fstate = NoFutex /\ TaskOf(threads[i]).id \notin parked
    <3>1. Len(threads[i]) > 0 BY <1>4
    <3> QED BY <1>3, <3>1, LookingIsCalm
  <2> QED BY <2>1, <2>2, <2>3 DEF Calm
<1>7. IsTask(t) /\ IsPlaced(Program, t) /\ ~IsReturned(t)
  <2>1. Alike(threads[i][n], t) BY <1>1, <1>2, <1>4 DEF AlikeQueues
  <2>2. ~IsReturned(threads[i][n]) BY <1>2, <1>4 DEF IsOpen
  <2>3. IsPlaced(Program, t) BY <1>1, <1>4, <1>5 DEF ArePlaced
  <2> QED BY <2>1, <2>2, <2>3 DEF Alike, IsReturned
<1>8. /\ StepOf(Program, b, t, r, state, state') /\ IsPlaced(Program, r)
  BY <1>1, <1>2, <1>7, ResumeIsStep DEF Program, Object
<1>9. ArePlaced(Program, threads') BY <1>2, <1>5, <1>8, ChangeIsPlaced
<1>10. PICK cur, nxt : cur = Current(threads) /\ nxt = Current(threads') OBVIOUS
<1>11. nxt[i] = r
  <2>1. Replaced(threads'[i], th[i], Len(th[i]), r) BY <1>2 DEF TaskChanged
  <2> QED BY <1>4, <1>10, <2>1, LastOf DEF Current
<1>12. \A j \in Threads : j # i => Calm(cur[j], nxt[j])
  <2>1. \A j \in Threads : j # i => threads'[j] = th[j] BY <1>2 DEF TaskChanged
  <2>2. \A j \in Threads : Calm(TaskOf(threads[j]), TaskOf(th[j]))
    BY <1>3, LookingIsCalm
  <2> QED BY <1>10, <2>1, <2>2 DEF Current
<1>13. /\ r.id = t.id /\ r.call = t.call /\ r.thread = t.thread /\ r.loc = b.loc
       /\ r.returned = b.returned /\ r.fstate = b.wait /\ IsOutcome(b)
       /\ state' = <<Program, b.obj>> /\ b.fails = Fails(t, state)
       /\ parked' = (parked \cup (IF b.parks THEN {t.id} ELSE {})) \ b.unparks
  BY <1>2, <1>6, <1>8 DEF StepOf
<1>14. Goes(cur, nxt, i, t, b) BY <1>11, <1>12, <1>13 DEF Goes
<1>15. IsCurrent(cur, i, t, parked)
  <2>1. cur[i] = TaskOf(threads[i]) BY <1>10 DEF Current
  <2> QED BY <1>6, <1>7, <2>1 DEF IsCurrent, Calm, IsReturned
<1>16. status' = IF b.returned THEN TargetOnFinished(status, t.call, i) ELSE status
  <2>1. status' = IF r.returned THEN TargetOnFinished(status, r.call, i) ELSE status
    BY <1>2, RecordTells
  <2> QED BY <1>13, <2>1
<1>17. ~b.fails BY <1>2, <1>13
<1>18. Acts(i, t, b)
  BY <1>1, <1>7, <1>10, <1>13, <1>14, <1>15, <1>16, <1>17 DEF Acts
<1> QED BY <1>8, <1>9, <1>18

(* The objects of the programs say which one they belong to. *)
LEMMA ObjectsAreNamed ==
  ASSUME NEW programs, RunsPrograms(programs), programs \subseteq ProvedPrograms
  PROVE  /\ \A obj \in NewObjs : obj[1] \in programs /\ obj = FreshObj(obj[1])
         /\ \A obj : obj[1] \in programs => Reset(obj) = FreshObj(obj[1])
         /\ \A program : FreshObj(program)[1] = program
<1>1. ASSUME NEW program PROVE FreshObj(program)[1] = program BY DEF FreshObj
<1>2. \A obj \in NewObjs : obj[1] \in programs /\ obj = FreshObj(obj[1])
  BY <1>1 DEF RunsPrograms, Fresh
<1>3. ASSUME NEW obj, obj[1] \in programs PROVE Reset(obj) = FreshObj(obj[1])
  <2>1. Reset(obj) = ResetObj(obj) BY DEF RunsPrograms
  <2>2. obj[1] # "nonlinear_treiber_stack" /\ obj[1] # "fast_queue"
    BY <1>3 DEF ProvedPrograms, CorrectPrograms
  <2> QED BY <2>1, <2>2 DEF ResetObj
<1> QED BY <1>1, <1>2, <1>3

(* PlaceInv holds at first and is kept. *)
LEMMA PlacesAtFirst ==
  ASSUME NEW programs, RunsPrograms(programs), programs \subseteq ProvedPrograms, Init
  PROVE  PlaceInv(programs)
<1>1. /\ state \in NewObjs /\ phase = "run" /\ threads = [i \in Threads |-> << >>]
  BY DEF Init, InitStrategy, InitBase
<1>2. Len(<< >>) = 0 BY EmptySeq
<1>3. ArePlaced(Program, threads) BY <1>1, <1>2 DEF ArePlaced
<1> QED BY <1>1, <1>3, ObjectsAreNamed DEF PlaceInv, Program

(* Every step of a round is one of Acts. *)
LEMMA RoundActs ==
  ASSUME NEW programs, RunsPrograms(programs), programs \subseteq ProvedPrograms,
         StateInv, HistoryInv, PlaceInv(programs), StartTask \/ ResumeTask
  PROVE  /\ phase = "run" /\ phase' = "run"
         /\ \E i \in Threads : \E t, b : Acts(i, t, b)
         /\ ArePlaced(Program, threads')
<1>1. phase = "run" /\ phase' = "run" BY DEF StartTask, ResumeTask, InRound
<1>2. Program \in ProvedPrograms /\ ArePlaced(Program, threads) BY DEF PlaceInv
<1>3. CASE StartTask
  <2>1. PICK i \in Threads : \E c, th, r : Starts(i, c, th, r) BY <1>3, StartShape
  <2>2. PICK c, th, r : Starts(i, c, th, r) BY <2>1
  <2> QED BY <1>1, <1>2, <2>2, StartActs
<1>4. CASE ResumeTask
  <2>1. PICK i \in Threads : \E th, r : Resumes(i, th, r) BY <1>4, ResumeShape
  <2>2. PICK th, r : Resumes(i, th, r) BY <2>1
  <2> QED BY <1>1, <1>2, <2>2, ResumeActs
<1> QED BY <1>3, <1>4

(* TerminateTasks leaves the tasks at places of the program as well. *)
LEMMA VisitIsPlaced ==
  ASSUME NEW programs, RunsPrograms(programs), programs \subseteq ProvedPrograms,
         StateInv, PlaceInv(programs), TerminateVisit
  PROVE  Program' = Program /\ ArePlaced(Program, threads')
<1>1. thread_index \in Threads /\ VisitThread BY DEF TerminateVisit
<1>2. Program \in ProvedPrograms /\ ArePlaced(Program, threads) BY DEF PlaceInv
<1>3. CASE UNCHANGED <<threads, state>> BY <1>2, <1>3 DEF Program
<1>4. ASSUME NEW m \in 1..Len(threads[thread_index]), NEW t, NEW r,
             ~IsReturned(threads[thread_index][m]),
             t = AfterIsBlocked(threads[thread_index][m], state),
             r = Resumed(t, state), state' = ObjAfter(t, state),
             TaskChanged(threads', threads, thread_index, m, r)
      PROVE  Program' = Program /\ ArePlaced(Program, threads')
  <2>1. PICK v : v = threads[thread_index][m] OBVIOUS
  <2>2. IsTask(v) /\ IsPlaced(Program, v)
    BY <1>1, <1>2, <2>1 DEF StateInv, AreQueues, IsQueue, ArePlaced
  <2>3. Alike(v, t) BY <1>4, <2>1, <2>2, TasksStayTasks
  <2>4. IsTask(t) /\ IsPlaced(Program, t) /\ ~IsReturned(t)
    BY <1>4, <2>1, <2>2, <2>3 DEF Alike, IsPlaced, IsReturned
  <2>5. PICK b : b = MethodOf(Program, Object, t) OBVIOUS
  <2>6. StepOf(Program, b, t, r, state, state') /\ IsPlaced(Program, r)
    BY <1>2, <1>4, <2>4, <2>5, ResumeIsStep DEF Program, Object
  <2>7. state' = <<Program, b.obj>> BY <2>6 DEF StepOf
  <2>8. Program' = Program BY <2>7 DEF Program
  <2>9. ArePlaced(Program, threads') BY <1>2, <1>4, <2>6, ChangeIsPlaced
  <2> QED BY <2>8, <2>9
<1> QED BY <1>1, <1>3, <1>4, VisitShape

(* Every step keeps the tasks at their places. *)
LEMMA PlacesAreKept ==
  ASSUME NEW programs, RunsPrograms(programs), programs \subseteq ProvedPrograms,
         StateInv, HistoryInv, PlaceInv(programs), [Next]_vars
  PROVE  PlaceInv(programs)'
<1>1. /\ Program \in programs /\ Program \in ProvedPrograms /\ ArePlaced(Program, threads)
      /\ phase = "terminate" => ~(finished_tasks < max_tasks)
      /\ phase = "destroy" => result # "none"
  BY DEF PlaceInv
<1>2. CASE StartTask \/ ResumeTask
  <2>1. /\ phase' = "run" /\ ArePlaced(Program, threads')
        /\ \E i \in Threads : \E t, b : Acts(i, t, b)
    BY <1>2, RoundActs
  <2>2. PICK b : state' = <<Program, b.obj>> BY <2>1 DEF Acts
  <2>3. Program' = Program BY <2>2 DEF Program
  <2> QED BY <1>1, <2>1, <2>3 DEF PlaceInv
<1>3. CASE Abort \/ CheckerThrows
  BY <1>1, <1>3 DEF Abort, CheckerThrows, strategyVars, baseVars, PlaceInv, Program
<1>4. CASE FinishRound
  <2>1. ~(finished_tasks < max_tasks)
    <3>1. phase = "run" /\ finished_tasks >= max_tasks
      BY <1>4 DEF FinishRound, RoundFinished
    <3>2. PICK R : R = ResponsesIn(sequential_history) OBVIOUS
    <3>3. finished_tasks = Cardinality(R) BY <3>1, <3>2 DEF HistoryInv
    <3>4. PICK n \in Nat : DOMAIN sequential_history = 1..n BY SeqDomain DEF StateInv
    <3>5. IsFiniteSet(1..n) BY FS_Interval
    <3>6. R \subseteq 1..n BY <3>2, <3>4 DEF ResponsesIn
    <3>7. Cardinality(R) \in Nat BY <3>5, <3>6, FS_Subset, FS_CardinalityType
    <3> QED BY <3>1, <3>3, <3>7, BoundsAssumption
  <2> QED BY <1>1, <1>4, <2>1 DEF FinishRound, PlaceInv, Program
<1>5. CASE ReportRound \/ RunReturns
  BY <1>1, <1>5 DEF ReportRound, RunReturns, PlaceInv, Program
<1>6. CASE Destroyed
  <2>1. state' = FreshObj(Program) /\ phase' = "done" /\ threads' = threads
    BY <1>1, <1>6, ObjectsAreNamed DEF Destroyed, ResetObjects, Program
  <2>2. Program' = Program BY <2>1, ObjectsAreNamed DEF Program
  <2> QED BY <1>1, <2>1, <2>2 DEF PlaceInv
<1>7. CASE TerminateTasks
  <2>1. phase' = phase /\ finished_tasks' = finished_tasks /\ result' = result
    BY <1>7 DEF TerminateTasks, schedulerVars
  <2>2. Program' = Program /\ ArePlaced(Program, threads')
    <3>1. CASE TerminateVisit BY <3>1, VisitIsPlaced
    <3>2. CASE TerminateAgain BY <1>1, <3>2 DEF TerminateAgain, Program
    <3> QED BY <1>7, <3>1, <3>2 DEF TerminateTasks
  <2> QED BY <1>1, <2>1, <2>2 DEF PlaceInv
<1>8. CASE StartNextRound
  <2>1. /\ state' = FreshObj(Program) /\ phase' = "run"
        /\ threads' = [i \in Threads |-> << >>]
    BY <1>1, <1>8, ObjectsAreNamed DEF StartNextRound, ResetObjects, Program
  <2>2. Program' = Program BY <2>1, ObjectsAreNamed DEF Program
  <2>3. ArePlaced(Program, threads') BY <2>1, EmptySeq DEF ArePlaced
  <2> QED BY <1>1, <2>1, <2>2, <2>3 DEF PlaceInv
<1>9. CASE Ended \/ UNCHANGED vars
  BY <1>1, <1>9 DEF Ended, vars, strategyVars, baseVars, schedulerVars, PlaceInv, Program
<1> QED BY <1>2, <1>3, <1>4, <1>5, <1>6, <1>7, <1>8, <1>9 DEF Next

-----------------------------------------------------------------------------
(* The outcome of a step that uses no token. *)
Outcome(b, obj, place, returned, wait) ==
  /\ b.obj = obj /\ b.loc[1] = place /\ b.returned = returned /\ b.wait = wait
  /\ b.parks = FALSE /\ b.unparks = {}

(* The shapes that are such outcomes. *)
LEMMA OutcomesOf ==
  ASSUME NEW b, NEW obj, NEW l, NEW place
  PROVE  /\ Simple(b, obj, place, l) => Outcome(b, obj, place, FALSE, NoFutex)
         /\ Ends(b, obj, l) => Outcome(b, obj, "end", TRUE, NoFutex)
         /\ Waits(b) => Outcome(b, 2, "waiting", FALSE, 2)
<1>1. /\ Simple(b, obj, place, l) => b.loc[1] = place
      /\ Ends(b, obj, l) => b.loc[1] = "end"
      /\ Waits(b) => b.loc[1] = "waiting"
  BY OutcomesLeave DEF LeavesAt
<1> QED BY <1>1 DEF Simple, Ends, Waits, Outcome

(* What an action does to the state that the invariants are about. *)
LEMMA ActTells ==
  ASSUME NEW i \in Threads, NEW t, NEW b, Acts(i, t, b)
  PROVE  /\ b = MethodOf(Program, Object, t) /\ t.call \in CallsOf(Program)
         /\ t.loc[1] \in PlacesIn(Program, t.call.name)
         /\ Program' = Program /\ Object' = b.obj /\ ~b.fails
         /\ IsTask(t) /\ ~IsReturned(t)
         /\ Goes(Current(threads), Current(threads'), i, t, b)
         /\ \/ IsNew(Current(threads), status, i, t)
            \/ IsCurrent(Current(threads), i, t, parked)
         /\ parked' = (parked \cup (IF b.parks THEN {t.id} ELSE {})) \ b.unparks
         /\ status' = IF b.returned THEN TargetOnFinished(status, t.call, i) ELSE status
<1>1. state' = <<Program, b.obj>> BY DEF Acts
<1>2. Program' = Program /\ Object' = b.obj BY <1>1 DEF Program, Object
<1> QED BY <1>2 DEF Acts, IsPlaced

(* simple_mutex: what the step of a task does to the word, and where it    *)
(* leaves the task.                                                        *)
FutexStep(o, o2, t, v, s2) ==
  /\ o2 \in 0..2 /\ FutexTask(v, s2)
  /\ v.fstate # NoFutex => v.loc[1] = "waiting" /\ v.fstate = 2
  /\ \/ (HasMutex(v) <=> HasMutex(t)) /\ (o2 = 0 <=> o = 0)
     \/ ~HasMutex(t) /\ HasMutex(v) /\ o = 0 /\ o2 # 0
     \/ HasMutex(t) /\ ~HasMutex(v) /\ o2 = 0

(* Where the task is before the step, and what the verifier knows of it. *)
LEMMA FutexBefore ==
  ASSUME NEW cur, NEW st, NEW i \in Threads, NEW t, NEW pk, FutexTask(cur[i], st[i]),
         t.call.of = "simple_mutex", t.call.name \in {"Lock", "Unlock"},
         IsNew(cur, st, i, t) \/ IsCurrent(cur, i, t, pk)
  PROVE  /\ st[i] = IF t.call.name = "Lock" THEN 0 ELSE 1
         /\ t.loc[1] \in IF t.call.name = "Lock" THEN {"entry", "lock", "waiting", "acquired"}
                         ELSE {"entry", "unlock", "woken"}
         /\ HasMutex(cur[i]) <=>
              t.loc[1] \in (IF t.call.name = "Lock" THEN {"acquired"} ELSE {"entry", "unlock"})
<1>1. CASE IsNew(cur, st, i, t)
  <2>1. IsReturned(cur[i]) /\ t.loc[1] = "entry" /\ MutexVerify(st, t.call, i, TRUE)
    BY <1>1 DEF IsNew, TargetVerify, Mutexes
  <2>2. st[i] = IF t.call.name = "Lock" THEN 0 ELSE 1 BY <2>1 DEF MutexVerify
  <2>3. HasMutex(cur[i]) <=> st[i] = 1
    BY <2>1 DEF FutexTask, HasMutex
  <2> QED BY <2>1, <2>2, <2>3
<1>2. CASE IsCurrent(cur, i, t, pk)
  <2>1. cur[i].call = t.call /\ cur[i].loc = t.loc /\ ~IsReturned(cur[i])
    BY <1>2 DEF IsCurrent
  <2> QED BY <2>1 DEF FutexTask, HasMutex
<1> QED BY <1>1, <1>2

(* The task u of the thread before a step, t when it is resumed, and v     *)
(* after it; s2 is what the verifier then knows.                           *)
FutexResume(o, t, b, u, v, s2) ==
  /\ o \in 0..2 /\ b = FutexMutexBody(o, t)
  /\ t.call.name \in {"Lock", "Unlock"} /\ v.call = t.call /\ v.loc = b.loc
  /\ v.returned = b.returned /\ v.fstate = b.wait
  /\ s2 = IF b.returned THEN (IF t.call.name = "Lock" THEN 1 ELSE 0)
          ELSE (IF t.call.name = "Lock" THEN 0 ELSE 1)
  /\ t.loc[1] \in IF t.call.name = "Lock" THEN {"entry", "lock", "waiting", "acquired"}
                  ELSE {"entry", "unlock", "woken"}
  /\ HasMutex(u) <=>
       t.loc[1] \in (IF t.call.name = "Lock" THEN {"acquired"} ELSE {"entry", "unlock"})

(* Where it is after the step. *)
LEMMA FutexAfterStep ==
  ASSUME NEW o, NEW t, NEW b, NEW u, NEW v, NEW s2, FutexResume(o, t, b, u, v, s2)
  PROVE  FutexStep(o, b.obj, u, v, s2) /\ b.parks = FALSE /\ b.unparks = {}
<1>1. /\ \A obj, place : Simple(b, obj, place, 0) => Outcome(b, obj, place, FALSE, NoFutex)
      /\ \A obj : Ends(b, obj, 0) => Outcome(b, obj, "end", TRUE, NoFutex)
      /\ Waits(b) => Outcome(b, 2, "waiting", FALSE, 2)
  BY OutcomesOf
<1> USE DEF FutexResume
<1>2. CASE t.call.name = "Lock"
  <2>1. t.loc[1] \in {"entry", "lock", "waiting", "acquired"} BY <1>2
  <2>2. /\ HasMutex(u) <=> t.loc[1] = "acquired"
        /\ s2 = IF b.returned THEN 1 ELSE 0
    BY <1>2
  <2>3. CASE t.loc[1] = "entry"
    <3>1. Outcome(b, o, "lock", FALSE, NoFutex) BY <1>1, <1>2, <2>3, FutexSteps
    <3> QED BY <1>2, <2>2, <2>3, <3>1 DEF Outcome, FutexStep, FutexTask, HasMutex, IsReturned
  <2>4. CASE t.loc[1] = "lock" \/ t.loc[1] = "waiting"
    <3>1. CASE o = 0
      <4>1. Outcome(b, 1, "acquired", FALSE, NoFutex) \/ Outcome(b, 2, "acquired", FALSE, NoFutex)
        BY <1>1, <1>2, <2>4, <3>1, FutexSteps
      <4> QED BY <1>2, <2>2, <2>4, <3>1, <4>1
           DEF Outcome, FutexStep, FutexTask, HasMutex, IsReturned
    <3>2. CASE o # 0
      <4>1. Outcome(b, 2, "waiting", FALSE, 2) BY <1>1, <1>2, <2>4, <3>2, FutexSteps
      <4> QED BY <1>2, <2>2, <2>4, <3>2, <4>1
           DEF Outcome, FutexStep, FutexTask, HasMutex, IsReturned
    <3> QED BY <3>1, <3>2
  <2>5. CASE t.loc[1] = "acquired"
    <3>1. Outcome(b, o, "end", TRUE, NoFutex) BY <1>1, <1>2, <2>5, FutexSteps
    <3> QED BY <1>2, <2>2, <2>5, <3>1 DEF Outcome, FutexStep, FutexTask, HasMutex, IsReturned
  <2> QED BY <2>1, <2>3, <2>4, <2>5
<1>3. CASE t.call.name = "Unlock"
  <2>1. t.loc[1] \in {"entry", "unlock", "woken"} BY <1>3
  <2>2. /\ HasMutex(u) <=> t.loc[1] \in {"entry", "unlock"}
        /\ s2 = IF b.returned THEN 0 ELSE 1
    BY <1>3
  <2>3. CASE t.loc[1] = "entry"
    <3>1. Outcome(b, o, "unlock", FALSE, NoFutex) BY <1>1, <1>3, <2>3, FutexSteps
    <3> QED BY <1>3, <2>2, <2>3, <3>1 DEF Outcome, FutexStep, FutexTask, HasMutex, IsReturned
  <2>4. CASE t.loc[1] = "unlock"
    <3>1. Outcome(b, 0, "end", TRUE, NoFutex) \/ Outcome(b, 0, "woken", FALSE, NoFutex)
      BY <1>1, <1>3, <2>4, FutexSteps
    <3> QED BY <1>3, <2>2, <2>4, <3>1 DEF Outcome, FutexStep, FutexTask, HasMutex, IsReturned
  <2>5. CASE t.loc[1] = "woken"
    <3>1. Outcome(b, o, "end", TRUE, NoFutex) BY <1>1, <1>3, <2>5, FutexSteps
    <3> QED BY <1>3, <2>2, <2>5, <3>1 DEF Outcome, FutexStep, FutexTask, HasMutex, IsReturned
  <2> QED BY <2>1, <2>3, <2>4, <2>5
<1> QED BY <1>2, <1>3

(* A step of a task keeps FutexInv. *)
LEMMA FutexIsKept ==
  ASSUME NEW i \in Threads, NEW t, NEW b, Acts(i, t, b), Program = "simple_mutex",
         DOMAIN status = Threads, FutexInv(Object, Current(threads), status, parked)
  PROVE  DOMAIN status' = Threads /\ FutexInv(Object', Current(threads'), status', parked')
<1>1. PICK o, cur, nxt, st, pk :
        /\ o = Object /\ cur = Current(threads) /\ nxt = Current(threads')
        /\ st = status /\ pk = parked
  OBVIOUS
<1>2. /\ b = FutexMutexBody(o, t) /\ t.call \in CallsOf("simple_mutex")
      /\ Object' = b.obj /\ Goes(cur, nxt, i, t, b)
      /\ IsNew(cur, st, i, t) \/ IsCurrent(cur, i, t, pk)
      /\ parked' = (pk \cup (IF b.parks THEN {t.id} ELSE {})) \ b.unparks
      /\ status' = IF b.returned THEN TargetOnFinished(st, t.call, i) ELSE st
  BY <1>1, ActTells DEF MethodOf
<1>3. t.call.of = "simple_mutex" /\ t.call.name \in {"Lock", "Unlock"}
  BY <1>2, CallsHaveNames
<1>4. /\ o \in 0..2 /\ pk = {} /\ DOMAIN st = Threads
      /\ \A j \in Threads : FutexTask(cur[j], st[j])
      /\ \A j \in Threads : cur[j].fstate # NoFutex =>
           cur[j].loc[1] = "waiting" /\ cur[j].fstate = 2
      /\ \A j, k \in Threads : HasMutex(cur[j]) /\ HasMutex(cur[k]) => j = k
      /\ o = 0 <=> \A j \in Threads : ~HasMutex(cur[j])
  BY <1>1 DEF FutexInv
<1>5. PICK st2, s2 :
        /\ st2 = status' /\ s2 = st2[i] /\ DOMAIN st2 = Threads
        /\ s2 = (IF b.returned THEN (IF t.call.name = "Lock" THEN 1 ELSE 0) ELSE st[i])
        /\ \A j \in Threads : j # i => st2[j] = st[j]
  <2>1. TargetOnFinished(st, t.call, i) = MutexOnFinished(st, t.call, i)
    BY <1>3 DEF TargetOnFinished, Mutexes
  <2>2. MutexOnFinished(st, t.call, i)
          = [st EXCEPT ![i] = IF t.call.name = "Lock" THEN 1 ELSE 0]
    BY <1>3 DEF MutexOnFinished
  <2> QED BY <1>2, <1>4, <2>1, <2>2
<1>6. /\ st[i] = IF t.call.name = "Lock" THEN 0 ELSE 1
      /\ t.loc[1] \in IF t.call.name = "Lock" THEN {"entry", "lock", "waiting", "acquired"}
                      ELSE {"entry", "unlock", "woken"}
      /\ HasMutex(cur[i]) <=>
           t.loc[1] \in (IF t.call.name = "Lock" THEN {"acquired"} ELSE {"entry", "unlock"})
  BY <1>2, <1>3, <1>4, FutexBefore
<1>7. FutexStep(o, b.obj, cur[i], nxt[i], s2) /\ b.parks = FALSE /\ b.unparks = {}
  <2>1. PICK v : v = nxt[i] OBVIOUS
  <2>2. /\ v.call = t.call /\ v.loc = b.loc /\ v.returned = b.returned /\ v.fstate = b.wait
    BY <1>2, <2>1 DEF Goes
  <2>3. s2 = IF b.returned THEN (IF t.call.name = "Lock" THEN 1 ELSE 0)
             ELSE (IF t.call.name = "Lock" THEN 0 ELSE 1)
    BY <1>5, <1>6
  <2>4. FutexResume(o, t, b, cur[i], v, s2)
    BY <1>2, <1>3, <1>4, <1>6, <2>2, <2>3 DEF FutexResume
  <2> QED BY <2>1, <2>4, FutexAfterStep
<1>8. \A j \in Threads : j # i =>
        /\ FutexTask(nxt[j], st2[j]) /\ (HasMutex(nxt[j]) <=> HasMutex(cur[j]))
        /\ nxt[j].fstate # NoFutex => nxt[j].loc[1] = "waiting" /\ nxt[j].fstate = 2
  BY <1>2, <1>4, <1>5 DEF Goes, Calm, FutexTask, HasMutex, IsReturned
<1>9. parked' = {} BY <1>2, <1>4, <1>7
<1>10. /\ b.obj \in 0..2
       /\ \A j \in Threads : FutexTask(nxt[j], st2[j])
       /\ \A j \in Threads : nxt[j].fstate # NoFutex =>
            nxt[j].loc[1] = "waiting" /\ nxt[j].fstate = 2
  BY <1>5, <1>7, <1>8 DEF FutexStep
<1>11. /\ \A j, k \in Threads : HasMutex(nxt[j]) /\ HasMutex(nxt[k]) => j = k
       /\ b.obj = 0 <=> \A j \in Threads : ~HasMutex(nxt[j])
  <2>1. \/ (HasMutex(nxt[i]) <=> HasMutex(cur[i])) /\ (b.obj = 0 <=> o = 0)
        \/ ~HasMutex(cur[i]) /\ HasMutex(nxt[i]) /\ o = 0 /\ b.obj # 0
        \/ HasMutex(cur[i]) /\ ~HasMutex(nxt[i]) /\ b.obj = 0
    BY <1>7 DEF FutexStep
  <2>2. \A j \in Threads : j # i => (HasMutex(nxt[j]) <=> HasMutex(cur[j])) BY <1>8
  <2> QED BY <1>4, <2>1, <2>2
<1> QED BY <1>1, <1>2, <1>5, <1>9, <1>10, <1>11 DEF FutexInv

-----------------------------------------------------------------------------
(* folly_rwspinlock: threads that have a lock are counted. *)
LEMMA HavingIsFinite ==
  ASSUME NEW st, NEW s
  PROVE  IsFiniteSet(Having(st, s)) /\ Cardinality(Having(st, s)) \in Nat
<1>1. 0 \in Int /\ threads_count - 1 \in Int BY ThreadsAssumption
<1>2. IsFiniteSet(Threads) BY <1>1, FS_Interval DEF Threads
<1>3. Having(st, s) \subseteq Threads BY DEF Having
<1> QED BY <1>2, <1>3, FS_Subset, FS_CardinalityType

(* The bits say who has the lock: nobody, one writer or the readers. *)
BitsTell(bits, st) ==
  /\ \A i \in Threads : st[i] \in {FREE, WRITER, READER}
  /\ bits = Cardinality(Having(st, WRITER)) + 4 * Cardinality(Having(st, READER))
  /\ \A i, j \in Threads : st[i] = WRITER /\ st[j] # FREE => i = j

(* The cases are told apart by the last bit. *)
LEMMA BitsCases ==
  ASSUME NEW bits, NEW st, BitsTell(bits, st)
  PROVE  \/ /\ Having(st, WRITER) = {} /\ Cardinality(Having(st, READER)) \in Nat
            /\ bits = 4 * Cardinality(Having(st, READER))
         \/ /\ Having(st, READER) = {} /\ bits = 1
            /\ \E i \in Threads : Having(st, WRITER) = {i}
<1>1. PICK w, r : w = Having(st, WRITER) /\ r = Having(st, READER) OBVIOUS
<1>2. Cardinality(r) \in Nat /\ bits = Cardinality(w) + 4 * Cardinality(r)
  BY <1>1, HavingIsFinite DEF BitsTell
<1>3. CASE w = {}
  <2>1. Cardinality(w) = 0 BY <1>3, FS_EmptySet
  <2> QED BY <1>1, <1>2, <1>3, <2>1
<1>4. CASE w # {}
  <2>1. PICK i \in Threads : st[i] = WRITER /\ i \in w BY <1>1, <1>4 DEF Having
  <2>2. \A j \in Threads : st[j] # FREE => i = j BY <2>1 DEF BitsTell
  <2>3. w = {i} /\ r = {}
    BY <1>1, <2>1, <2>2 DEF Having, WRITER, READER, FREE
  <2>4. Cardinality(w) = 1 /\ Cardinality(r) = 0 BY <2>3, FS_Singleton, FS_EmptySet
  <2> QED BY <1>1, <1>2, <2>3, <2>4
<1> QED BY <1>3, <1>4

(* A thread takes or gives back a lock. *)
LEMMA BitsChange ==
  ASSUME NEW bits, NEW st, BitsTell(bits, st), DOMAIN st = Threads, NEW i \in Threads,
         NEW s, NEW st2, st2 = [st EXCEPT ![i] = s], NEW bits2,
         \/ s = WRITER /\ st[i] = FREE /\ bits = 0 /\ bits2 = 1
         \/ s = READER /\ st[i] = FREE /\ bits % 2 = 0 /\ bits2 = bits + 4
         \/ s = FREE /\ st[i] = WRITER /\ bits2 = bits - (bits % 2)
         \/ s = FREE /\ st[i] = READER /\ bits2 = bits - 4
  PROVE  BitsTell(bits2, st2)
<1>1. PICK w, r, w2, r2 : /\ w = Having(st, WRITER) /\ r = Having(st, READER)
                          /\ w2 = Having(st2, WRITER) /\ r2 = Having(st2, READER)
  OBVIOUS
<1>2. st2[i] = s /\ \A j \in Threads : j # i => st2[j] = st[j] OBVIOUS
<1>3. IsFiniteSet(r) /\ Cardinality(r) \in Nat BY <1>1, HavingIsFinite
<1>4. \/ w = {} /\ bits = 4 * Cardinality(r)
      \/ r = {} /\ bits = 1 /\ \E j \in Threads : w = {j}
  BY <1>1, BitsCases
<1>5. \A x : x \in w <=> x \in Threads /\ st[x] = WRITER BY <1>1 DEF Having
<1>6. \A x : x \in r <=> x \in Threads /\ st[x] = READER BY <1>1 DEF Having
<1>7. \A x : x \in w2 <=> x \in Threads /\ st2[x] = WRITER BY <1>1 DEF Having
<1>8. \A x : x \in r2 <=> x \in Threads /\ st2[x] = READER BY <1>1 DEF Having
<1>9. FREE = 0 /\ WRITER = 1 /\ READER = 4 BY DEF FREE, WRITER, READER
<1>10. \A j, k \in Threads : st[j] = WRITER /\ st[k] # FREE => j = k BY DEF BitsTell
<1>11. Cardinality({}) = 0 /\ Cardinality({i}) = 1 BY FS_EmptySet, FS_Singleton
<1>12. ASSUME w2 = {} \/ (w2 = {i} /\ r2 = {}),
              bits2 = Cardinality(w2) + 4 * Cardinality(r2)
       PROVE  BitsTell(bits2, st2)
  <2>1. s \in {FREE, WRITER, READER} OBVIOUS
  <2>2. \A j \in Threads : st2[j] \in {FREE, WRITER, READER}
    BY <1>2, <2>1 DEF BitsTell
  <2>3. ASSUME NEW j \in Threads, NEW k \in Threads, st2[j] = WRITER, st2[k] # FREE
        PROVE  j = k
    <3>1. j \in w2 BY <1>7, <2>3
    <3>2. w2 = {i} /\ r2 = {} BY <1>12, <3>1
    <3>3. k \in w2 \/ k \in r2 BY <1>7, <1>8, <2>2, <2>3
    <3> QED BY <3>1, <3>2, <3>3
  <2> QED BY <1>1, <1>12, <2>2, <2>3 DEF BitsTell
<1>13. CASE s = WRITER /\ st[i] = FREE /\ bits = 0 /\ bits2 = 1
  <2>1. w = {} /\ Cardinality(r) = 0 BY <1>3, <1>4, <1>13
  <2>2. r = {} BY <1>3, <2>1, FS_EmptySet
  <2>3. w2 = {i} /\ r2 = {}
    BY <1>2, <1>5, <1>6, <1>7, <1>8, <1>9, <1>13, <2>1, <2>2
  <2> QED BY <1>11, <1>12, <1>13, <2>3
<1>14. CASE s = READER /\ st[i] = FREE /\ bits % 2 = 0 /\ bits2 = bits + 4
  <2>1. w = {} /\ bits = 4 * Cardinality(r) BY <1>4, <1>14
  <2>2. w2 = {} BY <1>2, <1>5, <1>7, <1>9, <1>14, <2>1
  <2>3. r2 = r \cup {i} BY <1>2, <1>6, <1>8, <1>9, <1>14
  <2>4. i \notin r BY <1>6, <1>9, <1>14
  <2>5. Cardinality(r2) = Cardinality(r) + 1 BY <1>3, <2>3, <2>4, FS_AddElement
  <2>6. bits2 = Cardinality(w2) + 4 * Cardinality(r2)
    BY <1>3, <1>11, <1>14, <2>1, <2>2, <2>5
  <2> QED BY <1>12, <2>2, <2>6
<1>15. CASE s = FREE /\ st[i] = WRITER /\ bits2 = bits - (bits % 2)
  <2>1. i \in w BY <1>5, <1>15
  <2>2. w = {i} /\ r = {} /\ bits = 1 BY <1>4, <2>1
  <2>3. w2 = {} /\ r2 = {}
    BY <1>2, <1>5, <1>6, <1>7, <1>8, <1>9, <1>15, <2>2
  <2>4. bits2 = 0 BY <1>15, <2>2
  <2> QED BY <1>11, <1>12, <2>3, <2>4
<1>16. CASE s = FREE /\ st[i] = READER /\ bits2 = bits - 4
  <2>1. i \in r BY <1>6, <1>16
  <2>2. w = {} /\ bits = 4 * Cardinality(r) BY <1>4, <2>1
  <2>3. w2 = {} BY <1>2, <1>5, <1>7, <1>9, <1>16, <2>2
  <2>4. r2 = r \ {i} BY <1>2, <1>6, <1>8, <1>9, <1>16
  <2>5. Cardinality(r2) = Cardinality(r) - 1 BY <1>3, <2>1, <2>4, FS_RemoveElement
  <2>6. bits2 = Cardinality(w2) + 4 * Cardinality(r2)
    BY <1>3, <1>11, <1>16, <2>2, <2>3, <2>5
  <2> QED BY <1>12, <2>3, <2>6
<1> QED BY <1>13, <1>14, <1>15, <1>16

(* What the verifier knows of the thread whose task is resumed. *)
SpinStatus(c) ==
  IF c.name \in {"lock", "lock_shared"} THEN FREE
  ELSE IF c.name = "unlock" THEN WRITER ELSE READER
SpinCall(c) ==
  /\ c.of = "folly_rwspinlock"
  /\ c.name \in {"lock", "lock_shared", "unlock", "unlock_shared"}

(* A task goes on with what the verifier asked of it at its start. *)
LEMMA SpinBefore ==
  ASSUME NEW cur, NEW st, NEW i, NEW t, NEW pk, SpinTask(cur[i], st[i]),
         SpinCall(t.call), IsNew(cur, st, i, t) \/ IsCurrent(cur, i, t, pk)
  PROVE  st[i] = SpinStatus(t.call)
<1> USE DEF SpinCall
<1>1. CASE IsNew(cur, st, i, t)
  <2>1. SharedMutexVerify(st, t.call, i, TRUE)
    BY <1>1 DEF IsNew, TargetVerify, Mutexes
  <2> QED BY <2>1 DEF SharedMutexVerify, SpinStatus
<1>2. CASE IsCurrent(cur, i, t, pk)
  <2>1. cur[i].call = t.call /\ cur[i].loc = t.loc /\ ~IsReturned(cur[i])
    BY <1>2 DEF IsCurrent
  <2> QED BY <2>1 DEF SpinTask, SpinStatus
<1> QED BY <1>1, <1>2

(* A step of a task keeps SpinInv. *)
LEMMA SpinIsKept ==
  ASSUME NEW i \in Threads, NEW t, NEW b, Acts(i, t, b), Program = "folly_rwspinlock",
         DOMAIN status = Threads, SpinInv(Object, Current(threads), status, parked)
  PROVE  DOMAIN status' = Threads /\ SpinInv(Object', Current(threads'), status', parked')
<1>1. PICK o, cur, nxt, st, pk, st2, v :
        /\ o = Object /\ cur = Current(threads) /\ nxt = Current(threads')
        /\ st = status /\ pk = parked /\ st2 = status' /\ v = nxt[i]
  OBVIOUS
<1>2. /\ b = RWSpinLockBody(o, t) /\ t.call \in CallsOf("folly_rwspinlock")
      /\ t.loc[1] \in {"entry", "bits_"}
      /\ Object' = b.obj /\ Goes(cur, nxt, i, t, b)
      /\ IsNew(cur, st, i, t) \/ IsCurrent(cur, i, t, pk)
      /\ parked' = (pk \cup (IF b.parks THEN {t.id} ELSE {})) \ b.unparks
      /\ st2 = IF b.returned THEN TargetOnFinished(st, t.call, i) ELSE st
  BY <1>1, ActTells DEF MethodOf, PlacesIn
<1>3. PICK name : /\ name = t.call.name /\ t.call.of = "folly_rwspinlock"
                  /\ name \in {"lock", "lock_shared", "unlock", "unlock_shared"}
  BY <1>2, CallsHaveNames
<1>4. /\ pk = {} /\ DOMAIN st = Threads
      /\ \A j \in Threads : SpinTask(cur[j], st[j]) /\ cur[j].fstate = NoFutex
  BY <1>1 DEF SpinInv
<1>5. BitsTell(o, st)
  <2>1. \A j \in Threads : st[j] \in {FREE, WRITER, READER} BY <1>4 DEF SpinTask
  <2> QED BY <1>1, <2>1 DEF BitsTell, SpinInv
<1>6. st[i] = SpinStatus(t.call)
  <2>1. SpinTask(cur[i], st[i]) BY <1>4
  <2>2. SpinCall(t.call) BY <1>3 DEF SpinCall
  <2>3. IsNew(cur, st, i, t) \/ IsCurrent(cur, i, t, pk) BY <1>2
  <2> QED BY <2>1, <2>2, <2>3, SpinBefore
<1>7. \/ Outcome(b, o, "bits_", FALSE, NoFutex)
      \/ \E x : /\ Outcome(b, x, "end", TRUE, NoFutex)
               /\ \/ name = "lock" /\ o = 0 /\ x = 1
                  \/ name = "lock_shared" /\ o % 2 = 0 /\ x = o + 4
                  \/ name = "unlock" /\ x = o - (o % 2)
                  \/ name = "unlock_shared" /\ x = o - 4
  <2>1. /\ \A obj, place : Simple(b, obj, place, 0) => Outcome(b, obj, place, FALSE, NoFutex)
        /\ \A obj : Ends(b, obj, 0) => Outcome(b, obj, "end", TRUE, NoFutex)
    BY OutcomesOf
  <2>2. /\ t.loc[1] = "entry" => Simple(b, o, "bits_", 0)
        /\ t.loc[1] = "bits_" =>
             /\ name = "lock" => IF o = 0 THEN Ends(b, 1, 0) ELSE Simple(b, o, "bits_", 0)
             /\ name = "lock_shared" =>
                  IF o % 2 = 0 THEN Ends(b, o + 4, 0) ELSE Simple(b, o, "bits_", 0)
             /\ name = "unlock" => Ends(b, o - (o % 2), 0)
             /\ name = "unlock_shared" => Ends(b, o - 4, 0)
    BY <1>2, <1>3, SpinSteps
  <2> QED BY <1>2, <1>3, <2>1, <2>2
<1>8. \A j \in Threads : j # i =>
        SpinTask(nxt[j], st[j]) /\ nxt[j].fstate = NoFutex
  BY <1>2, <1>4 DEF Goes, Calm, SpinTask, IsReturned
<1>9. /\ v.call = t.call /\ v.loc = b.loc /\ v.returned = b.returned /\ v.fstate = b.wait
  BY <1>1, <1>2 DEF Goes
<1>10. /\ DOMAIN st2 = Threads /\ BitsTell(b.obj, st2) /\ SpinTask(v, st2[i])
       /\ v.fstate = NoFutex /\ b.parks = FALSE /\ b.unparks = {}
       /\ \A j \in Threads : j # i => st2[j] = st[j]
  <2>1. CASE Outcome(b, o, "bits_", FALSE, NoFutex)
    <3>1. st2 = st BY <1>2, <2>1 DEF Outcome
    <3>2. SpinTask(v, st[i])
      BY <1>3, <1>6, <1>9, <2>1 DEF Outcome, SpinTask, SpinStatus, IsReturned
    <3> QED BY <1>4, <1>5, <1>9, <2>1, <3>1, <3>2 DEF Outcome
  <2>2. ASSUME NEW x, Outcome(b, x, "end", TRUE, NoFutex),
               \/ name = "lock" /\ o = 0 /\ x = 1
               \/ name = "lock_shared" /\ o % 2 = 0 /\ x = o + 4
               \/ name = "unlock" /\ x = o - (o % 2)
               \/ name = "unlock_shared" /\ x = o - 4
        PROVE  /\ DOMAIN st2 = Threads /\ BitsTell(b.obj, st2) /\ SpinTask(v, st2[i])
               /\ v.fstate = NoFutex /\ b.parks = FALSE /\ b.unparks = {}
               /\ \A j \in Threads : j # i => st2[j] = st[j]
    <3>1. PICK s : s = IF name = "lock" THEN WRITER
                       ELSE IF name = "lock_shared" THEN READER ELSE FREE
      OBVIOUS
    <3>2. st2 = [st EXCEPT ![i] = s]
      <4>1. TargetOnFinished(st, t.call, i) = SharedMutexOnFinished(st, t.call, i)
        BY <1>3 DEF TargetOnFinished, Mutexes
      <4>2. SharedMutexOnFinished(st, t.call, i) = [st EXCEPT ![i] = s]
        BY <1>3, <3>1 DEF SharedMutexOnFinished
      <4> QED BY <1>2, <2>2, <4>1, <4>2 DEF Outcome
    <3>3. DOMAIN st2 = Threads /\ st2[i] = s /\ \A j \in Threads : j # i => st2[j] = st[j]
      BY <1>4, <3>2
    <3>4. \/ s = WRITER /\ st[i] = FREE /\ o = 0 /\ x = 1
          \/ s = READER /\ st[i] = FREE /\ o % 2 = 0 /\ x = o + 4
          \/ s = FREE /\ st[i] = WRITER /\ x = o - (o % 2)
          \/ s = FREE /\ st[i] = READER /\ x = o - 4
      BY <1>3, <1>6, <2>2, <3>1 DEF SpinStatus
    <3>5. BitsTell(x, st2) BY <1>4, <1>5, <3>2, <3>4, BitsChange
    <3>6. SpinTask(v, s)
      BY <1>3, <1>9, <2>2, <3>1 DEF Outcome, SpinTask, IsReturned
    <3> QED BY <1>9, <2>2, <3>3, <3>5, <3>6 DEF Outcome
  <2> QED BY <1>7, <2>1, <2>2
<1>11. parked' = {} BY <1>2, <1>4, <1>10
<1>12. \A j \in Threads : SpinTask(nxt[j], st2[j]) /\ nxt[j].fstate = NoFutex
  BY <1>1, <1>8, <1>10
<1> QED BY <1>1, <1>2, <1>10, <1>11, <1>12 DEF SpinInv, BitsTell

-----------------------------------------------------------------------------
(* The queue w of a mutex becomes u when the task of thread i calls Lock.  *)
Joins(w, cur, S, nxt, i, id, u) ==
  /\ QueueOf(w, cur, S) /\ id \in Nat /\ nxt[i].id = id
  /\ \A j \in S : nxt[j].id = cur[j].id /\ cur[j].id # id
  /\ u = Append(w, id)
Joined(w, S, nxt, i, id, u) ==
  /\ QueueOf(u, nxt, S \cup {i})
  /\ Waiting(u) = Waiting(w) \cup (IF w # << >> THEN {id} ELSE {})
  /\ u[1] = IF w = << >> THEN id ELSE w[1]

(* It is the queue of one more thread, which is parked if it is not alone. *)
LEMMA QueueGrows ==
  ASSUME NEW w, NEW cur, NEW S, NEW nxt, NEW i, NEW id, NEW u,
         Joins(w, cur, S, nxt, i, id, u)
  PROVE  Joined(w, S, nxt, i, id, u)
<1>0. /\ QueueOf(w, cur, S) /\ id \in Nat /\ nxt[i].id = id
      /\ \A j \in S : nxt[j].id = cur[j].id /\ cur[j].id # id
      /\ u = Append(w, id)
  BY DEF Joins
<1>1. w \in Seq(Nat) BY <1>0 DEF QueueOf
<1>2. PICK n \in Nat : n = Len(w) BY <1>1, LenProperties
<1>3. /\ u \in Seq(Nat) /\ Len(u) = n + 1 /\ u[n + 1] = id
      /\ \A k \in 1..n : u[k] = w[k]
  BY <1>0, <1>1, <1>2, AppendProperties
<1>4. w = << >> <=> n = 0 BY <1>1, <1>2, EmptySeq
<1>5. \A k \in 1..n : w[k] # id BY <1>0, <1>2 DEF QueueOf
<1>6. \A k, m \in 1..(n + 1) : u[k] = u[m] => k = m
  <2>1. \A k, m \in 1..n : w[k] = w[m] => k = m BY <1>0, <1>2 DEF QueueOf
  <2>2. \A k \in 1..(n + 1) : k \in 1..n \/ k = n + 1 OBVIOUS
  <2> QED BY <1>3, <1>5, <2>1, <2>2
<1>7. \A j \in S \cup {i} : \E k \in 1..(n + 1) : u[k] = nxt[j].id
  <2>1. \A j \in S : \E k \in 1..n : w[k] = cur[j].id BY <1>0, <1>2 DEF QueueOf
  <2>2. n + 1 \in 1..(n + 1) /\ \A k \in 1..n : k \in 1..(n + 1) OBVIOUS
  <2> QED BY <1>0, <1>3, <2>1, <2>2
<1>8. \A k \in 1..(n + 1) : \E j \in S \cup {i} : u[k] = nxt[j].id
  <2>1. \A k \in 1..n : \E j \in S : w[k] = cur[j].id BY <1>0, <1>2 DEF QueueOf
  <2>2. \A k \in 1..(n + 1) : k \in 1..n \/ k = n + 1 OBVIOUS
  <2> QED BY <1>0, <1>3, <2>1, <2>2
<1>9. QueueOf(u, nxt, S \cup {i})
  <2>1. PICK len, T : len = n + 1 /\ len = Len(u) /\ T = S \cup {i} BY <1>3
  <2>2. \A k, m \in 1..len : u[k] = u[m] => k = m BY <1>6, <2>1
  <2>3. \A j \in T : \E k \in 1..len : u[k] = nxt[j].id BY <1>7, <2>1
  <2>4. \A k \in 1..len : \E j \in T : u[k] = nxt[j].id BY <1>8, <2>1
  <2>5. u \in Seq(Nat) BY <1>3
  <2>6. QueueOf(u, nxt, T) BY ONLY <2>1, <2>2, <2>3, <2>4, <2>5, Zenon DEF QueueOf
  <2> QED BY <2>1, <2>6
<1>10. Waiting(u) = Waiting(w) \cup (IF w # << >> THEN {id} ELSE {})
  <2>1. CASE w = << >>
    <3>1. 2..(n + 1) = {} /\ 2..n = {} BY <1>4, <2>1
    <3> QED BY <1>2, <1>3, <2>1, <3>1 DEF Waiting
  <2>2. CASE w # << >>
    <3>1. n >= 1 BY <1>4, <2>2
    <3>2. \A k : k \in 2..(n + 1) <=> k \in 2..n \/ k = n + 1 BY <3>1
    <3>3. \A k \in 2..n : u[k] = w[k] BY <1>3
    <3> QED BY <1>2, <1>3, <2>2, <3>2, <3>3 DEF Waiting
  <2> QED BY <2>1, <2>2
<1>11. u[1] = IF w = << >> THEN id ELSE w[1]
  <2>1. CASE n = 0
    <3>1. n + 1 = 1 BY <2>1
    <3> QED BY <1>3, <1>4, <2>1, <3>1
  <2>2. CASE n # 0
    <3>1. 1 \in 1..n BY <2>2
    <3> QED BY <1>3, <1>4, <2>2, <3>1
  <2> QED BY <2>1, <2>2
<1> QED BY <1>9, <1>10, <1>11 DEF Joined

(* The same when the task of thread i, the first one, calls Unlock. *)
HandsOver(w, cur, S, nxt, i, u) ==
  /\ QueueOf(w, cur, S) /\ i \in S /\ w[1] = cur[i].id
  /\ \A j \in S \ {i} : nxt[j].id = cur[j].id /\ cur[j].id # cur[i].id
  /\ u = RestOf(w)
HandedOver(w, S, nxt, i, u) ==
  /\ w # << >> /\ QueueOf(u, nxt, S \ {i})
  /\ Waiting(u) = Waiting(w) \ (IF u = << >> THEN {} ELSE {Head(u)})
  /\ u = << >> <=> Len(w) <= 1
  /\ u # << >> => Head(u) = w[2]

(* The next one is no longer parked. *)
LEMMA QueueShrinks ==
  ASSUME NEW w, NEW cur, NEW S, NEW nxt, NEW i, NEW u, HandsOver(w, cur, S, nxt, i, u)
  PROVE  HandedOver(w, S, nxt, i, u)
<1>0. /\ QueueOf(w, cur, S) /\ i \in S /\ w[1] = cur[i].id
      /\ \A j \in S \ {i} : nxt[j].id = cur[j].id /\ cur[j].id # cur[i].id
      /\ u = RestOf(w)
  BY DEF HandsOver
<1>1. w \in Seq(Nat) BY <1>0 DEF QueueOf
<1>2. PICK n \in Nat : n = Len(w) BY <1>1, LenProperties
<1>3. n > 0 /\ w # << >>
  <2>1. \E k \in 1..n : w[k] = cur[i].id BY <1>0, <1>2 DEF QueueOf
  <2> QED BY <1>1, <1>2, <2>1, EmptySeq
<1>4. u = Tail(w) BY <1>0, <1>3 DEF RestOf
<1>5. /\ u \in Seq(Nat) /\ Len(u) = n - 1
      /\ \A k \in 1..(n - 1) : u[k] = w[k + 1]
  BY <1>1, <1>2, <1>3, <1>4, HeadTailProperties
<1>6. \A k, m \in 1..n : w[k] = w[m] => k = m BY <1>0, <1>2 DEF QueueOf
<1>7. \A k, m \in 1..(n - 1) : u[k] = u[m] => k = m
  <2>1. \A k \in 1..(n - 1) : k + 1 \in 1..n BY <1>3
  <2>2. ASSUME NEW k \in 1..(n - 1), NEW m \in 1..(n - 1), u[k] = u[m] PROVE k = m
    <3>1. w[k + 1] = w[m + 1] BY <1>5, <2>2
    <3>2. k + 1 = m + 1 BY <1>6, <2>1, <3>1
    <3> QED BY <3>2
  <2> QED BY <2>2
<1>8. \A j \in S \ {i} : \E k \in 1..(n - 1) : u[k] = nxt[j].id
  <2> SUFFICES ASSUME NEW j \in S \ {i} PROVE \E k \in 1..(n - 1) : u[k] = nxt[j].id
    OBVIOUS
  <2>1. PICK k \in 1..n : w[k] = cur[j].id BY <1>0, <1>2 DEF QueueOf
  <2>2. k # 1 BY <1>0, <2>1
  <2>3. k - 1 \in 1..(n - 1) /\ (k - 1) + 1 = k BY <2>2
  <2>4. u[k - 1] = w[k] BY <1>5, <2>3
  <2> QED BY <1>0, <2>1, <2>3, <2>4
<1>9. \A k \in 1..(n - 1) : \E j \in S \ {i} : u[k] = nxt[j].id
  <2> SUFFICES ASSUME NEW k \in 1..(n - 1) PROVE \E j \in S \ {i} : u[k] = nxt[j].id
    OBVIOUS
  <2>1. k + 1 \in 1..n /\ 1 \in 1..n /\ k + 1 # 1 BY <1>3
  <2>2. PICK j \in S : w[k + 1] = cur[j].id BY <1>0, <1>2, <2>1 DEF QueueOf
  <2>3. j # i BY <1>0, <1>6, <2>1, <2>2
  <2> QED BY <1>0, <1>5, <2>2, <2>3
<1>10. QueueOf(u, nxt, S \ {i}) BY <1>5, <1>7, <1>8, <1>9 DEF QueueOf
<1>11. u = << >> <=> n - 1 = 0 BY <1>5, EmptySeq
<1>12. u # << >> => Head(u) = w[2] /\ n >= 2
  <2>1. u # << >> => Head(u) = u[1] BY <1>5, HeadTailProperties
  <2>2. u # << >> => n >= 2 BY <1>3, <1>11
  <2>3. n >= 2 => u[1] = w[2]
    <3>1. n >= 2 => 1 \in 1..(n - 1) OBVIOUS
    <3>2. 1 + 1 = 2 OBVIOUS
    <3> QED BY <1>5, <3>1, <3>2
  <2> QED BY <2>1, <2>2, <2>3
<1>13. Waiting(u) = Waiting(w) \ (IF u = << >> THEN {} ELSE {Head(u)})
  <2>1. CASE u = << >>
    <3>1. 2..n = {} /\ 2..(n - 1) = {} BY <1>3, <1>11, <2>1
    <3> QED BY <1>2, <1>5, <2>1, <3>1 DEF Waiting
  <2>2. CASE u # << >>
    <3>1. n >= 2 /\ Head(u) = w[2] BY <1>12, <2>2
    <3>2. ASSUME NEW x PROVE x \in Waiting(u) <=> x \in Waiting(w) /\ x # w[2]
      <4>1. ASSUME x \in Waiting(u) PROVE x \in Waiting(w) /\ x # w[2]
        <5>1. PICK k \in 2..(n - 1) : x = u[k] BY <1>5, <4>1 DEF Waiting
        <5>2. x = w[k + 1] /\ k + 1 \in 2..n /\ k + 1 \in 1..n /\ k + 1 # 2 /\ 2 \in 1..n
          BY <1>5, <3>1, <5>1
        <5> QED BY <1>2, <1>6, <5>2 DEF Waiting
      <4>2. ASSUME x \in Waiting(w), x # w[2] PROVE x \in Waiting(u)
        <5>1. PICK k \in 2..n : x = w[k] BY <1>2, <4>2 DEF Waiting
        <5>2. k # 2 BY <4>2, <5>1
        <5>3. k - 1 \in 2..(n - 1) /\ k - 1 \in 1..(n - 1) /\ (k - 1) + 1 = k BY <5>2
        <5>4. x = u[k - 1] BY <1>5, <5>1, <5>3
        <5> QED BY <1>5, <5>3, <5>4 DEF Waiting
      <4> QED BY <4>1, <4>2
    <3> QED BY <2>2, <3>1, <3>2
  <2> QED BY <2>1, <2>2
<1>14. u = << >> <=> Len(w) <= 1
  <2>1. n - 1 = 0 <=> n <= 1 BY <1>3
  <2> QED BY <1>2, <1>11, <2>1
<1> QED BY <1>3, <1>10, <1>12, <1>13, <1>14 DEF HandedOver

(* Steps that have nothing to do with the queue, and the first one. *)
LEMMA QueueStays ==
  ASSUME NEW w, NEW cur, NEW S, QueueOf(w, cur, S), NEW nxt,
         \A j \in S : nxt[j].id = cur[j].id
  PROVE  /\ QueueOf(w, nxt, S)
         /\ \A j \in S : cur[j].id \notin Waiting(w) => w # << >> /\ cur[j].id = w[1]
         /\ \A j \in S : w # << >> /\ Len(w) \in Nat /\ Len(w) > 0
<1>1. QueueOf(w, nxt, S) BY DEF QueueOf
<1>2. PICK n \in Nat : n = Len(w) BY LenProperties DEF QueueOf
<1>3. ASSUME NEW j \in S
      PROVE  /\ w # << >> /\ n > 0
             /\ cur[j].id \notin Waiting(w) => cur[j].id = w[1]
  <2>1. PICK k \in 1..n : w[k] = cur[j].id BY <1>2 DEF QueueOf
  <2>2. w # << >> BY <1>2, <2>1, EmptySeq
  <2>3. k = 1 \/ k \in 2..n OBVIOUS
  <2> QED BY <1>2, <2>1, <2>2, <2>3 DEF Waiting
<1> QED BY <1>1, <1>2, <1>3

-----------------------------------------------------------------------------
(* mutex_queue: a step of the task that has the mutex. *)
Passes(q, t) ==
  /\ DOMAIN q = {"waiters", "items", "cnt"} /\ ReadCnt(t.loc)
  /\ t.loc[1] \in LockedPlaces \ {"unlock"}
  /\ q.cnt = IF t.loc[1] \in CountedPlaces THEN 1 ELSE 0
Passed(q, b) ==
  /\ b.obj.waiters = q.waiters /\ DOMAIN b.obj = {"waiters", "items", "cnt"}
  /\ ReadCnt(b.loc) /\ b.loc[1] \in LockedPlaces \ {"locked"}
  /\ b.obj.cnt = IF b.loc[1] \in CountedPlaces THEN 1 ELSE 0
  /\ b.returned = FALSE /\ b.wait = NoFutex /\ b.parks = FALSE /\ b.unparks = {}

(* It keeps the mutex and counts itself. *)
LEMMA TokenPasses ==
  ASSUME NEW q, NEW t, NEW b, b = MutexQueueBody(q, t), Passes(q, t)
  PROVE  Passed(q, b)
<1>1. PICK e, cnt : e = t.loc[2].e /\ cnt = t.loc[2].cnt OBVIOUS
<1>2. ASSUME NEW obj, NEW place, NEW l, Simple(b, obj, place, l)
      PROVE  /\ b.obj = obj /\ b.loc[1] = place /\ b.loc[2] = l /\ b.returned = FALSE
             /\ b.wait = NoFutex /\ b.parks = FALSE /\ b.unparks = {}
  <2>1. b.loc = <<place, l>> BY <1>2 DEF Simple
  <2> QED BY <1>2, <2>1 DEF Simple
<1>3. \A x, y : [e |-> x, cnt |-> y].cnt = y OBVIOUS
<1>4. CASE t.loc[1] = "locked"
  <2>1. PICK obj, l : /\ obj = [q EXCEPT !.items = AfterItem(q, t.call)]
                      /\ l = [e |-> TakenItem(q, t.call), cnt |-> 0]
    OBVIOUS
  <2>2. Simple(b, obj, "++cnt", l) BY <1>4, <2>1, TokenSteps
  <2>3. obj.waiters = q.waiters /\ obj.cnt = q.cnt /\ DOMAIN obj = DOMAIN q
    BY <2>1 DEF Passes
  <2>9. /\ b.obj = obj /\ b.loc[1] = "++cnt" /\ b.loc[2] = l /\ b.returned = FALSE
        /\ b.wait = NoFutex /\ b.parks = FALSE /\ b.unparks = {}
    BY <1>2, <2>2
  <2> QED BY <1>4, <2>3, <2>9 DEF Passes, Passed, ReadCnt, LockedPlaces, CountedPlaces
<1>5. CASE t.loc[1] = "++cnt"
  <2>1. PICK l : l = [e |-> e, cnt |-> q.cnt] /\ l.cnt = q.cnt BY <1>3
  <2>2. Simple(b, q, "cnt+1", l) BY <1>1, <1>5, <2>1, TokenSteps
  <2>9. /\ b.obj = q /\ b.loc[1] = "cnt+1" /\ b.loc[2] = l /\ b.returned = FALSE
        /\ b.wait = NoFutex /\ b.parks = FALSE /\ b.unparks = {}
    BY <1>2, <2>2
  <2> QED BY <1>5, <2>1, <2>9 DEF Passes, Passed, ReadCnt, LockedPlaces, CountedPlaces
<1>6. CASE t.loc[1] = "cnt+1"
  <2>1. PICK obj, l : /\ obj = [q EXCEPT !.cnt = cnt + 1] /\ l = [e |-> e, cnt |-> 0]
    OBVIOUS
  <2>2. Simple(b, obj, "assert", l) BY <1>1, <1>6, <2>1, TokenSteps
  <2>3. cnt + 1 = 1 BY <1>1, <1>6 DEF Passes, ReadCnt
  <2>4. obj.waiters = q.waiters /\ obj.cnt = 1 /\ DOMAIN obj = DOMAIN q
    BY <2>1, <2>3 DEF Passes
  <2>9. /\ b.obj = obj /\ b.loc[1] = "assert" /\ b.loc[2] = l /\ b.returned = FALSE
        /\ b.wait = NoFutex /\ b.parks = FALSE /\ b.unparks = {}
    BY <1>2, <2>2
  <2> QED BY <1>6, <2>4, <2>9 DEF Passes, Passed, ReadCnt, LockedPlaces, CountedPlaces
<1>7. CASE t.loc[1] = "assert"
  <2>1. PICK l : l = [e |-> e, cnt |-> 0] OBVIOUS
  <2>2. Asserted(b, q, l) BY <1>1, <1>7, <2>1, TokenSteps
  <2>3. b.loc = <<"--cnt", l>> BY <2>2 DEF Asserted
  <2>4. b.loc[1] = "--cnt" BY <2>3
  <2> QED BY <1>7, <2>2, <2>4
       DEF Asserted, Passes, Passed, ReadCnt, LockedPlaces, CountedPlaces
<1>8. CASE t.loc[1] = "--cnt"
  <2>1. PICK l : l = [e |-> e, cnt |-> q.cnt] /\ l.cnt = q.cnt BY <1>3
  <2>2. Simple(b, q, "cnt-1", l) BY <1>1, <1>8, <2>1, TokenSteps
  <2>9. /\ b.obj = q /\ b.loc[1] = "cnt-1" /\ b.loc[2] = l /\ b.returned = FALSE
        /\ b.wait = NoFutex /\ b.parks = FALSE /\ b.unparks = {}
    BY <1>2, <2>2
  <2> QED BY <1>8, <2>1, <2>9 DEF Passes, Passed, ReadCnt, LockedPlaces, CountedPlaces
<1>9. CASE t.loc[1] = "cnt-1"
  <2>1. PICK obj, l : /\ obj = [q EXCEPT !.cnt = cnt - 1] /\ l = [e |-> e, cnt |-> 0]
    OBVIOUS
  <2>2. Simple(b, obj, "unlock", l) BY <1>1, <1>9, <2>1, TokenSteps
  <2>3. cnt - 1 = 0 BY <1>1, <1>9 DEF Passes, ReadCnt
  <2>4. obj.waiters = q.waiters /\ obj.cnt = 0 /\ DOMAIN obj = DOMAIN q
    BY <2>1, <2>3 DEF Passes
  <2>9. /\ b.obj = obj /\ b.loc[1] = "unlock" /\ b.loc[2] = l /\ b.returned = FALSE
        /\ b.wait = NoFutex /\ b.parks = FALSE /\ b.unparks = {}
    BY <1>2, <2>2
  <2> QED BY <1>9, <2>4, <2>9 DEF Passes, Passed, ReadCnt, LockedPlaces, CountedPlaces
<1> QED BY <1>4, <1>5, <1>6, <1>7, <1>8, <1>9 DEF Passes, LockedPlaces

(* The task of thread i before its step, t when it is resumed, and those   *)
(* of the other threads, in programs whose tasks wait for tokens.          *)
TokenTasks(cur, nxt, i, t, b, pk) ==
  /\ i \in Threads /\ t.id \in Nat
  /\ \A j \in Threads : cur[j].fstate = NoFutex /\ (IsReturned(cur[j]) => cur[j].loc[1] = "end")
  /\ IdsDiffer(cur) /\ Goes(cur, nxt, i, t, b)
  /\ \/ /\ IsReturned(cur[i]) /\ t.loc[1] = "entry"
        /\ \A j \in Threads : cur[j].id < t.id
     \/ IsCurrent(cur, i, t, pk)

(* What such a step leaves alone. *)
LEMMA TokenActs ==
  ASSUME NEW cur, NEW nxt, NEW i, NEW t, NEW b, NEW pk, TokenTasks(cur, nxt, i, t, b, pk)
  PROVE  /\ \/ /\ cur[i].loc = t.loc /\ cur[i].id = t.id
               /\ cur[i].thread = t.thread /\ t.id \notin pk
            \/ cur[i].loc[1] = "end" /\ t.loc[1] = "entry"
         /\ nxt[i].id = t.id /\ nxt[i].loc = b.loc /\ nxt[i].thread = t.thread
         /\ nxt[i].returned = b.returned /\ nxt[i].fstate = b.wait
         /\ \A j \in Threads : j # i =>
              /\ cur[j].id # t.id /\ nxt[j].id = cur[j].id /\ nxt[j].loc = cur[j].loc
              /\ nxt[j].thread = cur[j].thread /\ nxt[j].fstate = NoFutex
              /\ IsReturned(nxt[j]) => nxt[j].loc[1] = "end"
<1> USE DEF TokenTasks
<1>1. \/ cur[i].loc = t.loc /\ cur[i].id = t.id /\ cur[i].thread = t.thread /\ t.id \notin pk
      \/ cur[i].loc[1] = "end" /\ t.loc[1] = "entry"
  BY DEF IsCurrent
<1>2. \A j \in Threads : j # i => cur[j].id # t.id
  <2>1. CASE \A j \in Threads : cur[j].id < t.id BY <2>1
  <2>2. CASE IsCurrent(cur, i, t, pk)
    <3>1. cur[i].id = t.id /\ cur[i].id # -1 BY <2>2 DEF IsCurrent
    <3> QED BY <3>1 DEF IdsDiffer
  <2> QED BY <2>1, <2>2
<1>3. \A j \in Threads : j # i =>
        /\ nxt[j].id = cur[j].id /\ nxt[j].loc = cur[j].loc
        /\ nxt[j].thread = cur[j].thread /\ nxt[j].fstate = NoFutex
        /\ IsReturned(nxt[j]) => nxt[j].loc[1] = "end"
  BY DEF Goes, Calm, IsReturned
<1>4. /\ nxt[i].id = t.id /\ nxt[i].loc = b.loc /\ nxt[i].thread = t.thread
      /\ nxt[i].returned = b.returned /\ nxt[i].fstate = b.wait
  BY DEF Goes
<1> QED BY <1>1, <1>2, <1>3, <1>4

(* A step of a task keeps TokenInv. *)
LEMMA TokenIsKept ==
  ASSUME NEW q, NEW cur, NEW nxt, NEW i, NEW t, NEW b, NEW pk, NEW pk2,
         TokenInv(q, cur, pk), TokenTasks(cur, nxt, i, t, b, pk),
         t.loc[1] \in PlacesIn("mutex_queue", t.call.name), b = MutexQueueBody(q, t),
         pk2 = (pk \cup (IF b.parks THEN {t.id} ELSE {})) \ b.unparks
  PROVE  TokenInv(b.obj, nxt, pk2)
<1>1. PICK w, u, v : w = q.waiters /\ u = cur[i] /\ v = nxt[i] OBVIOUS
<1>2. /\ DOMAIN q = {"waiters", "items", "cnt"}
      /\ QueueOf(w, cur, Locking(cur)) /\ pk = Waiting(w)
      /\ \A j \in Locking(cur) :
           (cur[j].loc[1] # "locked" => cur[j].id = w[1]) /\ ReadCnt(cur[j].loc)
      /\ q.cnt = IF Counted(cur) = {} THEN 0 ELSE 1
  BY <1>1 DEF TokenInv
<1>3. /\ i \in Threads /\ t.id \in Nat
      /\ \/ u.loc = t.loc /\ u.id = t.id /\ t.id \notin pk
         \/ u.loc[1] = "end" /\ t.loc[1] = "entry"
      /\ v.id = t.id /\ v.loc = b.loc /\ v.returned = b.returned /\ v.fstate = b.wait
  <2>1. i \in Threads /\ t.id \in Nat BY DEF TokenTasks
  <2>2. v.id = t.id /\ v.loc = b.loc /\ v.returned = b.returned /\ v.fstate = b.wait
    BY <1>1, TokenActs
  <2>3. \/ u.loc = t.loc /\ u.id = t.id /\ t.id \notin pk
        \/ u.loc[1] = "end" /\ t.loc[1] = "entry"
    BY <1>1, TokenActs
  <2> QED BY <2>1, <2>2, <2>3
<1>4. \A j \in Threads : j # i =>
        /\ cur[j].id # t.id /\ nxt[j].id = cur[j].id /\ nxt[j].loc = cur[j].loc
        /\ nxt[j].fstate = NoFutex /\ (IsReturned(nxt[j]) => nxt[j].loc[1] = "end")
  BY TokenActs
<1>5. /\ i \in Locking(cur) <=> t.loc[1] \in LockedPlaces
      /\ i \in Counted(cur) <=> t.loc[1] \in CountedPlaces
      /\ i \in Locking(nxt) <=> b.loc[1] \in LockedPlaces
      /\ i \in Counted(nxt) <=> b.loc[1] \in CountedPlaces
  BY <1>1, <1>3 DEF Locking, Counted, LockedPlaces, CountedPlaces
<1>6. \A j : j # i =>
        /\ j \in Locking(nxt) <=> j \in Locking(cur)
        /\ j \in Counted(nxt) <=> j \in Counted(cur)
  BY <1>4 DEF Locking, Counted
<1>7. \A j \in Locking(cur) : j \in Threads BY DEF Locking
<1>8. ASSUME i \in Locking(cur)
      PROVE  /\ t.id = w[1] /\ w # << >> /\ t.loc = u.loc /\ u.id = t.id
             /\ \A j \in Locking(cur) : j # i => cur[j].loc[1] = "locked"
             /\ \A j \in Counted(cur) : j = i
  <2>1. t.loc = u.loc /\ u.id = t.id /\ t.id \notin pk
    BY <1>3, <1>5, <1>8 DEF LockedPlaces
  <2>2. w # << >> /\ u.id = w[1] BY <1>1, <1>2, <1>8, <2>1, QueueStays
  <2>3. \A j \in Locking(cur) : j # i => cur[j].loc[1] = "locked"
    BY <1>2, <1>4, <1>7, <2>1, <2>2
  <2>4. \A j \in Counted(cur) : j \in Locking(cur) /\ cur[j].loc[1] # "locked"
    BY DEF Counted, Locking, CountedPlaces, LockedPlaces
  <2> QED BY <2>1, <2>2, <2>3, <2>4
<1>9. ASSUME NEW w2, w2 = b.obj.waiters, DOMAIN b.obj = {"waiters", "items", "cnt"},
             b.wait = NoFutex, b.returned => b.loc[1] = "end",
             QueueOf(w2, nxt, Locking(nxt)), pk2 = Waiting(w2),
             \A j \in Locking(nxt) :
               (nxt[j].loc[1] # "locked" => nxt[j].id = w2[1]) /\ ReadCnt(nxt[j].loc),
             b.obj.cnt = IF Counted(nxt) = {} THEN 0 ELSE 1
      PROVE  TokenInv(b.obj, nxt, pk2)
  <2>1. \A j \in Threads :
          nxt[j].fstate = NoFutex /\ (IsReturned(nxt[j]) => nxt[j].loc[1] = "end")
    BY <1>1, <1>3, <1>4, <1>9 DEF IsReturned
  <2> QED BY <1>9, <2>1 DEF TokenInv
<1>10. CASE t.loc[1] \in {"entry", "return"}
  <2>1. /\ b.obj = q /\ b.wait = NoFutex /\ b.parks = FALSE /\ b.unparks = {}
        /\ b.loc[1] \in {"lock", "end"} /\ (b.returned => b.loc[1] = "end")
    <3>1. Simple(b, q, "lock", 0) \/ Ends(b, q, t.loc[2]) BY <1>10, TokenSteps
    <3>2. \/ Outcome(b, q, "lock", FALSE, NoFutex) \/ Outcome(b, q, "end", TRUE, NoFutex)
      BY <3>1, OutcomesOf
    <3> QED BY <3>2 DEF Outcome
  <2>2. i \notin Locking(cur) /\ i \notin Counted(cur) /\ i \notin Locking(nxt) /\ i \notin Counted(nxt)
    BY <1>5, <1>10, <2>1 DEF LockedPlaces, CountedPlaces
  <2>3. Locking(nxt) = Locking(cur) /\ Counted(nxt) = Counted(cur) BY <1>6, <2>2
  <2>4. \A j \in Locking(cur) : nxt[j].id = cur[j].id /\ nxt[j].loc = cur[j].loc
    BY <1>4, <1>7, <2>2
  <2>5. QueueOf(w, nxt, Locking(cur)) BY <1>2, <2>4, QueueStays
  <2>6. pk2 = Waiting(w) BY <1>2, <2>1
  <2>7. QueueOf(w, nxt, Locking(nxt)) BY <2>3, <2>5
  <2>8. \A j \in Locking(nxt) :
          (nxt[j].loc[1] # "locked" => nxt[j].id = w[1]) /\ ReadCnt(nxt[j].loc)
    BY <1>2, <2>3, <2>4
  <2> QED BY <1>1, <1>2, <1>9, <2>1, <2>3, <2>6, <2>7, <2>8
<1>11. CASE t.loc[1] = "lock"
  <2>1. Queued(b, q, t) BY <1>11, TokenSteps
  <2>2. PICK w2 : w2 = Append(w, t.id) OBVIOUS
  <2>3. /\ b.obj.waiters = w2 /\ b.obj.cnt = q.cnt /\ DOMAIN b.obj = DOMAIN q
        /\ b.loc = <<"locked", 0>> /\ b.returned = FALSE /\ b.wait = NoFutex
        /\ b.parks = (w # << >>) /\ b.unparks = {}
    BY <1>1, <1>2, <2>1, <2>2 DEF Queued
  <2>4. b.loc[1] = "locked" BY <2>3
  <2>5. i \notin Locking(cur) /\ i \notin Counted(cur) /\ i \in Locking(nxt) /\ i \notin Counted(nxt)
    BY <1>5, <1>11, <2>4 DEF LockedPlaces, CountedPlaces
  <2>6. Locking(nxt) = Locking(cur) \cup {i} /\ Counted(nxt) = Counted(cur) BY <1>6, <2>5
  <2>7. \A j \in Locking(cur) :
          nxt[j].id = cur[j].id /\ nxt[j].loc = cur[j].loc /\ cur[j].id # t.id
    BY <1>4, <1>7, <2>5
  <2>8. /\ QueueOf(w2, nxt, Locking(cur) \cup {i})
        /\ Waiting(w2) = Waiting(w) \cup (IF w # << >> THEN {t.id} ELSE {})
        /\ w # << >> => w2[1] = w[1]
    <3>1. nxt[i].id = t.id BY <1>1, <1>3
    <3>2. \A j \in Locking(cur) : nxt[j].id = cur[j].id BY <2>7
    <3>3. \A j \in Locking(cur) : cur[j].id # t.id BY <2>7
    <3>4. QueueOf(w, cur, Locking(cur)) /\ t.id \in Nat BY <1>2, <1>3
    <3>5. Joins(w, cur, Locking(cur), nxt, i, t.id, w2)
      BY <2>2, <3>1, <3>2, <3>3, <3>4 DEF Joins
    <3>6. Joined(w, Locking(cur), nxt, i, t.id, w2) BY <3>5, QueueGrows
    <3> QED BY <3>6 DEF Joined
  <2>9. pk2 = Waiting(w2) BY <1>2, <2>3, <2>8
  <2>10. \A j \in Locking(nxt) :
           (nxt[j].loc[1] # "locked" => nxt[j].id = w2[1]) /\ ReadCnt(nxt[j].loc)
    <3>1. nxt[i].loc[1] = "locked" BY <1>1, <1>3, <2>4
    <3>2. ReadCnt(nxt[i].loc) BY <3>1 DEF ReadCnt
    <3>3. \A j \in Locking(cur) : w # << >> BY <1>2, QueueStays
    <3> QED BY <1>2, <2>6, <2>7, <2>8, <3>1, <3>2, <3>3
  <2> QED BY <1>2, <1>9, <2>3, <2>6, <2>8, <2>9, <2>10
<1>12. CASE t.loc[1] \in LockedPlaces \ {"unlock"}
  <2>1. i \in Locking(cur) BY <1>5, <1>12
  <2>2. /\ t.id = w[1] /\ t.loc = u.loc /\ u.id = t.id
        /\ \A j \in Locking(cur) : j # i => cur[j].loc[1] = "locked"
        /\ \A j \in Counted(cur) : j = i
    BY <1>8, <2>1
  <2>3. q.cnt = IF t.loc[1] \in CountedPlaces THEN 1 ELSE 0
    BY <1>2, <1>5, <2>2
  <2>4. Passes(q, t) BY <1>1, <1>2, <1>12, <2>1, <2>2, <2>3 DEF Passes
  <2>5. Passed(q, b) BY <2>4, TokenPasses
  <2>6. /\ b.obj.waiters = w /\ DOMAIN b.obj = {"waiters", "items", "cnt"}
        /\ ReadCnt(b.loc) /\ b.loc[1] \in LockedPlaces
        /\ b.obj.cnt = IF b.loc[1] \in CountedPlaces THEN 1 ELSE 0
        /\ b.returned = FALSE /\ b.wait = NoFutex /\ b.parks = FALSE /\ b.unparks = {}
    BY <1>1, <2>5 DEF Passed
  <2>7. i \in Locking(nxt) BY <1>5, <2>6
  <2>8. Locking(nxt) = Locking(cur) BY <1>6, <2>1, <2>7
  <2>9. b.obj.cnt = IF Counted(nxt) = {} THEN 0 ELSE 1
    <3>1. \A j \in Counted(nxt) : j = i BY <1>6, <2>2
    <3> QED BY <1>5, <2>6, <3>1
  <2>10. \A j \in Locking(cur) : nxt[j].id = cur[j].id
    BY <1>1, <1>3, <1>4, <1>7, <2>2
  <2>11. QueueOf(w, nxt, Locking(cur)) BY <1>2, <2>10, QueueStays
  <2>12. pk2 = Waiting(w) BY <1>2, <2>6
  <2>13. \A j \in Locking(cur) :
           (nxt[j].loc[1] # "locked" => nxt[j].id = w[1]) /\ ReadCnt(nxt[j].loc)
    BY <1>1, <1>2, <1>3, <1>4, <1>7, <2>2, <2>6
  <2> QED BY <1>9, <2>6, <2>8, <2>9, <2>11, <2>12, <2>13
<1>13. CASE t.loc[1] = "unlock"
  <2>1. Unqueued(b, q, t) BY <1>13, TokenSteps
  <2>2. PICK w2 : w2 = RestOf(w) OBVIOUS
  <2>3. /\ b.obj.waiters = w2 /\ b.obj.cnt = q.cnt /\ DOMAIN b.obj = DOMAIN q
        /\ b.loc[1] \in {"end", "return"} /\ b.wait = NoFutex /\ b.parks = FALSE
        /\ b.returned => b.loc[1] = "end"
        /\ b.unparks = IF w2 = << >> THEN {} ELSE {Head(w2)}
    BY <1>1, <1>2, <2>1, <2>2 DEF Unqueued
  <2>4. i \in Locking(cur) /\ i \notin Counted(cur) /\ i \notin Locking(nxt) /\ i \notin Counted(nxt)
    BY <1>5, <1>13, <2>3 DEF LockedPlaces, CountedPlaces
  <2>5. Locking(nxt) = Locking(cur) \ {i} /\ Counted(nxt) = Counted(cur) BY <1>6, <2>4
  <2>6. /\ t.id = w[1] /\ u.id = t.id
        /\ \A j \in Locking(cur) : j # i => cur[j].loc[1] = "locked"
    BY <1>8, <2>4
  <2>7. \A j \in Locking(cur) \ {i} :
          nxt[j].id = cur[j].id /\ nxt[j].loc = cur[j].loc /\ cur[j].id # cur[i].id
    BY <1>1, <1>4, <1>7, <2>6
  <2>8. /\ QueueOf(w2, nxt, Locking(cur) \ {i})
        /\ Waiting(w2) = Waiting(w) \ (IF w2 = << >> THEN {} ELSE {Head(w2)})
    <3>1. w[1] = cur[i].id BY <1>1, <2>6
    <3>2. HandsOver(w, cur, Locking(cur), nxt, i, w2)
      BY <1>2, <2>2, <2>4, <2>7, <3>1 DEF HandsOver
    <3>3. HandedOver(w, Locking(cur), nxt, i, w2) BY <3>2, QueueShrinks
    <3> QED BY <3>3 DEF HandedOver
  <2>9. pk2 = Waiting(w2) BY <1>2, <2>3, <2>8
  <2>10. \A j \in Locking(nxt) :
           (nxt[j].loc[1] # "locked" => nxt[j].id = w2[1]) /\ ReadCnt(nxt[j].loc)
    BY <1>2, <2>5, <2>6, <2>7
  <2>11. /\ w2 = b.obj.waiters /\ DOMAIN b.obj = {"waiters", "items", "cnt"}
         /\ b.wait = NoFutex /\ (b.returned => b.loc[1] = "end")
    BY <1>2, <2>3
  <2>12. QueueOf(w2, nxt, Locking(nxt)) BY <2>5, <2>8
  <2>13. b.obj.cnt = IF Counted(nxt) = {} THEN 0 ELSE 1 BY <1>2, <2>3, <2>5
  <2> QED BY <1>9, <2>9, <2>10, <2>11, <2>12, <2>13
<1> QED BY <1>10, <1>11, <1>12, <1>13 DEF PlacesIn, LockedPlaces

-----------------------------------------------------------------------------
(* deadlock: nobody but the one that unlocks both mutexes is in both       *)
(* queues.                                                                 *)
LEMMA QueuesAreApart ==
  ASSUME NEW mu, NEW cur, NEW pk, NEW i, DeadlockInv(mu, cur, pk), IdsDiffer(cur),
         \A m \in 1..2 : i \in LockingOf(cur, m) /\ mu[m][1] = cur[i].id,
         cur[i].id \notin pk
  PROVE  /\ Waiting(mu[1]) \cap Waiting(mu[2]) = {}
         /\ \A j \in Threads : j # i => cur[j].loc[1] # "release"
<1>1. \A m \in 1..2 : QueueOf(mu[m], cur, LockingOf(cur, m)) BY DEF DeadlockInv
<1>2. \A m \in 1..2 : \A j \in LockingOf(cur, m) :
        j \in Threads /\ cur[j].id \in Nat /\ cur[j].id # -1
  <2>1. ASSUME NEW m \in 1..2, NEW j \in LockingOf(cur, m) PROVE cur[j].id \in Nat
    <3>1. PICK w : w = mu[m] OBVIOUS
    <3>2. QueueOf(w, cur, LockingOf(cur, m)) BY <1>1, <3>1
    <3>3. w \in Seq(Nat) BY <3>2 DEF QueueOf
    <3>4. \E k \in 1..Len(w) : w[k] = cur[j].id BY <3>2 DEF QueueOf
    <3> QED BY <3>3, <3>4
  <2>2. \A m \in 1..2 : \A j \in LockingOf(cur, m) : j \in Threads BY DEF LockingOf
  <2> QED BY <2>1, <2>2
<1>3. \A m \in 1..2 : \A j \in LockingOf(cur, m) : cur[j].id = cur[i].id => j = i
  <2>1. i \in Threads BY <1>2
  <2> QED BY <1>2, <2>1 DEF IdsDiffer
<1>4. ASSUME NEW j \in Threads, j # i PROVE cur[j].loc[1] # "release"
  <2> SUFFICES ASSUME cur[j].loc[1] = "release" PROVE FALSE OBVIOUS
  <2>1. PICK m \in 1..2 : m = FirstMutex(cur[j]) BY DEF FirstMutex
  <2>2. cur[j].id = mu[m][1] BY <2>1 DEF DeadlockInv
  <2>3. j \in LockingOf(cur, m) BY DEF LockingOf
  <2> QED BY <1>3, <1>4, <2>2, <2>3
<1>5. ASSUME NEW x, x \in Waiting(mu[1]), x \in Waiting(mu[2]) PROVE FALSE
  <2>1. ASSUME NEW m \in 1..2, x \in Waiting(mu[m])
        PROVE  \E j \in LockingOf(cur, m) : x = cur[j].id
    <3>1. PICK w : w = mu[m] OBVIOUS
    <3>2. QueueOf(w, cur, LockingOf(cur, m)) BY <1>1, <3>1
    <3>3. PICK n \in Nat : n = Len(w) BY <3>2, LenProperties DEF QueueOf
    <3>4. PICK k \in 2..n : x = w[k] BY <2>1, <3>1, <3>3 DEF Waiting
    <3>5. k \in 1..n OBVIOUS
    <3> QED BY <3>2, <3>3, <3>4, <3>5 DEF QueueOf
  <2>2. PICK j \in LockingOf(cur, 1) : x = cur[j].id BY <1>5, <2>1
  <2>3. PICK k \in LockingOf(cur, 2) : x = cur[k].id BY <1>5, <2>1
  <2>4. j = k
    <3>1. 1 \in 1..2 /\ 2 \in 1..2 OBVIOUS
    <3>2. j \in Threads /\ k \in Threads /\ cur[j].id # -1 BY <1>2, <2>2, <2>3, <3>1
    <3> QED BY <2>2, <2>3, <3>2 DEF IdsDiffer
  <2>5. j # i BY <1>5, <2>2 DEF DeadlockInv
  <2>6. j \in Threads BY <1>2
  <2>7. cur[j].loc[1] # "release" BY <1>4, <2>5, <2>6
  <2>8. FirstMutex(cur[j]) = 1 /\ FirstMutex(cur[k]) = 2 BY <2>4, <2>7 DEF LockingOf
  <2> QED BY <2>4, <2>8
<1> QED BY <1>4, <1>5

(* A step of a task keeps DeadlockInv. *)
LEMMA DeadlockIsKept ==
  ASSUME NEW mu, NEW cur, NEW nxt, NEW i, NEW t, NEW b, NEW pk, NEW pk2,
         DeadlockInv(mu, cur, pk), TokenTasks(cur, nxt, i, t, b, pk),
         t.loc[1] \in PlacesIn("deadlock", t.call.name), b = DeadlockBody(mu, t),
         pk2 = (pk \cup (IF b.parks THEN {t.id} ELSE {})) \ b.unparks
  PROVE  DeadlockInv(b.obj, nxt, pk2)
<1>1. PICK u, v, f : u = cur[i] /\ v = nxt[i] /\ f = FirstMutex(t) OBVIOUS
<1>2. /\ DOMAIN mu = 1..2 /\ pk = Waiting(mu[1]) \cup Waiting(mu[2])
      /\ \A m \in 1..2 : QueueOf(mu[m], cur, LockingOf(cur, m))
      /\ \A j \in Threads : cur[j].loc[1] = "release" =>
           mu[FirstMutex(cur[j])][1] = cur[j].id
  BY DEF DeadlockInv
<1>3. /\ i \in Threads /\ t.id \in Nat /\ f \in 1..2 /\ IdsDiffer(cur)
      /\ v.id = t.id /\ v.loc = b.loc /\ v.returned = b.returned /\ v.fstate = b.wait
      /\ FirstMutex(v) = f
  <2>1. i \in Threads /\ t.id \in Nat /\ IdsDiffer(cur) BY DEF TokenTasks
  <2>2. f \in 1..2 BY <1>1 DEF FirstMutex
  <2>3. /\ v.id = t.id /\ v.loc = b.loc /\ v.returned = b.returned /\ v.fstate = b.wait
        /\ v.thread = t.thread
    BY <1>1, TokenActs
  <2> QED BY <1>1, <2>1, <2>2, <2>3 DEF FirstMutex
<1>4. \/ u.loc = t.loc /\ u.id = t.id /\ FirstMutex(u) = f /\ t.id \notin pk
      \/ u.loc[1] = "end" /\ t.loc[1] = "entry"
  <2>1. \/ u.loc = t.loc /\ u.id = t.id /\ u.thread = t.thread /\ t.id \notin pk
        \/ u.loc[1] = "end" /\ t.loc[1] = "entry"
    BY <1>1, TokenActs
  <2> QED BY <1>1, <2>1 DEF FirstMutex
<1>5. \A j \in Threads : j # i =>
        /\ cur[j].id # t.id /\ nxt[j].id = cur[j].id /\ nxt[j].loc = cur[j].loc
        /\ nxt[j].fstate = NoFutex /\ (IsReturned(nxt[j]) => nxt[j].loc[1] = "end")
        /\ FirstMutex(nxt[j]) = FirstMutex(cur[j])
  <2>1. \A j \in Threads : j # i =>
          /\ cur[j].id # t.id /\ nxt[j].id = cur[j].id /\ nxt[j].loc = cur[j].loc
          /\ nxt[j].fstate = NoFutex /\ (IsReturned(nxt[j]) => nxt[j].loc[1] = "end")
          /\ nxt[j].thread = cur[j].thread
    BY TokenActs
  <2> QED BY <2>1 DEF FirstMutex
<1>6. \A m, j : j # i => (j \in LockingOf(nxt, m) <=> j \in LockingOf(cur, m))
  BY <1>5 DEF LockingOf
<1>7. \A m :
        /\ i \in LockingOf(cur, m) <=>
             (t.loc[1] = "second" /\ f = m) \/ t.loc[1] = "release"
        /\ i \in LockingOf(nxt, m) <=>
             (b.loc[1] = "second" /\ f = m) \/ b.loc[1] = "release"
  BY <1>1, <1>3, <1>4 DEF LockingOf
<1>8. \A m : \A j \in LockingOf(cur, m) : j \in Threads BY DEF LockingOf
<1>9. ASSUME NEW m \in 1..2, i \in LockingOf(cur, m)
      PROVE  mu[m] # << >> /\ mu[m][1] = t.id /\ u.id = t.id /\ t.id \notin pk
  <2>1. u.id = t.id /\ t.id \notin pk BY <1>4, <1>7, <1>9
  <2>2. t.id \notin Waiting(mu[m]) BY <1>2, <2>1
  <2>3. PICK w : w = mu[m] OBVIOUS
  <2>4. QueueOf(w, cur, LockingOf(cur, m)) BY <1>2, <2>3
  <2> QED BY <1>1, <1>9, <2>1, <2>2, <2>3, <2>4, QueueStays
<1>10. ASSUME DOMAIN b.obj = 1..2, b.wait = NoFutex, b.returned => b.loc[1] = "end",
              \A m \in 1..2 : QueueOf(b.obj[m], nxt, LockingOf(nxt, m)),
              pk2 = Waiting(b.obj[1]) \cup Waiting(b.obj[2]),
              \A j \in Threads : nxt[j].loc[1] = "release" =>
                b.obj[FirstMutex(nxt[j])][1] = nxt[j].id
       PROVE  DeadlockInv(b.obj, nxt, pk2)
  <2>1. \A j \in Threads :
          nxt[j].fstate = NoFutex /\ (IsReturned(nxt[j]) => nxt[j].loc[1] = "end")
    BY <1>1, <1>3, <1>5, <1>10 DEF IsReturned
  <2> QED BY <1>10, <2>1 DEF DeadlockInv
<1>11. CASE t.loc[1] = "entry"
  <2>1. Simple(b, mu, "first", 0) BY <1>11, DeadlockSteps
  <2>2. Outcome(b, mu, "first", FALSE, NoFutex) BY <2>1, OutcomesOf
  <2>3. /\ b.obj = mu /\ b.loc[1] = "first" /\ b.returned = FALSE /\ b.wait = NoFutex
        /\ b.parks = FALSE /\ b.unparks = {}
    BY <2>2 DEF Outcome
  <2>4. \A m : i \notin LockingOf(cur, m) /\ i \notin LockingOf(nxt, m)
    BY <1>7, <1>11, <2>3
  <2>5. \A m : LockingOf(nxt, m) = LockingOf(cur, m) BY <1>6, <2>4
  <2>6. ASSUME NEW m \in 1..2 PROVE QueueOf(mu[m], nxt, LockingOf(nxt, m))
    <3>1. \A j \in LockingOf(cur, m) : nxt[j].id = cur[j].id BY <1>5, <1>8, <2>4
    <3>2. QueueOf(mu[m], cur, LockingOf(cur, m)) BY <1>2
    <3> QED BY <2>5, <3>1, <3>2, QueueStays
  <2>7. pk2 = pk BY <2>3
  <2>8. \A j \in Threads : nxt[j].loc[1] = "release" => mu[FirstMutex(nxt[j])][1] = nxt[j].id
    BY <1>1, <1>2, <1>3, <1>5, <2>3
  <2> QED BY <1>2, <1>10, <2>3, <2>6, <2>7, <2>8
<1>12. ASSUME NEW m \in 1..2, NEW place, TokenLocks(b, mu, m, t, place),
              i \notin LockingOf(cur, m), i \in LockingOf(nxt, m),
              i \in LockingOf(nxt, 3 - m) <=> i \in LockingOf(cur, 3 - m),
              i \in LockingOf(cur, 3 - m) => u.id = t.id,
              place = "release" => f # m /\ mu[f][1] = t.id
       PROVE  DeadlockInv(b.obj, nxt, pk2)
  <2>0. PICK w, w2, o : w = mu[m] /\ w2 = Append(w, t.id) /\ o = 3 - m OBVIOUS
  <2>1. o \in 1..2 /\ o # m BY <2>0
  <2>2. /\ b.obj = [mu EXCEPT ![m] = w2] /\ b.loc = <<place, 0>> /\ b.returned = FALSE
        /\ b.wait = NoFutex /\ b.parks = (w # << >>) /\ b.unparks = {}
    BY <1>12, <2>0, <2>1 DEF TokenLocks
  <2>3. /\ DOMAIN b.obj = 1..2 /\ b.obj[m] = w2
        /\ \A k \in 1..2 : k # m => b.obj[k] = mu[k]
    BY <1>2, <2>2
  <2>4. b.loc[1] = place BY <2>2
  <2>5. LockingOf(nxt, m) = LockingOf(cur, m) \cup {i} BY <1>6, <1>12
  <2>6. LockingOf(nxt, o) = LockingOf(cur, o)
    <3>1. i \in LockingOf(nxt, o) <=> i \in LockingOf(cur, o) BY <1>12, <2>0, <2>1
    <3> QED BY <1>6, <3>1
  <2>7. Joined(w, LockingOf(cur, m), nxt, i, t.id, w2)
    <3>1. \A j \in LockingOf(cur, m) : nxt[j].id = cur[j].id /\ cur[j].id # t.id
      BY <1>5, <1>8, <1>12
    <3>2. nxt[i].id = t.id /\ QueueOf(w, cur, LockingOf(cur, m)) BY <1>1, <1>2, <1>3, <2>0, <2>1
    <3>3. Joins(w, cur, LockingOf(cur, m), nxt, i, t.id, w2)
      BY <1>3, <2>0, <2>1, <3>1, <3>2 DEF Joins
    <3> QED BY <3>3, QueueGrows
  <2>8. /\ QueueOf(w2, nxt, LockingOf(nxt, m))
        /\ Waiting(w2) = Waiting(w) \cup (IF w # << >> THEN {t.id} ELSE {})
        /\ w # << >> => w2[1] = w[1]
    BY <2>5, <2>7 DEF Joined
  <2>9. QueueOf(mu[o], nxt, LockingOf(nxt, o))
    <3>1. \A j \in LockingOf(cur, o) : nxt[j].id = cur[j].id
      BY <1>1, <1>3, <1>5, <1>8, <1>12, <2>0, <2>1
    <3>2. QueueOf(mu[o], cur, LockingOf(cur, o)) BY <1>2, <2>0, <2>1
    <3> QED BY <2>6, <3>1, <3>2, QueueStays
  <2>10. \A k \in 1..2 : k = m \/ k = o BY <2>0, <2>1
  <2>11. \A k \in 1..2 : QueueOf(b.obj[k], nxt, LockingOf(nxt, k))
    BY <2>0, <2>1, <2>3, <2>8, <2>9, <2>10
  <2>12. pk2 = Waiting(b.obj[1]) \cup Waiting(b.obj[2])
    <3>1. pk = Waiting(w) \cup Waiting(mu[o]) BY <1>2, <2>0, <2>1
    <3>2. pk2 = Waiting(w2) \cup Waiting(mu[o]) BY <2>2, <2>8, <3>1
    <3>3. pk2 = Waiting(b.obj[m]) \cup Waiting(b.obj[o]) BY <2>0, <2>1, <2>3, <3>2
    <3> QED BY <2>0, <2>1, <3>3
  <2>13. ASSUME NEW j \in Threads, nxt[j].loc[1] = "release"
         PROVE  b.obj[FirstMutex(nxt[j])][1] = nxt[j].id
    <3>1. CASE j = i
      <4>1. place = "release" /\ FirstMutex(nxt[j]) = f /\ nxt[j].id = t.id
        BY <1>1, <1>3, <2>4, <2>13, <3>1
      <4> QED BY <1>3, <1>12, <2>3, <4>1
    <3>2. CASE j # i
      <4>1. PICK k \in 1..2 : k = FirstMutex(cur[j]) BY DEF FirstMutex
      <4>2. /\ cur[j].loc[1] = "release" /\ FirstMutex(nxt[j]) = k
            /\ nxt[j].id = cur[j].id /\ mu[k][1] = cur[j].id
        BY <1>2, <1>5, <2>13, <3>2, <4>1
      <4>3. CASE k = m
        <5>1. j \in LockingOf(cur, m) BY <4>2 DEF LockingOf
        <5>2. QueueOf(w, cur, LockingOf(cur, m)) BY <1>2, <2>0, <2>1
        <5>3. w # << >> BY <5>1, <5>2, QueueStays
        <5> QED BY <2>0, <2>1, <2>3, <2>8, <4>2, <4>3, <5>3
      <4>4. CASE k # m BY <2>3, <4>2, <4>4
      <4> QED BY <4>3, <4>4
    <3> QED BY <3>1, <3>2
  <2> QED BY <1>10, <2>2, <2>3, <2>11, <2>12, <2>13
<1>13. CASE t.loc[1] = "first"
  <2>1. TokenLocks(b, mu, f, t, "second") BY <1>1, <1>13, DeadlockSteps
  <2>2. b.loc = <<"second", 0>> BY <2>1 DEF TokenLocks
  <2>3. b.loc[1] = "second" BY <2>2
  <2>4. f # 3 - f BY <1>3
  <2>5. i \notin LockingOf(cur, f) /\ i \notin LockingOf(cur, 3 - f) BY <1>7, <1>13
  <2>6. i \in LockingOf(nxt, f) /\ i \notin LockingOf(nxt, 3 - f) BY <1>7, <2>3, <2>4
  <2> QED BY <1>3, <1>12, <2>1, <2>5, <2>6
<1>14. CASE t.loc[1] = "second"
  <2>1. PICK m \in 1..2 : m = 3 - f /\ f = 3 - m /\ f # m BY <1>3
  <2>2. TokenLocks(b, mu, m, t, "release")
    BY <1>1, <1>14, <2>1, DeadlockSteps DEF SecondMutex
  <2>3. b.loc = <<"release", 0>> BY <2>2 DEF TokenLocks
  <2>4. b.loc[1] = "release" BY <2>3
  <2>5. i \in LockingOf(cur, f) /\ i \notin LockingOf(cur, m) BY <1>7, <1>14, <2>1
  <2>6. i \in LockingOf(nxt, f) /\ i \in LockingOf(nxt, m) BY <1>7, <2>4
  <2>7. mu[f][1] = t.id /\ u.id = t.id BY <1>3, <1>9, <2>5
  <2> QED BY <1>12, <2>1, <2>2, <2>5, <2>6, <2>7
<1>15. CASE t.loc[1] = "release"
  <2>1. Releases(b, mu) BY <1>15, DeadlockSteps
  <2>2. /\ b.obj = [m \in 1..2 |-> RestOf(mu[m])] /\ b.loc = <<"end", 0>>
        /\ b.returned = TRUE /\ b.wait = NoFutex /\ b.parks = FALSE
        /\ b.unparks = UnparkedByUnlock(mu)
    BY <2>1 DEF Releases
  <2>3. b.loc[1] = "end" BY <2>2
  <2>4. \A m \in 1..2 :
          i \in LockingOf(cur, m) /\ mu[m] # << >> /\ mu[m][1] = t.id
    BY <1>7, <1>9, <1>15
  <2>5. u.id = t.id /\ t.id \notin pk BY <1>9, <2>4
  <2>6. /\ Waiting(mu[1]) \cap Waiting(mu[2]) = {}
        /\ \A j \in Threads : j # i => cur[j].loc[1] # "release"
    <3>1. \A m \in 1..2 : i \in LockingOf(cur, m) /\ mu[m][1] = cur[i].id
      BY <1>1, <2>4, <2>5
    <3>2. cur[i].id \notin pk BY <1>1, <2>5
    <3> QED BY <1>3, <3>1, <3>2, QueuesAreApart
  <2>7. \A m : LockingOf(nxt, m) = LockingOf(cur, m) \ {i} BY <1>6, <1>7, <2>3
  <2>8. ASSUME NEW m \in 1..2, NEW w, w = mu[m], NEW w2, w2 = RestOf(w)
        PROVE  /\ QueueOf(w2, nxt, LockingOf(nxt, m))
               /\ Waiting(w2) = Waiting(w) \ (IF Len(w) > 1 THEN {w[2]} ELSE {})
               /\ Len(w) > 1 => w[2] \in Waiting(w)
    <3>1. QueueOf(w, cur, LockingOf(cur, m)) /\ i \in LockingOf(cur, m)
      BY <1>2, <2>4, <2>8
    <3>2. w[1] = cur[i].id BY <1>1, <2>4, <2>5, <2>8
    <3>3. \A j \in LockingOf(cur, m) \ {i} : nxt[j].id = cur[j].id /\ cur[j].id # cur[i].id
      BY <1>1, <1>5, <1>8, <2>5
    <3>4. HandsOver(w, cur, LockingOf(cur, m), nxt, i, w2)
      BY <2>8, <3>1, <3>2, <3>3 DEF HandsOver
    <3>5. /\ QueueOf(w2, nxt, LockingOf(cur, m) \ {i})
          /\ Waiting(w2) = Waiting(w) \ (IF w2 = << >> THEN {} ELSE {Head(w2)})
          /\ w2 = << >> <=> Len(w) <= 1
          /\ w2 # << >> => Head(w2) = w[2]
      <4>1. HandedOver(w, LockingOf(cur, m), nxt, i, w2) BY <3>4, QueueShrinks
      <4> QED BY <4>1 DEF HandedOver
    <3>6. PICK n \in Nat : n = Len(w) BY <3>1, LenProperties DEF QueueOf
    <3>7. n > 1 <=> ~(n <= 1) BY <3>6
    <3>8. Waiting(w2) = Waiting(w) \ (IF Len(w) > 1 THEN {w[2]} ELSE {})
      BY <3>5, <3>6, <3>7
    <3>9. Len(w) > 1 => w[2] \in Waiting(w)
      <4>1. n > 1 => 2 \in 2..n OBVIOUS
      <4> QED BY <3>6, <4>1 DEF Waiting
    <3> QED BY <2>7, <3>5, <3>8, <3>9
  <2>9. PICK w1, w2, r1, r2 : /\ w1 = mu[1] /\ w2 = mu[2]
                              /\ r1 = RestOf(w1) /\ r2 = RestOf(w2)
    OBVIOUS
  <2>10. /\ QueueOf(r1, nxt, LockingOf(nxt, 1)) /\ QueueOf(r2, nxt, LockingOf(nxt, 2))
         /\ Waiting(r1) = Waiting(w1) \ (IF Len(w1) > 1 THEN {w1[2]} ELSE {})
         /\ Waiting(r2) = Waiting(w2) \ (IF Len(w2) > 1 THEN {w2[2]} ELSE {})
         /\ Len(w1) > 1 => w1[2] \in Waiting(w1)
         /\ Len(w2) > 1 => w2[2] \in Waiting(w2)
    <3>1. 1 \in 1..2 /\ 2 \in 1..2 OBVIOUS
    <3> QED BY <2>8, <2>9, <3>1
  <2>11. b.obj[1] = r1 /\ b.obj[2] = r2 /\ DOMAIN b.obj = 1..2 BY <2>2, <2>9
  <2>12. pk2 = Waiting(r1) \cup Waiting(r2)
    <3>1. \A x : x \in b.unparks <=> (Len(w1) > 1 /\ x = w1[2]) \/ (Len(w2) > 1 /\ x = w2[2])
      <4>1. \A m : m \in 1..2 <=> m = 1 \/ m = 2 OBVIOUS
      <4> QED BY <2>2, <2>9, <4>1 DEF UnparkedByUnlock
    <3>2. pk = Waiting(w1) \cup Waiting(w2) /\ Waiting(w1) \cap Waiting(w2) = {}
      BY <1>2, <2>6, <2>9
    <3>3. pk2 = pk \ b.unparks BY <2>2
    <3> QED BY <2>10, <3>1, <3>2, <3>3
  <2>13. \A m \in 1..2 : QueueOf(b.obj[m], nxt, LockingOf(nxt, m))
    <3>1. \A m : m \in 1..2 <=> m = 1 \/ m = 2 OBVIOUS
    <3> QED BY <2>10, <2>11, <3>1
  <2>14. \A j \in Threads : nxt[j].loc[1] # "release"
    BY <1>1, <1>3, <1>5, <2>3, <2>6
  <2> QED BY <1>10, <2>2, <2>3, <2>11, <2>12, <2>13, <2>14
<1> QED BY <1>11, <1>13, <1>14, <1>15 DEF PlacesIn

-----------------------------------------------------------------------------
(* A step of a task keeps what is said of the object of its program. *)
LEMMA ProgramIsKept ==
  ASSUME NEW i \in Threads, NEW t, NEW b, Acts(i, t, b), Program \in ProvedPrograms,
         IdsDiffer(Current(threads)), DOMAIN status = Threads, ProgramInv(Current(threads))
  PROVE  DOMAIN status' = Threads /\ ProgramInv(Current(threads))'
<1>1. PICK cur, nxt : cur = Current(threads) /\ nxt = Current(threads') OBVIOUS
<1>2. /\ b = MethodOf(Program, Object, t) /\ t.call \in CallsOf(Program)
      /\ t.loc[1] \in PlacesIn(Program, t.call.name)
      /\ Program' = Program /\ Object' = b.obj /\ t.id \in Nat
      /\ Goes(cur, nxt, i, t, b)
      /\ IsNew(cur, status, i, t) \/ IsCurrent(cur, i, t, parked)
      /\ parked' = (parked \cup (IF b.parks THEN {t.id} ELSE {})) \ b.unparks
      /\ status' = IF b.returned THEN TargetOnFinished(status, t.call, i) ELSE status
  BY <1>1, ActTells DEF IsTask
<1>3. ASSUME \A j \in Threads :
               cur[j].fstate = NoFutex /\ (IsReturned(cur[j]) => cur[j].loc[1] = "end")
      PROVE  TokenTasks(cur, nxt, i, t, b, parked)
  <2>1. \/ /\ IsReturned(cur[i]) /\ t.loc[1] = "entry"
           /\ \A j \in Threads : cur[j].id < t.id
        \/ IsCurrent(cur, i, t, parked)
    BY <1>2 DEF IsNew
  <2> QED BY <1>1, <1>2, <1>3, <2>1 DEF TokenTasks
<1>4. ASSUME Program \in {"atomic_register", "mutex_queue", "deadlock"}
      PROVE  status' = status
  <2>1. t.call.of \in {"atomic_register", "mutex_queue", "deadlock"} BY <1>2, <1>4, CallsHaveNames
  <2>2. TargetOnFinished(status, t.call, i) = status
    BY <2>1 DEF TargetOnFinished, Mutexes, DefaultOnFinished
  <2> QED BY <1>2, <2>2
<1>5. CASE Program = "simple_mutex"
  <2>1. FutexInv(Object, Current(threads), status, parked) BY <1>5 DEF ProgramInv
  <2>2. /\ DOMAIN status' = Threads
        /\ FutexInv(Object', Current(threads'), status', parked')
    BY <1>5, <2>1, FutexIsKept
  <2> QED BY <1>2, <1>5, <2>2 DEF ProgramInv, Current
<1>6. CASE Program = "folly_rwspinlock"
  <2>1. SpinInv(Object, Current(threads), status, parked) BY <1>6 DEF ProgramInv
  <2>2. /\ DOMAIN status' = Threads
        /\ SpinInv(Object', Current(threads'), status', parked')
    BY <1>6, <2>1, SpinIsKept
  <2> QED BY <1>2, <1>6, <2>2 DEF ProgramInv, Current
<1>7. CASE Program = "mutex_queue"
  <2>1. TokenInv(Object, cur, parked) BY <1>1, <1>7 DEF ProgramInv
  <2>2. TokenTasks(cur, nxt, i, t, b, parked) BY <1>3, <2>1 DEF TokenInv
  <2>3. b = MutexQueueBody(Object, t) BY <1>2, <1>7 DEF MethodOf
  <2>4. TokenInv(b.obj, nxt, parked') BY <1>2, <1>7, <2>1, <2>2, <2>3, TokenIsKept
  <2>5. TokenInv(Object', Current(threads'), parked') BY <1>1, <1>2, <2>4
  <2> QED BY <1>2, <1>4, <1>7, <2>5 DEF ProgramInv, Current
<1>8. CASE Program = "deadlock"
  <2>1. DeadlockInv(Object, cur, parked) BY <1>1, <1>8 DEF ProgramInv
  <2>2. TokenTasks(cur, nxt, i, t, b, parked) BY <1>3, <2>1 DEF DeadlockInv
  <2>3. b = DeadlockBody(Object, t) BY <1>2, <1>8 DEF MethodOf
  <2>4. DeadlockInv(b.obj, nxt, parked') BY <1>2, <1>8, <2>1, <2>2, <2>3, DeadlockIsKept
  <2>5. DeadlockInv(Object', Current(threads'), parked') BY <1>1, <1>2, <2>4
  <2> QED BY <1>2, <1>4, <1>8, <2>5 DEF ProgramInv, Current
<1>9. CASE Program = "atomic_register"
  <2>1. PICK x : x = Object /\ RegisterInv(x, cur, parked) BY <1>1, <1>9 DEF ProgramInv
  <2>2. b = AtomicRegisterBody(x, t) /\ t.loc[1] \in {"entry", "x"}
    BY <1>2, <1>9, <2>1 DEF MethodOf, PlacesIn
  <2>3. \/ Simple(b, x, "x", 0) \/ Ends(b, x + 1, -1) \/ Ends(b, x, x)
    BY <2>2, RegisterSteps
  <2>4. /\ b.obj \in Int /\ b.wait = NoFutex /\ b.parks = FALSE /\ b.unparks = {}
    BY <2>1, <2>3 DEF RegisterInv, Simple, Ends
  <2>5. \A j \in Threads : nxt[j].fstate = NoFutex
    BY <1>2, <2>1, <2>4 DEF Goes, Calm, RegisterInv
  <2>6. parked' = {} BY <1>2, <2>1, <2>4 DEF RegisterInv
  <2>7. RegisterInv(Object', Current(threads'), parked')
    BY <1>1, <1>2, <2>4, <2>5, <2>6 DEF RegisterInv
  <2> QED BY <1>2, <1>4, <1>9, <2>7 DEF ProgramInv, Current
<1> QED BY <1>5, <1>6, <1>7, <1>8, <1>9 DEF ProvedPrograms, CorrectPrograms

(* A fresh object of each program, with no task and no token. *)
LEMMA FreshIsKept ==
  ASSUME NEW o, NEW cur, NEW st, st = ZeroStatus,
         cur = Current([i \in Threads |-> << >>])
  PROVE  /\ DOMAIN st = Threads
         /\ o = 0 => FutexInv(o, cur, st, {}) /\ SpinInv(o, cur, st, {})
                       /\ RegisterInv(o, cur, {})
         /\ o = EmptyMutexQueue => TokenInv(o, cur, {})
         /\ o = NewMutexes => DeadlockInv(o, cur, {})
<1>1. DOMAIN st = Threads /\ \A i \in Threads : st[i] = 0 BY DEF ZeroStatus
<1>2. \A i \in Threads : cur[i] = NoTask BY EmptySeq DEF Current, TaskOf
<1>3. /\ NoTask.call.name = "none" /\ NoTask.loc[1] = "end" /\ NoTask.fstate = NoFutex
      /\ IsReturned(NoTask) /\ NoTask.id = -1
  BY DEF NoTask, IsReturned
<1>4. FutexInv(0, cur, st, {})
  BY <1>1, <1>2, <1>3 DEF FutexInv, FutexTask, HasMutex
<1>5. SpinInv(0, cur, st, {})
  <2>1. Having(st, WRITER) = {} /\ Having(st, READER) = {}
    BY <1>1 DEF Having, WRITER, READER
  <2>2. 0 = Cardinality(Having(st, WRITER)) + 4 * Cardinality(Having(st, READER))
    BY <2>1, FS_EmptySet
  <2> QED BY <1>1, <1>2, <1>3, <2>2 DEF SpinInv, SpinTask, FREE, WRITER
<1>6. << >> \in Seq(Nat) /\ Len(<< >>) = 0 BY EmptySeq
<1>7. Waiting(<< >>) = {} BY <1>6 DEF Waiting
<1>8. QueueOf(<< >>, cur, {}) BY <1>6 DEF QueueOf
<1>9. ASSUME o = EmptyMutexQueue PROVE TokenInv(o, cur, {})
  <2>1. /\ DOMAIN o = {"waiters", "items", "cnt"} /\ o.waiters = << >> /\ o.cnt = 0
    BY <1>9 DEF EmptyMutexQueue
  <2>2. Locking(cur) = {} /\ Counted(cur) = {}
    BY <1>2, <1>3 DEF Locking, Counted, LockedPlaces, CountedPlaces
  <2> QED BY <1>2, <1>3, <1>7, <1>8, <2>1, <2>2 DEF TokenInv
<1>10. ASSUME o = NewMutexes PROVE DeadlockInv(o, cur, {})
  <2>1. DOMAIN o = 1..2 /\ o[1] = << >> /\ o[2] = << >> BY <1>10 DEF NewMutexes
  <2>2. \A m \in 1..2 : m = 1 \/ m = 2 OBVIOUS
  <2>3. \A m : LockingOf(cur, m) = {} BY <1>2, <1>3 DEF LockingOf
  <2>4. \A m \in 1..2 : QueueOf(o[m], cur, LockingOf(cur, m))
    BY <1>8, <2>1, <2>2, <2>3
  <2> QED BY <1>2, <1>3, <1>7, <2>1, <2>4 DEF DeadlockInv
<1>11. RegisterInv(0, cur, {}) BY <1>2, <1>3 DEF RegisterInv
<1> QED BY <1>1, <1>4, <1>5, <1>9, <1>10, <1>11

(* The objects the programs begin with. *)
LEMMA FreshObjects ==
  /\ FreshObj("simple_mutex")[2] = 0 /\ FreshObj("folly_rwspinlock")[2] = 0
  /\ FreshObj("atomic_register")[2] = 0
  /\ FreshObj("mutex_queue")[2] = EmptyMutexQueue /\ FreshObj("deadlock")[2] = NewMutexes
<1>1. FreshObj("simple_mutex") = <<"simple_mutex", 0>>
  BY DEF FreshObj, Mutexes, Registers
<1>2. FreshObj("folly_rwspinlock") = <<"folly_rwspinlock", 0>>
  BY DEF FreshObj, Mutexes, Registers
<1>3. FreshObj("mutex_queue") = <<"mutex_queue", EmptyMutexQueue>>
  BY DEF FreshObj, Mutexes, Registers
<1>4. FreshObj("deadlock") = <<"deadlock", NewMutexes>>
  BY DEF FreshObj, Mutexes, Registers
<1>5. FreshObj("atomic_register") = <<"atomic_register", 0>>
  BY DEF FreshObj, Mutexes, Registers
<1> QED BY <1>1, <1>2, <1>3, <1>4, <1>5

(* The state a round begins in. *)
LEMMA FreshRound ==
  ASSUME NEW program \in ProvedPrograms, NEW o, o = FreshObj(program)[2], NEW st,
         st = ZeroStatus, NEW th, th = [i \in Threads |-> << >>], NEW pk, pk = {}
  PROVE  /\ DOMAIN st = Threads
         /\ program = "simple_mutex" => FutexInv(o, Current(th), st, pk)
         /\ program = "folly_rwspinlock" => SpinInv(o, Current(th), st, pk)
         /\ program = "atomic_register" => RegisterInv(o, Current(th), pk)
         /\ program = "mutex_queue" => TokenInv(o, Current(th), pk)
         /\ program = "deadlock" => DeadlockInv(o, Current(th), pk)
<1>1. PICK cur : cur = Current(th) OBVIOUS
<1>2. /\ DOMAIN st = Threads
      /\ o = 0 => FutexInv(o, cur, st, {}) /\ SpinInv(o, cur, st, {})
                    /\ RegisterInv(o, cur, {})
      /\ o = EmptyMutexQueue => TokenInv(o, cur, {})
      /\ o = NewMutexes => DeadlockInv(o, cur, {})
  BY <1>1, FreshIsKept
<1> QED BY <1>1, <1>2, FreshObjects

(* Every step keeps the invariant of the object. *)
LEMMA LocksAreKept ==
  ASSUME NEW programs, RunsPrograms(programs), programs \subseteq ProvedPrograms,
         StateInv, HistoryInv, PlaceInv(programs), LockInv, [Next]_vars
  PROVE  LockInv'
<1>1. Program \in programs /\ Program \in ProvedPrograms BY DEF PlaceInv
<1>2. CASE StartTask \/ ResumeTask
  <2>1. /\ phase = "run" /\ phase' = "run"
        /\ \E i \in Threads : \E t, b : Acts(i, t, b)
    BY <1>2, RoundActs
  <2>2. PICK i \in Threads : \E t, b : Acts(i, t, b) BY <2>1
  <2>6. PICK t, b : Acts(i, t, b) BY <2>2
  <2>3. IdsDiffer(Current(threads)) BY <2>1, CurrentIds
  <2>4. DOMAIN status = Threads /\ ProgramInv(Current(threads)) BY <2>1 DEF LockInv
  <2>5. DOMAIN status' = Threads /\ ProgramInv(Current(threads))'
    BY <1>1, <2>6, <2>3, <2>4, ProgramIsKept
  <2> QED BY <2>1, <2>5 DEF LockInv
<1>3. CASE Abort \/ CheckerThrows BY <1>3 DEF Abort, CheckerThrows, LockInv
<1>4. CASE FinishRound \/ ReportRound BY <1>4 DEF FinishRound, ReportRound, LockInv
<1>5. CASE RunReturns \/ Destroyed BY <1>5 DEF RunReturns, Destroyed, LockInv
<1>6. CASE TerminateTasks BY <1>6 DEF TerminateTasks, schedulerVars, LockInv
<1>7. CASE StartNextRound
  <2>1. /\ state' = FreshObj(Program) /\ status' = ZeroStatus /\ parked' = {}
        /\ threads' = [i \in Threads |-> << >>]
    BY <1>1, <1>7, ObjectsAreNamed DEF StartNextRound, ResetObjects, RunsPrograms, Program
  <2>2. Program' = Program BY <2>1, ObjectsAreNamed DEF Program
  <2>3. Object' = FreshObj(Program)[2] BY <2>1 DEF Object
  <2>4. /\ DOMAIN status' = Threads
        /\ Program = "simple_mutex" => FutexInv(Object', Current(threads'), status', parked')
        /\ Program = "folly_rwspinlock" =>
             SpinInv(Object', Current(threads'), status', parked')
        /\ Program = "atomic_register" => RegisterInv(Object', Current(threads'), parked')
        /\ Program = "mutex_queue" => TokenInv(Object', Current(threads'), parked')
        /\ Program = "deadlock" => DeadlockInv(Object', Current(threads'), parked')
    BY <1>1, <2>1, <2>3, FreshRound
  <2> QED BY <2>2, <2>4 DEF LockInv, ProgramInv, Current
<1>8. CASE Ended \/ UNCHANGED vars
  <2>1. UNCHANGED vars BY <1>8 DEF Ended
  <2>2. /\ phase' = phase /\ state' = state /\ status' = status /\ parked' = parked
        /\ threads' = threads
    BY <2>1 DEF vars, strategyVars, baseVars, schedulerVars
  <2> QED BY <2>2 DEF LockInv, ProgramInv, Program, Object, Current
<1> QED BY <1>2, <1>3, <1>4, <1>5, <1>6, <1>7, <1>8 DEF Next

(* A run of the programs satisfies all the invariants. *)
LEMMA ProgramsRun ==
  ASSUME NEW programs, RunsPrograms(programs), programs \subseteq ProvedPrograms
  PROVE  Spec => [](StateInv /\ HistoryInv /\ PlaceInv(programs) /\ LockInv)
<1>1. Init => PlaceInv(programs) /\ LockInv
  <2> SUFFICES ASSUME Init PROVE PlaceInv(programs) /\ LockInv OBVIOUS
  <2>1. PlaceInv(programs) BY PlacesAtFirst
  <2>2. /\ state \in NewObjs /\ status = ZeroStatus /\ parked = {}
        /\ threads = [i \in Threads |-> << >>]
    BY DEF Init, InitStrategy, InitBase, RunsPrograms
  <2>3. Program \in ProvedPrograms BY <2>1 DEF PlaceInv
  <2>4. state = FreshObj(Program) BY <2>2, ObjectsAreNamed DEF Program
  <2>5. Object = FreshObj(Program)[2] BY <2>4 DEF Object
  <2>6. /\ DOMAIN status = Threads
        /\ Program = "simple_mutex" => FutexInv(Object, Current(threads), status, parked)
        /\ Program = "folly_rwspinlock" => SpinInv(Object, Current(threads), status, parked)
        /\ Program = "atomic_register" => RegisterInv(Object, Current(threads), parked)
        /\ Program = "mutex_queue" => TokenInv(Object, Current(threads), parked)
        /\ Program = "deadlock" => DeadlockInv(Object, Current(threads), parked)
    BY <2>2, <2>3, <2>5, FreshRound
  <2> QED BY <2>1, <2>6 DEF LockInv, ProgramInv
<1>2. StateInv /\ HistoryInv /\ (PlaceInv(programs) /\ LockInv) /\ [Next]_vars
        => (PlaceInv(programs) /\ LockInv)'
  BY PlacesAreKept, LocksAreKept
<1>3. Spec => [](StateInv /\ HistoryInv) BY InvariantHolds
<1> QED BY <1>1, <1>2, <1>3, PTL DEF Spec

-----------------------------------------------------------------------------
(* A set without two distinct elements. *)
LEMMA AtMostOne ==
  ASSUME NEW S, \A x, y \in S : x = y
  PROVE  Cardinality(S) <= 1
<1>1. CASE S = {} BY <1>1, FS_EmptySet
<1>2. CASE S # {}
  <2>1. PICK x : x \in S BY <1>2
  <2>2. S = {x} BY <2>1
  <2>3. Cardinality({x}) = 1 BY FS_Singleton
  <2> QED BY <2>2, <2>3
<1> QED BY <1>1, <1>2

(* The threads that hold a lock are known from their current tasks. *)
LEMMA HoldersAreCurrent ==
  ASSUME StateInv, NEW lock, NEW unlock, "none" \notin {lock, unlock}
  PROVE  Holders(lock, unlock) =
           {i \in Threads :
              \/ /\ Current(threads)[i].call.name = lock
                 /\ Current(threads)[i].loc[1] \in {"acquired", "end"}
              \/ /\ Current(threads)[i].call.name = unlock
                 /\ Current(threads)[i].loc[1] \in {"entry", "unlock", "bits_"}}
<1>1. ASSUME NEW i \in Threads
      PROVE  /\ threads[i] # << >> => Last(threads[i]) = Current(threads)[i]
             /\ threads[i] = << >> => Current(threads)[i] = NoTask
  <2>1. PICK q, n : q = threads[i] /\ n = Len(q) OBVIOUS
  <2>2. n \in Nat /\ (q = << >> <=> n = 0) BY <2>1, EmptyQueue DEF StateInv, AreQueues
  <2> QED BY <2>1, <2>2 DEF Current, TaskOf, Last
<1>2. NoTask.call.name = "none" BY DEF NoTask
<1> QED BY <1>1, <1>2 DEF Holders

(* simple_mutex never has two owners and folly_rwspinlock never a writer   *)
(* beside another holder, for any number of threads, any length of a round *)
(* and each strategy: a lock that TestStatus of the verifiers learns of    *)
(* only when its task returns cannot be unlocked by anybody else, and the  *)
(* word of the lock tells its holders.                                     *)
THEOREM LocksAreOwned ==
  ASSUME NEW programs, RunsPrograms(programs), programs \subseteq ProvedPrograms
  PROVE  Spec => []LockIsOwned
<1>1. ASSUME StateInv, LockInv PROVE LockIsOwned
  <2> SUFFICES ASSUME phase = "run" PROVE LockIsOwned BY DEF LockIsOwned
  <2>1. PICK cur, st : cur = Current(threads) /\ st = status OBVIOUS
  <2>2. ProgramInv(cur) BY <1>1, <2>1 DEF LockInv
  <2>3. ASSUME Program = "simple_mutex", NEW owners, owners = Holders("Lock", "Unlock")
        PROVE  Cardinality(owners) <= 1 /\ (Object = 0) = (owners = {})
    <3>1. FutexInv(Object, cur, st, parked) BY <2>1, <2>2, <2>3 DEF ProgramInv
    <3>2. owners = {i \in Threads : HasMutex(cur[i])}
      <4>1. \A i \in Threads :
              HasMutex(cur[i]) <=>
                \/ cur[i].call.name = "Lock" /\ cur[i].loc[1] \in {"acquired", "end"}
                \/ cur[i].call.name = "Unlock"
                     /\ cur[i].loc[1] \in {"entry", "unlock", "bits_"}
        BY <3>1 DEF FutexInv, FutexTask, HasMutex
      <4>2. owners =
              {i \in Threads :
                 \/ cur[i].call.name = "Lock" /\ cur[i].loc[1] \in {"acquired", "end"}
                 \/ cur[i].call.name = "Unlock"
                      /\ cur[i].loc[1] \in {"entry", "unlock", "bits_"}}
        BY <1>1, <2>1, <2>3, HoldersAreCurrent
      <4> QED BY <4>1, <4>2
    <3>3. \A i, j \in owners : i = j BY <3>1, <3>2 DEF FutexInv
    <3>4. (Object = 0) = (owners = {}) BY <3>1, <3>2 DEF FutexInv
    <3>5. Cardinality(owners) <= 1 BY <3>3, AtMostOne
    <3> QED BY <3>4, <3>5
  <2>4. ASSUME Program = "folly_rwspinlock", NEW writers, writers = Holders("lock", "unlock"),
               NEW readers, readers = Holders("lock_shared", "unlock_shared")
        PROVE  /\ Object = Cardinality(writers) + 4 * Cardinality(readers)
               /\ writers # {} => Cardinality(writers) = 1 /\ readers = {}
    <3>1. SpinInv(Object, cur, st, parked) BY <2>1, <2>2, <2>4 DEF ProgramInv
    <3>2. ASSUME NEW lock, NEW unlock, NEW s, "none" \notin {lock, unlock},
                 \/ lock = "lock" /\ unlock = "unlock" /\ s = WRITER
                 \/ lock = "lock_shared" /\ unlock = "unlock_shared" /\ s = READER
          PROVE  Holders(lock, unlock) = Having(st, s)
      <4>1. \A i \in Threads :
              st[i] = s <=>
                \/ cur[i].call.name = lock /\ cur[i].loc[1] \in {"acquired", "end"}
                \/ cur[i].call.name = unlock /\ cur[i].loc[1] \in {"entry", "unlock", "bits_"}
        BY <3>1, <3>2 DEF SpinInv, SpinTask, FREE, WRITER, READER
      <4>2. Holders(lock, unlock) =
              {i \in Threads :
                 \/ cur[i].call.name = lock /\ cur[i].loc[1] \in {"acquired", "end"}
                 \/ cur[i].call.name = unlock
                      /\ cur[i].loc[1] \in {"entry", "unlock", "bits_"}}
        BY <1>1, <2>1, <3>2, HoldersAreCurrent
      <4> QED BY <4>1, <4>2 DEF Having
    <3>3. writers = Having(st, WRITER) /\ readers = Having(st, READER)
      BY <2>4, <3>2
    <3>4. Object = Cardinality(writers) + 4 * Cardinality(readers)
      BY <3>1, <3>3 DEF SpinInv
    <3>5. BitsTell(Object, st)
      <4>1. \A j \in Threads : st[j] \in {FREE, WRITER, READER}
        BY <3>1 DEF SpinInv, SpinTask
      <4> QED BY <3>1, <4>1 DEF BitsTell, SpinInv
    <3>6. writers # {} => Cardinality(writers) = 1 /\ readers = {}
      BY <3>3, <3>5, BitsCases, FS_Singleton
    <3> QED BY <3>4, <3>6
  <2> QED BY <2>3, <2>4 DEF LockIsOwned
<1>2. Spec => [](StateInv /\ HistoryInv /\ PlaceInv(programs) /\ LockInv)
  BY ProgramsRun
<1> QED BY <1>1, <1>2, PTL

(* assert(cnt == 1) of mutex_queue.cpp cannot fail while rounds are run:   *)
(* of the tasks that have called Lock only the first one of the queue may  *)
(* go on, and Unlock hands the mutex to exactly one.                       *)
THEOREM SectionsAreExclusive ==
  ASSUME NEW programs, RunsPrograms(programs), programs \subseteq ProvedPrograms
  PROVE  Spec => []SectionIsExclusive
<1>1. ASSUME StateInv, HistoryInv, LockInv PROVE SectionIsExclusive
  <2> SUFFICES ASSUME phase = "run", Program = "mutex_queue" PROVE SectionIsExclusive
    BY DEF SectionIsExclusive
  <2>1. PICK cur, w : cur = Current(threads) /\ w = Object.waiters OBVIOUS
  <2>2. TokenInv(Object, cur, parked) BY <1>1, <2>1 DEF LockInv, ProgramInv
  <2>3. IdsDiffer(cur) BY <1>1, <2>1, CurrentIds
  <2>4. PICK inside :
          inside = {i \in Threads :
            /\ threads[i] # << >>
            /\ LET t == Last(threads[i])
               IN \/ t.loc[1] = "locked" /\ ~IsParked(t, parked)
                  \/ t.loc[1] \in {"++cnt", "cnt+1", "assert", "--cnt", "cnt-1", "unlock"}}
    OBVIOUS
  <2>5. ASSUME NEW i \in inside
        PROVE  i \in Threads /\ cur[i].id = w[1] /\ cur[i].id # -1
    <3>1. i \in Threads /\ threads[i] # << >> BY <2>4
    <3>2. Last(threads[i]) = cur[i]
      <4>1. PICK q, n : q = threads[i] /\ n = Len(q) OBVIOUS
      <4>2. n \in Nat /\ (q = << >> <=> n = 0)
        BY <1>1, <3>1, <4>1, EmptyQueue DEF StateInv, AreQueues
      <4> QED BY <2>1, <3>1, <4>1, <4>2 DEF Current, TaskOf, Last
    <3>3. \/ cur[i].loc[1] = "locked" /\ ~IsParked(cur[i], parked)
          \/ cur[i].loc[1] \in {"++cnt", "cnt+1", "assert", "--cnt", "cnt-1", "unlock"}
      BY <2>4, <3>2
    <3>4. i \in Locking(cur) BY <3>1, <3>3 DEF Locking, LockedPlaces
    <3>5. QueueOf(w, cur, Locking(cur)) /\ parked = Waiting(w) BY <2>1, <2>2 DEF TokenInv
    <3>6. cur[i].id = w[1]
      <4>1. CASE cur[i].loc[1] = "locked"
        <5>1. cur[i].id \notin Waiting(w) BY <3>3, <3>5, <4>1 DEF IsParked
        <5> QED BY <3>4, <3>5, <5>1, QueueStays
      <4>2. CASE cur[i].loc[1] # "locked" BY <2>1, <2>2, <3>4, <4>2 DEF TokenInv
      <4> QED BY <4>1, <4>2
    <3>7. cur[i].id # -1
      <4>1. w \in Seq(Nat) /\ \E k \in 1..Len(w) : w[k] = cur[i].id
        BY <3>4, <3>5 DEF QueueOf
      <4> QED BY <4>1
    <3> QED BY <3>1, <3>6, <3>7
  <2>6. \A i, j \in inside : i = j BY <2>3, <2>5 DEF IdsDiffer
  <2>7. Cardinality(inside) <= 1 BY <2>6, AtMostOne
  <2> QED BY <2>4, <2>7 DEF SectionIsExclusive
<1>2. Spec => [](StateInv /\ HistoryInv /\ PlaceInv(programs) /\ LockInv)
  BY ProgramsRun
<1> QED BY <1>1, <1>2, PTL

-----------------------------------------------------------------------------
(* When a strategy passes over a thread. *)
LEMMA SkippedTells ==
  ASSUME StateInv, NEW i \in Threads, Skipped(i), NEW t, t = Current(threads)[i]
  PROVE  /\ threads[i] # << >> /\ Last(threads[i]) = t
         /\ t.id \in parked \/ (t.fstate # NoFutex /\ t.fstate = Word(state))
<1>1. PICK q, n : q = threads[i] /\ n = Len(q) OBVIOUS
<1>2. n \in Nat /\ (q = << >> <=> n = 0) BY <1>1, EmptyQueue DEF StateInv, AreQueues
<1>3. q # << >> /\ (IsParked(Last(q), parked) \/ IsBlocked(Last(q), state))
  BY <1>1 DEF Skipped
<1>4. Last(q) = t BY <1>1, <1>2, <1>3 DEF Current, TaskOf, Last
<1> QED BY <1>1, <1>3, <1>4 DEF IsParked, IsBlocked

(* In a queue of a mutex the first one does not wait. *)
LEMMA FirstDoesNotWait ==
  ASSUME NEW w, NEW cur, NEW S, QueueOf(w, cur, S), Waiting(w) # {}
  PROVE  /\ w[1] = Head(w) /\ w[1] \notin Waiting(w)
         /\ \E j \in S : w[1] = cur[j].id
<1>1. w \in Seq(Nat) /\ Len(w) \in Nat BY LenProperties DEF QueueOf
<1>2. PICK k \in 2..Len(w) : TRUE BY DEF Waiting
<1>3. 1 \in 1..Len(w) /\ w # << >> BY <1>1, <1>2, EmptySeq
<1>4. w[1] = Head(w) BY <1>1, <1>3
<1>5. \E j \in S : w[1] = cur[j].id BY <1>3 DEF QueueOf
<1>6. ASSUME NEW m \in 2..Len(w) PROVE w[m] # w[1]
  <2>1. m \in 1..Len(w) /\ m # 1 BY <1>1
  <2> QED BY <1>3, <2>1 DEF QueueOf
<1> QED BY <1>4, <1>5, <1>6 DEF Waiting

(* All threads wait for each other at the two mutexes. *)
IsDeadlock(cur, mu) ==
  \A i \in Threads : \E m \in 1..2 :
    cur[i].id \in Waiting(mu[m]) /\ Head(mu[m]) \in Waiting(mu[3 - m])

(* A strategy can pass over all threads only in a deadlock. *)
LEMMA SomeThreadRuns ==
  ASSUME NEW programs, RunsPrograms(programs), programs \subseteq ProvedPrograms,
         StateInv, PlaceInv(programs), LockInv, phase = "run",
         \A i \in Threads : Skipped(i)
  PROVE  /\ Program = "deadlock" /\ IsDeadlock(Current(threads), Object)
         /\ \A i \in Threads :
              threads[i] # << >> /\ Last(threads[i]) = Current(threads)[i]
<1>1. PICK cur : cur = Current(threads) OBVIOUS
<1>2. Program \in ProvedPrograms /\ ProgramInv(cur)
  BY <1>1 DEF PlaceInv, LockInv
<1>3. \A i \in Threads :
        /\ threads[i] # << >> /\ Last(threads[i]) = cur[i]
        /\ cur[i].id \in parked \/ (cur[i].fstate # NoFutex /\ cur[i].fstate = Word(state))
  BY <1>1, SkippedTells
<1>4. 0 \in Threads BY ThreadsAssumption DEF Threads
<1>5. CASE Program = "simple_mutex"
  <2>1. FutexInv(Object, cur, status, parked) BY <1>2, <1>5 DEF ProgramInv
  <2>2. Word(state) = Object
    <3>1. Word(state) = TargetWord(state) BY DEF RunsPrograms
    <3> QED BY <1>5, <3>1 DEF TargetWord, Mutexes, FutexMutexWord, Program, Object
  <2>3. \A i \in Threads : cur[i].loc[1] = "waiting" /\ Object = 2
    BY <1>3, <2>1, <2>2 DEF FutexInv
  <2>4. \A i \in Threads : ~HasMutex(cur[i]) BY <2>3 DEF HasMutex
  <2> QED BY <1>4, <2>1, <2>3, <2>4 DEF FutexInv
<1>6. CASE Program = "folly_rwspinlock"
  <2>1. SpinInv(Object, cur, status, parked) BY <1>2, <1>6 DEF ProgramInv
  <2> QED BY <1>3, <1>4, <2>1 DEF SpinInv
<1>7. CASE Program = "mutex_queue"
  <2>1. PICK w : w = Object.waiters OBVIOUS
  <2>2. /\ \A i \in Threads : cur[i].fstate = NoFutex
        /\ QueueOf(w, cur, Locking(cur)) /\ parked = Waiting(w)
    BY <1>2, <1>7, <2>1 DEF ProgramInv, TokenInv
  <2>3. \A i \in Threads : cur[i].id \in Waiting(w) BY <1>3, <2>2
  <2>4. PICK j \in Locking(cur) : w[1] = cur[j].id /\ w[1] \notin Waiting(w)
    BY <1>4, <2>2, <2>3, FirstDoesNotWait
  <2> QED BY <2>3, <2>4 DEF Locking
<1>8. CASE Program = "deadlock"
  <2>1. PICK mu : mu = Object OBVIOUS
  <2>2. /\ \A i \in Threads : cur[i].fstate = NoFutex
        /\ \A m \in 1..2 : QueueOf(mu[m], cur, LockingOf(cur, m))
        /\ parked = Waiting(mu[1]) \cup Waiting(mu[2])
    BY <1>2, <1>8, <2>1 DEF ProgramInv, DeadlockInv
  <2>3. \A i \in Threads : \E m \in 1..2 : cur[i].id \in Waiting(mu[m])
    BY <1>3, <2>2
  <2>4. ASSUME NEW i \in Threads, NEW m \in 1..2, cur[i].id \in Waiting(mu[m])
        PROVE  Head(mu[m]) \in Waiting(mu[3 - m])
    <3>1. PICK j \in LockingOf(cur, m) :
            /\ mu[m][1] = cur[j].id /\ mu[m][1] \notin Waiting(mu[m])
            /\ mu[m][1] = Head(mu[m])
      BY <2>2, <2>4, FirstDoesNotWait
    <3>2. j \in Threads BY DEF LockingOf
    <3>3. PICK k \in 1..2 : cur[j].id \in Waiting(mu[k]) BY <2>3, <3>2
    <3>4. k # m BY <3>1, <3>3
    <3>5. k = 3 - m BY <3>4
    <3> QED BY <3>1, <3>3, <3>5
  <2>5. IsDeadlock(cur, mu) BY <2>3, <2>4 DEF IsDeadlock
  <2> QED BY <1>1, <1>3, <1>8, <2>1, <2>5
<1>9. CASE Program = "atomic_register"
  <2>1. RegisterInv(Object, cur, parked) BY <1>2, <1>9 DEF ProgramInv
  <2> QED BY <1>3, <1>4, <2>1 DEF RegisterInv
<1> QED BY <1>2, <1>5, <1>6, <1>7, <1>8, <1>9 DEF ProvedPrograms, CorrectPrograms

-----------------------------------------------------------------------------
(* Among the threads in S one comes last in the order of f, then of the    *)
(* numbers.                                                                *)
IsHighest(S, f, i) ==
  i \in S /\ \A j \in S : f[j] < f[i] \/ (f[j] = f[i] /\ j <= i)

(* The numbers below a successor. *)
LEMMA NextBelow ==
  ASSUME NEW S \in SUBSET Nat, NEW k \in Nat
  PROVE  /\ {i \in S : i < k + 1} = {i \in S : i < k} \cup (S \cap {k})
         /\ {i \in S : i < 0} = {}
<1>1. \A i \in S : i \in Nat /\ (i < k + 1 <=> i < k \/ i = k) /\ ~(i < 0)
  OBVIOUS
<1>2. {i \in S : i < k + 1} = {i \in S : i < k} \cup (S \cap {k})
  BY <1>1, Zenon
<1> QED BY <1>1, <1>2

(* There is one: the least n for which the numbers below n have none would *)
(* be the successor of one that has.                                       *)
LEMMA HighestExists ==
  ASSUME NEW n \in Nat, NEW S \in SUBSET (0..n), S # {}, NEW f,
         \A i \in S : f[i] \in Int
  PROVE  \E i \in S : IsHighest(S, f, i)
<1> DEFINE below(m) == {i \in S : i < m}
           bad == {m \in Nat : below(m) # {} /\ ~\E i \in S : IsHighest(below(m), f, i)}
<1>0. \A i \in S : i \in Nat /\ i < n + 1 /\ i >= 0 OBVIOUS
<1>1. CASE bad = {}
  <2>1. below(n + 1) = S BY <1>0
  <2> QED BY <1>1, <2>1
<1>2. CASE bad # {}
  <2>1. PICK m \in bad : \A x \in bad : <<x, m>> \notin OpToRel(<, Nat)
    <3>1. bad \subseteq Nat OBVIOUS
    <3> HIDE DEF bad
    <3> QED BY <1>2, <3>1, NatLessThanWellFounded, WFMin
  <2>2. m \in Nat /\ below(m) # {} /\ ~\E i \in S : IsHighest(below(m), f, i) OBVIOUS
  <2>3. PICK k \in Nat : m = k + 1
    <3>1. m # 0 BY <1>0, <2>2, NextBelow
    <3> QED BY <2>2, <3>1
  <2>4. k \notin bad
    <3>1. bad \subseteq Nat OBVIOUS
    <3> HIDE DEF bad
    <3>2. k < m BY <2>3
    <3>3. m \in Nat BY <3>1
    <3> QED BY <2>1, <3>2, <3>3, Zenon DEF OpToRel
  <2>5. CASE k \notin S
    <3>1. below(m) = below(k) BY <1>0, <2>3, <2>5, NextBelow
    <3> QED BY <2>2, <2>4, <3>1
  <2>6. CASE k \in S
    <3>1. below(m) = below(k) \cup {k} BY <1>0, <2>3, <2>6, NextBelow
    <3>2. CASE below(k) = {}
      <4>1. below(m) = {k} BY <3>1, <3>2
      <4>2. IsHighest({k}, f, k) BY <2>6 DEF IsHighest
      <4> QED BY <2>2, <2>6, <4>1, <4>2
    <3>3. CASE below(k) # {}
      <4>1. PICK i \in S : IsHighest(below(k), f, i) BY <2>4, <3>3
      <4>2. /\ i \in Nat /\ i < k /\ f[i] \in Int /\ f[k] \in Int
            /\ \A j \in below(k) : f[j] < f[i] \/ (f[j] = f[i] /\ j <= i)
        BY <2>6, <4>1 DEF IsHighest
      <4>3. \A j \in below(k) : j \in Nat /\ j < k /\ f[j] \in Int OBVIOUS
      <4>4. CASE f[k] < f[i]
        <5>1. IsHighest(below(m), f, i)
          BY <2>3, <3>1, <4>2, <4>4 DEF IsHighest
        <5> QED BY <2>2, <5>1
      <4>5. CASE ~(f[k] < f[i])
        <5>1. \A j \in below(k) : f[j] < f[k] \/ (f[j] = f[k] /\ j <= k)
          BY <4>2, <4>3, <4>5
        <5>2. IsHighest(below(m), f, k) BY <2>6, <3>1, <5>1 DEF IsHighest
        <5> QED BY <2>2, <2>6, <5>2
      <4> QED BY <4>4, <4>5
    <3> QED BY <3>2, <3>3
  <2> QED BY <2>5, <2>6
<1> QED BY <1>1, <1>2

(* What the priorities of PctStrategy are. *)
PctInv ==
  kind = "pct" =>
    /\ priorities \in [Threads -> Int]
    /\ current_depth \in Nat \ {0}
    /\ DOMAIN priority_change_points = 1..(current_depth - 1)

(* A change point that was reached gives a priority. *)
LEMMA DemotedIsPriority ==
  ASSUME PctInv, kind = "pct", NEW i \in Threads, NEW points,
         points \subseteq DOMAIN priority_change_points, points # {}
  PROVE  Demoted(i, points) \in [Threads -> Int]
<1>1. /\ priorities \in [Threads -> Int] /\ current_depth \in Nat \ {0}
      /\ points \in SUBSET (0..current_depth)
  BY DEF PctInv
<1>2. PICK f : f = [p \in points |-> 0] OBVIOUS
<1>3. \A p \in points : f[p] \in Int BY <1>2
<1>4. PICK p \in points : IsHighest(points, f, p)
  <2>1. current_depth \in Nat BY <1>1
  <2> QED BY <1>1, <1>3, <2>1, HighestExists
<1>5. \A q \in points : q <= p BY <1>1, <1>2, <1>4 DEF IsHighest
<1>6. PICK m : m = CHOOSE x \in points : \A q \in points : q <= x OBVIOUS
<1>7. m \in points BY <1>5, <1>6
<1>8. m \in Int /\ current_depth + 1 - m \in Int BY <1>1, <1>7
<1> QED BY <1>1, <1>6, <1>8 DEF Demoted

(* Every step keeps this. *)
LEMMA PctIsKept ==
  ASSUME StateInv, PctInv, [Next]_vars
  PROVE  PctInv'
<1>1. CASE UNCHANGED <<kind, priorities, priority_change_points, current_depth>>
  BY <1>1 DEF PctInv
<1>2. ASSUME NEW p \in Picks, AfterPick(p) PROVE PctInv'
  <2>1. kind' = kind /\ UNCHANGED <<priority_change_points, current_depth>>
    BY <1>2 DEF AfterPick
  <2>2. CASE kind # "pct" BY <2>1, <2>2 DEF PctInv
  <2>3. CASE kind = "pct"
    <3>1. PICK points :
            /\ points \subseteq DOMAIN priority_change_points
            /\ priorities' = IF points = {} THEN priorities ELSE Demoted(p.thread, points)
      <4>1. PICK points :
              points = {j \in DOMAIN priority_change_points :
                          priority_change_points[j] = current_schedule_length + 1}
        OBVIOUS
      <4> QED BY <1>2, <2>3, <4>1 DEF AfterPick
    <3>2. p.thread \in Threads BY <1>2, PicksAreThreads DEF PickOK
    <3>3. priorities' \in [Threads -> Int]
      BY <2>3, <3>1, <3>2, DemotedIsPriority DEF PctInv
    <3> QED BY <2>1, <2>3, <3>3 DEF PctInv
  <2> QED BY <2>2, <2>3
<1>3. CASE StartTask BY <1>2, <1>3 DEF StartTask
<1>4. CASE ResumeTask BY <1>2, <1>4 DEF ResumeTask
<1>5. CASE StartNextRound
  <2>1. kind' = kind /\ PrepareNextSchedule BY <1>5 DEF StartNextRound
  <2>2. CASE kind # "pct" BY <2>1, <2>2 DEF PctInv
  <2>3. CASE kind = "pct"
    <3>1. UpdateStatistics BY <2>1, <2>3 DEF PrepareNextSchedule
    <3>2. PICK depth, k :
            /\ depth = IF current_depth + 1 >= depth_limit THEN depth_limit
                       ELSE current_depth + 1
            /\ current_depth' = depth /\ priorities' \in Priorities(depth)
            /\ priority_change_points' \in ChangePoints(depth, k)
      BY <3>1 DEF UpdateStatistics
    <3>3. depth \in Nat \ {0} BY <2>3, <3>2, PctAssumption DEF PctInv
    <3>4. priorities' \in [Threads -> Int]
      BY <3>2, <3>3, ThreadsAssumption DEF Priorities
    <3>5. DOMAIN priority_change_points' = 1..(depth - 1)
      BY <3>2 DEF ChangePoints
    <3> QED BY <3>2, <3>3, <3>4, <3>5 DEF PctInv
  <2> QED BY <2>2, <2>3
<1>6. CASE Abort \/ CheckerThrows
  BY <1>1, <1>6 DEF Abort, CheckerThrows, strategyVars, baseVars, pctVars
<1>7. CASE FinishRound \/ ReportRound
  BY <1>1, <1>7 DEF FinishRound, ReportRound, pickVars, pctVars
<1>8. CASE RunReturns \/ Destroyed
  BY <1>1, <1>8 DEF RunReturns, Destroyed, pickVars, pctVars
<1>9. CASE TerminateTasks
  BY <1>1, <1>9 DEF TerminateTasks, TerminateVisit, TerminateAgain, pctVars
<1>10. CASE Ended \/ UNCHANGED vars
  BY <1>1, <1>10 DEF Ended, vars, strategyVars, baseVars, pctVars
<1> QED BY <1>3, <1>4, <1>5, <1>6, <1>7, <1>8, <1>9, <1>10 DEF Next

(* The round robin strategy comes to every thread. *)
LEMMA AttemptsReach ==
  ASSUME StateInv, NEW i \in Threads
  PROVE  \E a \in Threads : Attempt(a) = i
<1>1. PICK n, s : /\ n = threads_count /\ s = next_task /\ n \in Nat \ {0}
                  /\ s \in 0..(n - 1) /\ i \in 0..(n - 1)
  BY ThreadsAssumption DEF StateInv, Threads
<1>2. ASSUME NEW x \in 0..(n - 1) PROVE x % n = x /\ (x + n) % n = x
  BY <1>1
<1>3. CASE i >= s
  <2>1. i - s \in 0..(n - 1) /\ s + (i - s) = i BY <1>1, <1>3
  <2>2. (s + (i - s)) % n = i BY <1>1, <1>2, <2>1
  <2> QED BY <1>1, <2>1, <2>2 DEF Attempt, Threads
<1>4. CASE i < s
  <2>1. (i - s) + n \in 0..(n - 1) /\ s + ((i - s) + n) = i + n BY <1>1, <1>4
  <2>2. (s + ((i - s) + n)) % n = i BY <1>1, <1>2, <2>1
  <2> QED BY <1>1, <2>1, <2>2 DEF Attempt, Threads
<1> QED BY <1>1, <1>3, <1>4

(* If some thread is not passed over, each strategy picks one: the asserts *)
(* of the three Pick methods do not fail.                                  *)
LEMMA PicksExist ==
  ASSUME StateInv, PctInv, NEW i \in Threads, ~Skipped(i)
  PROVE  Picks # {}
<1>1. CASE kind = "random"
  <2>1. [thread |-> i, next |-> next_task, looked |-> Threads] \in RandomPicks
    BY DEF RandomPicks
  <2> QED BY <1>1, <2>1 DEF Picks
<1>2. CASE kind = "pct"
  <2>1. PICK S : S = {j \in Threads : ~Skipped(j)} OBVIOUS
  <2>2. threads_count - 1 \in Nat BY ThreadsAssumption
  <2>3. S \in SUBSET (0..(threads_count - 1)) /\ S # {} BY <2>1 DEF Threads
  <2>4. \A j \in S : priorities[j] \in Int BY <1>2, <2>1 DEF PctInv
  <2>5. PICK j \in S : IsHighest(S, priorities, j) BY <2>2, <2>3, <2>4, HighestExists
  <2>6. j \in HighestOf(S) BY <2>5 DEF IsHighest, HighestOf
  <2>7. [thread |-> j, next |-> next_task, looked |-> Threads] \in PctPicks
    BY <2>1, <2>6 DEF PctPicks
  <2> QED BY <1>2, <2>7 DEF Picks
<1>3. CASE kind = "rr"
  <2>1. PICK free : free = {a \in Threads : ~Skipped(Attempt(a))} OBVIOUS
  <2>2. free # {} BY <2>1, AttemptsReach
  <2>3. free \subseteq Nat BY <2>1, ThreadsAssumption DEF Threads
  <2>4. PICK a \in free : \A x \in free : <<x, a>> \notin OpToRel(<, Nat)
    BY <2>2, <2>3, NatLessThanWellFounded, WFMin
  <2>5. \A x \in free : ~(x < a) BY <2>3, <2>4, Zenon DEF OpToRel
  <2>6. a \in Threads /\ ~Skipped(Attempt(a)) BY <2>1, <2>4
  <2>7. \A c \in 0..(a - 1) : c \in Threads /\ c < a
    BY <2>6, ThreadsAssumption DEF Threads
  <2>8. \A c \in 0..(a - 1) : Skipped(Attempt(c)) BY <2>1, <2>5, <2>7
  <2>9. [thread |-> Attempt(a), next |-> Attempt(a + 1),
         looked |-> {Attempt(b) : b \in 0..a}] \in RoundRobinPicks
    BY <2>6, <2>8 DEF RoundRobinPicks
  <2> QED BY <1>3, <2>9 DEF Picks
<1>4. kind = "random" \/ kind = "rr" \/ kind = "pct"
  BY KindAssumption DEF StateInv
<1> QED BY <1>1, <1>2, <1>3, <1>4

(* A generator can draw a call of the method. *)
Draws(program, name) == \E c \in CallsOf(program) : c.of = program /\ c.name = name

(* Each method of a program can be drawn. *)
LEMMA CallsExist ==
  /\ Draws("simple_mutex", "Lock") /\ Draws("simple_mutex", "Unlock")
  /\ Draws("folly_rwspinlock", "lock") /\ Draws("folly_rwspinlock", "unlock")
  /\ Draws("folly_rwspinlock", "unlock_shared")
  /\ Draws("mutex_queue", "Pop") /\ (Values # {} => Draws("mutex_queue", "Push"))
  /\ Draws("deadlock", "Lock")
  /\ Draws("atomic_register", "add") /\ Draws("atomic_register", "get")
<1>1. CallsOf("simple_mutex") = [of : {"simple_mutex"}, name : {"Lock", "Unlock"}, arg : {0}]
  BY DEF CallsOf, Mutexes, Registers, Containers, Queues
<1>2. CallsOf("folly_rwspinlock")
        = [of : {"folly_rwspinlock"},
           name : {"lock", "lock_shared", "unlock", "unlock_shared"}, arg : {0}]
  BY DEF CallsOf, Mutexes, Registers, Containers, Queues
<1>3. CallsOf("mutex_queue")
        = [of : {"mutex_queue"}, name : {"Push"}, arg : Values]
            \cup [of : {"mutex_queue"}, name : {"Pop"}, arg : {0}]
  BY DEF CallsOf, Mutexes, Registers, Containers, Queues
<1>4. CallsOf("deadlock") = [of : {"deadlock"}, name : {"Lock"}, arg : {0}]
  BY DEF CallsOf, Mutexes, Registers, Containers, Queues
<1>5. ASSUME NEW name \in {"Lock", "Unlock"} PROVE Draws("simple_mutex", name)
  <2>1. [of |-> "simple_mutex", name |-> name, arg |-> 0] \in CallsOf("simple_mutex")
    BY <1>1
  <2> QED BY <2>1 DEF Draws
<1>6. ASSUME NEW name \in {"lock", "unlock", "unlock_shared"}
      PROVE  Draws("folly_rwspinlock", name)
  <2>1. [of |-> "folly_rwspinlock", name |-> name, arg |-> 0]
          \in CallsOf("folly_rwspinlock")
    BY <1>2
  <2> QED BY <2>1 DEF Draws
<1>7. Draws("mutex_queue", "Pop")
  <2>1. [of |-> "mutex_queue", name |-> "Pop", arg |-> 0] \in CallsOf("mutex_queue")
    BY <1>3
  <2> QED BY <2>1 DEF Draws
<1>8. ASSUME NEW v \in Values PROVE Draws("mutex_queue", "Push")
  <2>1. [of |-> "mutex_queue", name |-> "Push", arg |-> v] \in CallsOf("mutex_queue")
    BY <1>3
  <2> QED BY <2>1 DEF Draws
<1>9. Draws("deadlock", "Lock")
  <2>1. [of |-> "deadlock", name |-> "Lock", arg |-> 0] \in CallsOf("deadlock") BY <1>4
  <2> QED BY <2>1 DEF Draws
<1>10. ASSUME NEW name \in {"add", "get"} PROVE Draws("atomic_register", name)
  <2>1. CallsOf("atomic_register")
          = [of : {"atomic_register"}, name : {"add", "get"}, arg : {0}]
    BY DEF CallsOf, Mutexes, Registers, Containers, Queues
  <2>2. [of |-> "atomic_register", name |-> name, arg |-> 0] \in CallsOf("atomic_register")
    BY <2>1
  <2> QED BY <2>2 DEF Draws
<1> QED BY <1>5, <1>6, <1>7, <1>8, <1>9, <1>10

(* The verifier lets a thread start some task once its last one has        *)
(* returned, and the locks' verifiers reject one of another name.          *)
Rejects(program, st, i, c) ==
  \E d \in CallsOf(program) : d.name # c.name /\ ~TargetVerify(st, d, i, TRUE)
MayStart(program, st, i) ==
  /\ \E c \in CallsOf(program) :
       /\ TargetVerify(st, c, i, TRUE)
       /\ program \in {"simple_mutex", "folly_rwspinlock"} => Rejects(program, st, i, c)
  /\ program \in {"mutex_queue", "atomic_register"} =>
       \A c \in CallsOf(program) : TargetVerify(st, c, i, TRUE)

(* It does so for every program. *)
LEMMA SomeTaskMayStart ==
  ASSUME Program \in ProvedPrograms, NEW cur, ProgramInv(cur), NEW i \in Threads,
         IsReturned(cur[i])
  PROVE  MayStart(Program, status, i)
<1>1. CASE Program = "simple_mutex"
  <2>1. FutexTask(cur[i], status[i]) BY <1>1 DEF ProgramInv, FutexInv
  <2>2. status[i] = 0 \/ status[i] = 1 BY <2>1 DEF FutexTask
  <2>3. PICK c \in CallsOf(Program), d \in CallsOf(Program) :
          /\ c.of = "simple_mutex" /\ c.name = "Lock"
          /\ d.of = "simple_mutex" /\ d.name = "Unlock"
    BY <1>1, CallsExist DEF Draws
  <2>4. /\ TargetVerify(status, c, i, TRUE) <=> status[i] = 0
        /\ TargetVerify(status, d, i, TRUE) <=> status[i] = 1
    BY <2>3 DEF TargetVerify, MutexVerify, Mutexes
  <2>5. ASSUME status[i] = 0 PROVE Rejects(Program, status, i, c)
    <3>1. ~TargetVerify(status, d, i, TRUE) BY <2>3, <2>5 DEF TargetVerify, MutexVerify, Mutexes
    <3>2. d.name # c.name BY <2>3
    <3> QED BY <3>1, <3>2 DEF Rejects
  <2>6. ASSUME status[i] = 1 PROVE Rejects(Program, status, i, d)
    <3>1. ~TargetVerify(status, c, i, TRUE) BY <2>3, <2>6 DEF TargetVerify, MutexVerify, Mutexes
    <3>2. c.name # d.name BY <2>3
    <3> QED BY <3>1, <3>2 DEF Rejects
  <2> QED BY <1>1, <2>2, <2>3, <2>4, <2>5, <2>6 DEF MayStart
<1>2. CASE Program = "folly_rwspinlock"
  <2>1. SpinTask(cur[i], status[i]) BY <1>2 DEF ProgramInv, SpinInv
  <2>2. status[i] = FREE \/ status[i] = WRITER \/ status[i] = READER
    BY <2>1 DEF SpinTask
  <2>3. PICK c \in CallsOf(Program), d \in CallsOf(Program), e \in CallsOf(Program) :
          /\ c.of = "folly_rwspinlock" /\ c.name = "lock"
          /\ d.of = "folly_rwspinlock" /\ d.name = "unlock"
          /\ e.of = "folly_rwspinlock" /\ e.name = "unlock_shared"
    BY <1>2, CallsExist DEF Draws
  <2>4. /\ TargetVerify(status, c, i, TRUE) <=> status[i] = FREE
        /\ TargetVerify(status, d, i, TRUE) <=> status[i] = WRITER
        /\ TargetVerify(status, e, i, TRUE) <=> status[i] = READER
    BY <2>3 DEF TargetVerify, SharedMutexVerify, Mutexes
  <2>5. FREE = 0 /\ WRITER = 1 /\ READER = 4 BY DEF FREE, WRITER, READER
  <2>6. ASSUME status[i] = FREE PROVE Rejects(Program, status, i, c)
    <3>1. ~TargetVerify(status, d, i, TRUE)
      BY <2>3, <2>5, <2>6 DEF TargetVerify, SharedMutexVerify, Mutexes
    <3>2. d.name # c.name BY <2>3
    <3> QED BY <3>1, <3>2 DEF Rejects
  <2>7. ASSUME status[i] = WRITER PROVE Rejects(Program, status, i, d)
    <3>1. ~TargetVerify(status, c, i, TRUE)
      BY <2>3, <2>5, <2>7 DEF TargetVerify, SharedMutexVerify, Mutexes
    <3>2. c.name # d.name BY <2>3
    <3> QED BY <3>1, <3>2 DEF Rejects
  <2>8. ASSUME status[i] = READER PROVE Rejects(Program, status, i, e)
    <3>1. ~TargetVerify(status, c, i, TRUE)
      BY <2>3, <2>5, <2>8 DEF TargetVerify, SharedMutexVerify, Mutexes
    <3>2. c.name # e.name BY <2>3
    <3> QED BY <3>1, <3>2 DEF Rejects
  <2> QED BY <1>2, <2>2, <2>3, <2>4, <2>6, <2>7, <2>8 DEF MayStart
<1>3. CASE Program \in {"mutex_queue", "deadlock", "atomic_register"}
  <2>1. \A c \in CallsOf(Program) : c.of = Program BY <1>3, CallsHaveNames
  <2>2. \A c \in CallsOf(Program) : TargetVerify(status, c, i, TRUE)
    BY <1>3, <2>1 DEF TargetVerify, DefaultVerify, Mutexes
  <2>3. \E c \in CallsOf(Program) : TRUE BY <1>3, CallsExist DEF Draws
  <2> QED BY <1>3, <2>2, <2>3 DEF MayStart
<1> QED BY <1>1, <1>2, <1>3 DEF ProvedPrograms, CorrectPrograms

(* The thread a strategy picks can start a task: "Oops, possible deadlock  *)
(* or incorrect verifier" is not asserted.  PctStrategy draws on until two *)
(* names are in play, which the only method of deadlock.cpp never is.      *)
LEMMA CreatesExist ==
  ASSUME NEW programs, RunsPrograms(programs), Program \in ProvedPrograms, StateInv,
         ProgramInv(Current(threads)), NEW i \in Threads, NeedsTask(i),
         kind = "pct" => Program # "deadlock" /\ Values # {}
  PROVE  Creates(i) # {}
<1>1. PICK cur : cur = Current(threads) OBVIOUS
<1>2. IsReturned(cur[i])
  <2>1. cur[i] = TaskOf(threads[i]) BY <1>1 DEF Current
  <2>2. Len(threads[i]) \in Nat BY IdsAreTyped DEF StateInv
  <2>3. ~IsOpen(threads[i]) BY NeedsTaskIsClosed
  <2> QED BY <2>1, <2>2, <2>3 DEF TaskOf, IsOpen, IsReturned, NoTask
<1>3. MayStart(Program, status, i) BY <1>1, <1>2, SomeTaskMayStart
<1>4. Generates(state, i) = CallsOf(Program)
  <2>1. Generates(state, i) = GeneratedCalls(state, i) BY DEF RunsPrograms
  <2> QED BY <2>1 DEF GeneratedCalls, Program, ProvedPrograms, CorrectPrograms
<1>5. \A c : Verify(status, c, i, TRUE) = TargetVerify(status, c, i, TRUE)
  BY DEF RunsPrograms
<1>6. PICK c \in CallsOf(Program) :
        /\ Verify(status, c, i, TRUE)
        /\ Program \in {"simple_mutex", "folly_rwspinlock"} => Rejects(Program, status, i, c)
  BY <1>3, <1>5 DEF MayStart
<1>7. CASE kind # "pct"
  <2>1. c \in PickCreates(i) BY <1>4, <1>6 DEF PickCreates
  <2> QED BY <1>7, <2>1 DEF Creates
<1>8. CASE kind = "pct"
  <2>1. PICK names : names = CountNames(i) OBVIOUS
  <2>2. ASSUME NEW e \in CallsOf(Program), Verify(status, e, i, TRUE),
               \/ names \ {e.name} # {}
               \/ \E d \in CallsOf(Program) :
                    d.name # e.name /\ (names = {} \/ ~Verify(status, d, i, TRUE))
        PROVE  Creates(i) # {}
    <3>1. e \in PctCreates(i) BY <1>4, <2>1, <2>2 DEF PctCreates
    <3> QED BY <1>8, <3>1 DEF Creates
  <2>3. CASE Program \in {"simple_mutex", "folly_rwspinlock"}
    <3>1. PICK d \in CallsOf(Program) : d.name # c.name /\ ~TargetVerify(status, d, i, TRUE)
      BY <1>6, <2>3 DEF Rejects
    <3>2. ~Verify(status, d, i, TRUE) BY <1>5, <3>1
    <3> QED BY <1>6, <2>2, <3>1, <3>2
  <2>4. CASE Program \in {"mutex_queue", "atomic_register"}
    <3>1. \A d \in CallsOf(Program) : Verify(status, d, i, TRUE)
      BY <1>3, <1>5, <2>4 DEF MayStart
    <3>2. PICK d \in CallsOf(Program), e \in CallsOf(Program) : d.name # e.name
      <4>1. CASE Program = "mutex_queue"
        <5>1. PICK d \in CallsOf(Program), e \in CallsOf(Program) :
                d.name = "Push" /\ e.name = "Pop"
          BY <1>8, <4>1, CallsExist DEF Draws
        <5>2. d.name # e.name BY <5>1
        <5> QED BY <5>2
      <4>2. CASE Program = "atomic_register"
        <5>1. PICK d \in CallsOf(Program), e \in CallsOf(Program) :
                d.name = "add" /\ e.name = "get"
          BY <4>2, CallsExist DEF Draws
        <5>2. d.name # e.name BY <5>1
        <5> QED BY <5>2
      <4> QED BY <2>4, <4>1, <4>2
    <3>3. CASE names = {} BY <2>2, <3>1, <3>2, <3>3
    <3>4. CASE names # {}
      <4>1. PICK name \in names : TRUE BY <3>4
      <4>2. CASE name # d.name BY <2>2, <3>1, <4>2
      <4>3. CASE name = d.name
        <5>1. name \in names \ {e.name} BY <3>2, <4>3
        <5> QED BY <2>2, <3>1, <5>1
      <4> QED BY <4>2, <4>3
    <3> QED BY <3>3, <3>4
  <2> QED BY <1>8, <2>3, <2>4 DEF ProvedPrograms, CorrectPrograms
<1> QED BY <1>7, <1>8

(* The current task of thread i is where t is. *)
IsAt(cur, i, t) == cur[i].loc = t.loc /\ cur[i].id = t.id /\ cur[i].thread = t.thread

(* No assert of a target fails: cnt is 1 while a task is in the section,   *)
(* and the queue of a mutex that is unlocked holds the task that unlocks   *)
(* it.                                                                     *)
LEMMA StepsDoNotFail ==
  ASSUME Program \in ProvedPrograms, NEW cur, ProgramInv(cur), NEW i \in Threads,
         NEW t, IsPlaced(Program, t), ~IsReturned(t),
         t.loc[1] = "entry" \/ IsAt(cur, i, t),
         NEW b, b = MethodOf(Program, Object, t)
  PROVE  b.fails = FALSE
<1>1. t.call \in CallsOf(Program) /\ t.loc[1] \in PlacesIn(Program, t.call.name)
  BY DEF IsPlaced
<1>6. t.loc[1] # "entry" => cur[i].loc = t.loc BY DEF IsAt
<1>2. CASE Program = "simple_mutex"
  <2>1. b = FutexMutexBody(Object, t) BY <1>2 DEF MethodOf
  <2>2. t.call.name \in {"Lock", "Unlock"} BY <1>1, <1>2, CallsHaveNames
  <2>3. t.loc[1] \in IF t.call.name = "Lock" THEN {"entry", "lock", "waiting", "acquired"}
                     ELSE {"entry", "unlock", "woken"}
    BY <1>1, <1>2 DEF PlacesIn
  <2>4. \/ Waits(b) \/ \E o, p, l : Simple(b, o, p, l) \/ Ends(b, o, l)
    BY <2>1, <2>2, <2>3, FutexSteps
  <2> QED BY <2>4 DEF Waits, Simple, Ends
<1>3. CASE Program = "folly_rwspinlock"
  <2>1. b = RWSpinLockBody(Object, t) BY <1>3 DEF MethodOf
  <2>2. t.call.name \in {"lock", "lock_shared", "unlock", "unlock_shared"}
    BY <1>1, <1>3, CallsHaveNames
  <2>3. t.loc[1] \in {"entry", "bits_"} BY <1>1, <1>3 DEF PlacesIn
  <2>4. \E o, p, l : Simple(b, o, p, l) \/ Ends(b, o, l)
    BY <2>1, <2>2, <2>3, SpinSteps
  <2> QED BY <2>4 DEF Simple, Ends
<1>4. CASE Program = "mutex_queue"
  <2>1. b = MutexQueueBody(Object, t) /\ TokenInv(Object, cur, parked)
    BY <1>4 DEF MethodOf, ProgramInv
  <2>2. t.loc[1] \in {"entry", "lock", "locked", "++cnt", "cnt+1", "assert", "--cnt",
                      "cnt-1", "unlock", "return"}
    BY <1>1, <1>4 DEF PlacesIn
  <2>3. CASE t.loc[1] = "assert"
    <3>1. \E l : Asserted(b, Object, l) BY <2>1, <2>3, TokenSteps
    <3>2. i \in Counted(cur) BY <1>6, <2>3 DEF Counted, CountedPlaces
    <3>3. Object.cnt = 1 BY <2>1, <3>2 DEF TokenInv
    <3> QED BY <3>1, <3>3 DEF Asserted
  <2>4. CASE t.loc[1] = "unlock"
    <3>1. Unqueued(b, Object, t) BY <2>1, <2>4, TokenSteps
    <3>2. i \in Locking(cur) BY <1>6, <2>4 DEF Locking, LockedPlaces
    <3>3. \E k \in 1..Len(Object.waiters) : TRUE BY <2>1, <3>2 DEF TokenInv, QueueOf
    <3>4. Object.waiters # << >> BY <3>3, EmptySeq
    <3> QED BY <3>1, <3>4 DEF Unqueued
  <2>5. CASE t.loc[1] \notin {"assert", "unlock"}
    <3>1. /\ \A o, p, l : Simple(b, o, p, l) => b.fails = FALSE
          /\ \A o, l : Ends(b, o, l) => b.fails = FALSE
          /\ Queued(b, Object, t) => b.fails = FALSE
      BY DEF Queued, Simple, Ends
    <3>2. PICK place, e, cnt : place = t.loc[1] /\ e = t.loc[2].e /\ cnt = t.loc[2].cnt
      OBVIOUS
    <3>3. /\ place = "locked" =>
               Simple(b, [Object EXCEPT !.items = AfterItem(Object, t.call)], "++cnt",
                      [e |-> TakenItem(Object, t.call), cnt |-> 0])
          /\ place = "++cnt" =>
               Simple(b, Object, "cnt+1", [e |-> e, cnt |-> Object.cnt])
          /\ place = "cnt+1" =>
               Simple(b, [Object EXCEPT !.cnt = cnt + 1], "assert", [e |-> e, cnt |-> 0])
          /\ place = "--cnt" =>
               Simple(b, Object, "cnt-1", [e |-> e, cnt |-> Object.cnt])
          /\ place = "cnt-1" =>
               Simple(b, [Object EXCEPT !.cnt = cnt - 1], "unlock", [e |-> e, cnt |-> 0])
      BY <2>1, <3>2, TokenSteps
    <3>4. CASE place \in {"locked", "++cnt", "cnt+1", "--cnt", "cnt-1"}
      <4>1. \E o, p, l : Simple(b, o, p, l) BY <3>3, <3>4, Zenon
      <4> QED BY <3>1, <4>1
    <3>5. CASE place = "entry"
      <4>1. Simple(b, Object, "lock", 0) BY <2>1, <3>2, <3>5, TokenSteps
      <4> QED BY <3>1, <4>1
    <3>6. CASE place = "lock"
      <4>1. Queued(b, Object, t) BY <2>1, <3>2, <3>6, TokenSteps
      <4> QED BY <3>1, <4>1
    <3>7. CASE place = "return"
      <4>1. Ends(b, Object, t.loc[2]) BY <2>1, <3>2, <3>7, TokenSteps
      <4> QED BY <3>1, <4>1
    <3> QED BY <2>2, <2>5, <3>2, <3>4, <3>5, <3>6, <3>7
  <2> QED BY <2>3, <2>4, <2>5
<1>5. CASE Program = "deadlock"
  <2>1. b = DeadlockBody(Object, t) /\ DeadlockInv(Object, cur, parked)
    BY <1>5 DEF MethodOf, ProgramInv
  <2>2. t.loc[1] \in {"entry", "first", "second", "release"} BY <1>1, <1>5 DEF PlacesIn
  <2>3. CASE t.loc[1] = "release"
    <3>1. Releases(b, Object) BY <2>1, <2>3, DeadlockSteps
    <3>2. \A m \in 1..2 : i \in LockingOf(cur, m) BY <1>6, <2>3 DEF LockingOf
    <3>3. \A m \in 1..2 : \E k \in 1..Len(Object[m]) : TRUE
      BY <2>1, <3>2 DEF DeadlockInv, QueueOf
    <3>4. \A m \in 1..2 : Object[m] # << >> BY <3>3, EmptySeq
    <3> QED BY <3>1, <3>4 DEF Releases
  <2>4. CASE t.loc[1] # "release"
    <3>1. \E m, p, l : Simple(b, m, p, l) \/ TokenLocks(b, Object, m, t, p)
      BY <2>1, <2>2, <2>4, DeadlockSteps
    <3> QED BY <3>1 DEF Simple, TokenLocks
  <2> QED BY <2>3, <2>4
<1>7. CASE Program = "atomic_register"
  <2>1. b = AtomicRegisterBody(Object, t) /\ t.loc[1] \in {"entry", "x"}
    BY <1>1, <1>7 DEF MethodOf, PlacesIn
  <2>2. \E o, p, l : Simple(b, o, p, l) \/ Ends(b, o, l) BY <2>1, RegisterSteps
  <2> QED BY <2>2 DEF Simple, Ends
<1> QED BY <1>2, <1>3, <1>4, <1>5, <1>7 DEF ProvedPrograms, CorrectPrograms

(* Of the asserts only the one that reports a deadlock fails while a round *)
(* is run, and only in a deadlock.                                         *)
LEMMA OnlyDeadlockAborts ==
  ASSUME NEW programs, RunsPrograms(programs), programs \subseteq ProvedPrograms,
         StateInv, HistoryInv, PctInv, PlaceInv(programs), LockInv, phase = "run",
         AssertFails
  PROVE  /\ Program = "deadlock" /\ IsDeadlock(Current(threads), Object)
         /\ \A i \in Threads :
              threads[i] # << >> /\ Last(threads[i]) = Current(threads)[i]
<1>1. Program \in ProvedPrograms /\ ArePlaced(Program, threads) BY DEF PlaceInv
<1>2. PICK cur : cur = Current(threads) /\ ProgramInv(cur) BY DEF LockInv
<1>3. CASE Picks = {}
  <2>1. \A i \in Threads : Skipped(i) BY <1>3, PicksExist
  <2> QED BY <2>1, SomeThreadRuns
<1>4. ASSUME NEW p \in Picks, NeedsTask(p.thread), NEW c \in Creates(p.thread)
      PROVE  ~Fails(New(new_task_id, c, p.thread), state)
  <2>1. PICK i \in Threads : i = p.thread BY PicksAreThreads DEF PickOK
  <2>2. PICK t, b : t = New(new_task_id, c, i) /\ b = MethodOf(Program, Object, t)
    OBVIOUS
  <2>3. c \in CallsOf(Program)
    <3>1. c \in GeneratedCalls(state, i) BY <1>4, <2>1, CreatedAreVerified
    <3> QED BY <1>1, <3>1 DEF GeneratedCalls, Program, ProvedPrograms, CorrectPrograms
  <2>4. IsTask(t) /\ ~IsReturned(t) /\ t.loc[1] = "entry" /\ IsPlaced(Program, t)
    BY <1>1, <2>2, <2>3, NewIsPlaced DEF StateInv
  <2>5. b.fails = FALSE BY <1>1, <1>2, <2>2, <2>4, StepsDoNotFail
  <2>6. StepOf(Program, b, t, Resumed(t, state), state, ObjAfter(t, state))
    BY <1>1, <2>2, <2>4, ResumeIsStep DEF Program, Object
  <2> QED BY <2>1, <2>2, <2>5, <2>6 DEF StepOf
<1>5. ASSUME NEW p \in Picks, ~NeedsTask(p.thread)
      PROVE  ~Fails(Last(AfterLooking(p.looked)[p.thread]), state)
  <2>1. PICK i, S : /\ i \in Threads /\ i = p.thread /\ S = p.looked /\ i \in S
                    /\ ~Skipped(i)
    BY PicksAreThreads DEF PickOK
  <2>2. PICK th : th = AfterLooking(S) OBVIOUS
  <2>3. PICK n : /\ n = Len(threads[i]) /\ n = Len(th[i]) /\ n \in Nat /\ n > 0
                 /\ n \in 1..n /\ ~IsReturned(threads[i][n])
    <3>1. AlikeQueues(th, threads) BY <2>2, LookingKeepsTasks DEF StateInv
    <3>2. IsOpen(threads[i]) BY <1>5, <2>1, NeedsTaskIsClosed
    <3>3. Len(threads[i]) \in Nat BY <2>1, IdsAreTyped DEF StateInv
    <3> QED BY <2>1, <3>1, <3>2, <3>3 DEF IsOpen, AlikeQueues
  <2>4. PICK t, b : t = th[i][n] /\ b = MethodOf(Program, Object, t) OBVIOUS
  <2>5. Alike(threads[i][n], t)
    <3>1. AlikeQueues(th, threads) BY <2>2, LookingKeepsTasks DEF StateInv
    <3> QED BY <2>1, <2>3, <2>4, <3>1 DEF AlikeQueues
  <2>6. IsPlaced(Program, t)
    <3>1. IsPlaced(Program, threads[i][n]) BY <1>1, <2>1, <2>3 DEF ArePlaced
    <3> QED BY <2>5, <3>1 DEF Alike, IsPlaced, IsReturned
  <2>7. IsTask(t) /\ ~IsReturned(t) BY <2>3, <2>5 DEF Alike, IsReturned
  <2>8. IsAt(cur, i, t)
    <3>1. cur[i] = TaskOf(threads[i]) BY <1>2, <2>1 DEF Current
    <3>2. PICK q : q = threads[i] /\ Len(q) = n BY <2>3
    <3>3. TaskOf(q) = q[n] BY <2>3, <3>2 DEF TaskOf
    <3> QED BY <2>5, <3>1, <3>2, <3>3 DEF Alike, IsAt
  <2>9. b.fails = FALSE BY <1>1, <1>2, <2>1, <2>4, <2>6, <2>7, <2>8, StepsDoNotFail
  <2>10. StepOf(Program, b, t, Resumed(t, state), state, ObjAfter(t, state))
    BY <1>1, <2>4, <2>6, <2>7, ResumeIsStep DEF Program, Object
  <2>11. Last(th[i]) = t BY <2>3, <2>4 DEF Last
  <2> QED BY <2>1, <2>2, <2>9, <2>10, <2>11 DEF StepOf
<1>6. kind # "pct" => \A p \in Picks : NeedsTask(p.thread) => Creates(p.thread) # {}
  BY <1>1, <1>2, PicksAreThreads, CreatesExist DEF PickOK
<1>7. Picks = {} BY <1>4, <1>5, <1>6 DEF AssertFails
<1> QED BY <1>3, <1>7

(* PctStrategy finds a constructor that passes when there are two.         *)
LEMMA DrawsEnd ==
  ASSUME NEW programs, RunsPrograms(programs), programs \subseteq ProvedPrograms,
         StateInv, HistoryInv, PlaceInv(programs), LockInv, phase = "run",
         kind = "pct" => Program # "deadlock" /\ Values # {}
  PROVE  ~DrawsForever
<1>1. Program \in ProvedPrograms /\ ArePlaced(Program, threads) BY DEF PlaceInv
<1>2. PICK cur : cur = Current(threads) /\ ProgramInv(cur) BY DEF LockInv
<1>3. \A p \in Picks : NeedsTask(p.thread) => Creates(p.thread) # {}
  BY <1>1, <1>2, PicksAreThreads, CreatesExist DEF PickOK
<1> QED BY <1>3 DEF DrawsForever

(* A round of these programs is compared without an exception: no task of  *)
(* its history is one of deadlock.cpp.                                     *)
LEMMA ComparisonsDoNotThrow ==
  ASSUME StateInv, HistoryInv, phase = "run", Program \in CorrectPrograms,
         ArePlaced(Program, threads)
  PROVE  ~TargetCheckThrows(Dereferenced(sequential_history))
<1> SUFFICES ASSUME NEW d, d = Dereferenced(sequential_history), NEW p \in DOMAIN d
             PROVE  d[p].task.call.of # "deadlock"
  BY DEF TargetCheckThrows
<1>1. p \in DOMAIN sequential_history BY DEF Dereferenced
<1>2. PICK i \in Threads : \E n \in 1..Len(threads[i]) :
        GetTask(sequential_history[p].id) = threads[i][n]
  BY <1>1, ReferencesPoint
<1>3. PICK n \in 1..Len(threads[i]) : GetTask(sequential_history[p].id) = threads[i][n]
  BY <1>2
<1>4. d[p].task.call = threads[i][n].call BY <1>1, <1>3 DEF Dereferenced
<1>5. threads[i][n].call \in CallsOf(Program) BY DEF ArePlaced, IsPlaced
<1>6. threads[i][n].call.of = Program BY <1>5, CallsHaveNames DEF CorrectPrograms
<1>7. Program # "deadlock" BY DEF CorrectPrograms
<1> QED BY <1>4, <1>6, <1>7

(* The invariants with that of PctStrategy. *)
LEMMA ProgramsRunWithPct ==
  ASSUME NEW programs, RunsPrograms(programs), programs \subseteq ProvedPrograms
  PROVE  Spec => [](StateInv /\ HistoryInv /\ PctInv /\ PlaceInv(programs) /\ LockInv)
<1>1. Init => PctInv
  <2> SUFFICES ASSUME Init, kind = "pct"
               PROVE  /\ priorities \in [Threads -> Int] /\ current_depth \in Nat \ {0}
                      /\ DOMAIN priority_change_points = 1..(current_depth - 1)
    BY DEF PctInv
  <2>1. current_depth = 1 /\ priority_change_points = << >> /\ priorities \in Priorities(1)
    BY DEF Init, InitStrategy, InitPct
  <2>2. 1..(1 - 1) = {} /\ DOMAIN << >> = {} OBVIOUS
  <2>3. priorities \in [Threads -> Int] BY <2>1, ThreadsAssumption DEF Priorities
  <2> QED BY <2>1, <2>2, <2>3
<1>2. StateInv /\ PctInv /\ [Next]_vars => PctInv' BY PctIsKept
<1>3. Spec => [](StateInv /\ HistoryInv /\ PlaceInv(programs) /\ LockInv) BY ProgramsRun
<1> QED BY <1>1, <1>2, <1>3, PTL DEF Spec

(* assert(!pick_weights.empty() && "deadlock") and its twins fail only in  *)
(* a deadlock of deadlock.cpp, in which every thread is parked in the      *)
(* queue of a mutex whose holder is parked in the other one, and no other  *)
(* assert fails while a round is run: for any number of threads, any       *)
(* length of a round and each strategy.  (PctStrategy cannot start a       *)
(* second task of deadlock.cpp, which has one method, and draws for ever.) *)
THEOREM DeadlocksAreReal ==
  ASSUME NEW programs, RunsPrograms(programs), programs \subseteq ProvedPrograms
  PROVE  Spec => []DeadlockIsReal
<1>1. Init => DeadlockIsReal BY DEF Init, DeadlockIsReal
<1>2. ASSUME StateInv, HistoryInv, PctInv, PlaceInv(programs), LockInv, DeadlockIsReal,
             [Next]_vars
      PROVE  DeadlockIsReal'
  <2>1. CASE Abort
    <3>1. /\ threads' = threads /\ state' = state /\ result' = result
          /\ finished_tasks' = finished_tasks
          /\ (AssertFails /\ ~DrawsForever) \/ phase' = "draw"
      BY <2>1 DEF Abort, strategyVars, baseVars
    <3>2. CASE phase = "run" /\ AssertFails
      <4>2. /\ Program = "deadlock" /\ IsDeadlock(Current(threads), Object)
            /\ \A i \in Threads :
                 threads[i] # << >> /\ Last(threads[i]) = Current(threads)[i]
        BY <1>2, <3>2, OnlyDeadlockAborts
      <4>3. \A i \in Threads :
              /\ threads[i] # << >>
              /\ \E m \in 1..2 :
                   /\ Last(threads[i]).id \in Waiting(Object[m])
                   /\ Head(Object[m]) \in Waiting(Object[3 - m])
        BY <4>2 DEF IsDeadlock
      <4>4. Program' = Program /\ Object' = Object BY <3>1 DEF Program, Object
      <4> QED BY <3>1, <4>2, <4>3, <4>4 DEF DeadlockIsReal, Waiting
    <3>3. CASE phase \in {"terminate", "destroy"}
      BY <1>2, <3>1, <3>3 DEF PlaceInv, DeadlockIsReal
    <3>4. CASE phase' = "draw" BY <3>4 DEF DeadlockIsReal
    <3> QED BY <3>1, <3>2, <3>3, <3>4 DEF AssertFails, InRound
  <2>2. CASE CheckerThrows BY <2>2 DEF CheckerThrows, DeadlockIsReal
  <2>3. CASE StartTask \/ ResumeTask
    BY <2>3 DEF StartTask, ResumeTask, InRound, DeadlockIsReal
  <2>4. CASE FinishRound \/ ReportRound
    BY <2>4 DEF FinishRound, ReportRound, DeadlockIsReal
  <2>5. CASE StartNextRound \/ RunReturns \/ Destroyed
    BY <2>5 DEF StartNextRound, RunReturns, Destroyed, DeadlockIsReal
  <2>6. CASE TerminateTasks BY <2>6 DEF TerminateTasks, schedulerVars, DeadlockIsReal
  <2>7. CASE Ended \/ UNCHANGED vars
    <3>1. /\ threads' = threads /\ state' = state /\ result' = result /\ phase' = phase
          /\ finished_tasks' = finished_tasks
      BY <2>7 DEF Ended, vars, strategyVars, baseVars, schedulerVars
    <3> QED BY <1>2, <3>1 DEF DeadlockIsReal, Program, Object
  <2> QED BY <1>2, <2>1, <2>2, <2>3, <2>4, <2>5, <2>6, <2>7 DEF Next
<1>3. Spec => [](StateInv /\ HistoryInv /\ PctInv /\ PlaceInv(programs) /\ LockInv)
  BY ProgramsRunWithPct
<1> QED BY <1>1, <1>2, <1>3, PTL DEF Spec

(* A round of a correct program never ends the process or stops making     *)
(* progress in a draw: no deadlock is reported, the verifier always lets   *)
(* the picked thread start a task, no assert of the target fails and the   *)
(* checker does not throw, in the first round or after any number of       *)
(* others.                                                                 *)
THEOREM RoundsGoOn ==
  ASSUME NEW programs, RunsPrograms(programs), programs \subseteq CorrectPrograms,
         "pct" \in Kinds => Values # {},
         \A h : CheckThrows(h) = TargetCheckThrows(h)
  PROVE  Spec => RoundsDoNotAbort
<1>0. programs \subseteq ProvedPrograms BY DEF ProvedPrograms
<1>1. ASSUME StateInv, HistoryInv, PctInv, PlaceInv(programs), LockInv, [Next]_vars
      PROVE  [phase = "run" => phase' \notin {"abort", "draw"}]_vars
  <2> SUFFICES ASSUME phase = "run" PROVE phase' \notin {"abort", "draw"} OBVIOUS
  <2>1. Program \in CorrectPrograms /\ Program # "deadlock" /\ ArePlaced(Program, threads)
    BY <1>1 DEF PlaceInv, CorrectPrograms
  <2>2. CASE Abort
    <3>1. kind = "pct" => Program # "deadlock" /\ Values # {}
      BY <1>1, <2>1 DEF StateInv
    <3>2. ~DrawsForever BY <1>0, <1>1, <3>1, DrawsEnd
    <3>3. AssertFails BY <2>2, <3>2 DEF Abort
    <3> QED BY <1>0, <1>1, <2>1, <3>3, OnlyDeadlockAborts
  <2>3. CASE CheckerThrows
    <3>1. TargetCheckThrows(Dereferenced(sequential_history)) BY <2>3 DEF CheckerThrows
    <3> QED BY <1>1, <2>1, <3>1, ComparisonsDoNotThrow
  <2>4. CASE StartTask \/ ResumeTask BY <2>4 DEF StartTask, ResumeTask
  <2>5. CASE FinishRound \/ ReportRound BY <2>5 DEF FinishRound, ReportRound
  <2>6. CASE StartNextRound \/ RunReturns \/ Destroyed
    BY <2>6 DEF StartNextRound, RunReturns, Destroyed
  <2>7. CASE TerminateTasks BY <2>7 DEF TerminateTasks, schedulerVars
  <2>8. CASE Ended \/ UNCHANGED vars BY <2>8 DEF Ended, vars, schedulerVars
  <2> QED BY <1>1, <2>2, <2>3, <2>4, <2>5, <2>6, <2>7, <2>8 DEF Next
<1>2. Spec => [](StateInv /\ HistoryInv /\ PctInv /\ PlaceInv(programs) /\ LockInv)
  BY <1>0, ProgramsRunWithPct
<1> QED BY <1>1, <1>2, PTL DEF Spec, RoundsDoNotAbort

-----------------------------------------------------------------------------
(* Where an operation takes effect: simple_mutex when the word is set,     *)
(* mutex_queue when the item is put or taken, the others when they return. *)
PastPlaces(c) ==
  CASE c.of = "simple_mutex" -> {"acquired", "woken"}
    [] c.of = "mutex_queue"  ->
         {"++cnt", "cnt+1", "assert", "--cnt", "cnt-1", "unlock", "return"}
    [] OTHER -> {}
IsPast(t) == IsReturned(t) \/ t.loc[1] \in PastPlaces(t.call)

(* What a task that is past returns. *)
ValueOf(t) ==
  IF IsReturned(t) THEN t.ret
  ELSE IF t.call.of = "simple_mutex" THEN 0
  ELSE IF t.loc[1] = "return" THEN t.loc[2]
  ELSE IF t.call.name = "Push" THEN void_v ELSE t.loc[2].e

(* The state of the specification that an object stands for. *)
AbsOf(program, o) ==
  CASE program = "simple_mutex"     -> IF o = 0 THEN 0 ELSE 1
    [] program = "folly_rwspinlock" -> IF o % 2 = 1 THEN -1 ELSE o \div 4
    [] program = "atomic_register"  -> o
    [] program = "mutex_queue"      -> o.items

(* A step of the task t, after which it is r. *)
Stays(t, r, abs, abs2) ==
  (IsPast(r) <=> IsPast(t)) /\ (IsPast(t) => ValueOf(r) = ValueOf(t)) /\ abs2 = abs
TakesEffect(t, r, abs, abs2) ==
  /\ ~IsPast(t) /\ IsPast(r)
  /\ abs2 = SpecEffect(abs, t.call) /\ ValueOf(r) = SpecResult(abs, t.call)

(* What a task and the one that it becomes share, by the outcome b. *)
Becomes(t, r, b) ==
  /\ ~IsReturned(t) /\ r.call = t.call
  /\ r.loc = b.loc /\ r.returned = b.returned /\ r.ret = b.ret

(* The outcomes a step of simple_mutex and folly_rwspinlock has. *)
LEMMA WordOutcomes ==
  ASSUME NEW t, NEW r, NEW b, Becomes(t, r, b), NEW obj, NEW place
  PROVE  /\ Simple(b, obj, place, 0) => b.obj = obj /\ ~IsReturned(r) /\ r.loc[1] = place
         /\ Waits(b) => b.obj = 2 /\ ~IsReturned(r) /\ r.loc[1] = "waiting"
         /\ Ends(b, obj, 0) => b.obj = obj /\ IsReturned(r) /\ r.ret = 0
<1>1. \A l : <<place, l>>[1] = place /\ <<"waiting", l>>[1] = "waiting" OBVIOUS
<1> QED BY <1>1 DEF Becomes, Simple, Waits, Ends, IsReturned

(* simple_mutex *)
LEMMA FutexLinearizes ==
  ASSUME NEW o \in 0..2, NEW t, NEW r, NEW b, Becomes(t, r, b), b = FutexMutexBody(o, t),
         t.call \in CallsOf("simple_mutex"),
         t.loc[1] \in PlacesIn("simple_mutex", t.call.name),
         NEW abs, abs = AbsOf("simple_mutex", o),
         NEW abs2, abs2 = AbsOf("simple_mutex", b.obj)
  PROVE  Stays(t, r, abs, abs2) \/ TakesEffect(t, r, abs, abs2)
<1>1. t.call.of = "simple_mutex" /\ t.call.name \in {"Lock", "Unlock"} BY CallsHaveNames
<1>2. /\ \A u : u.call = t.call =>
           /\ IsPast(u) <=> IsReturned(u) \/ u.loc[1] = "acquired" \/ u.loc[1] = "woken"
           /\ ValueOf(u) = IF IsReturned(u) THEN u.ret ELSE 0
      /\ ~IsReturned(t) /\ r.call = t.call
  BY <1>1 DEF IsPast, ValueOf, PastPlaces, Becomes
<1>3. /\ abs = IF o = 0 THEN 0 ELSE 1
      /\ abs2 = IF b.obj = 0 THEN 0 ELSE 1
  BY DEF AbsOf
<1>4. \A s : /\ SpecEffect(s, t.call) = IF t.call.name = "Lock" THEN 1 ELSE 0
             /\ SpecResult(s, t.call) = IF t.call.name = "Lock" /\ s = 1 THEN 1 ELSE 0
  BY <1>1 DEF SpecEffect, SpecResult, Mutexes, Registers, Queues, MutexEffect, MutexResult
<1>5. CASE t.call.name = "Lock"
  <2>1. t.loc[1] \in {"entry", "lock", "waiting", "acquired"} BY <1>5 DEF PlacesIn
  <2>2. \/ Simple(b, o, "lock", 0) /\ t.loc[1] = "entry"
        \/ o = 0 /\ (Simple(b, 1, "acquired", 0) \/ Simple(b, 2, "acquired", 0))
             /\ t.loc[1] \in {"lock", "waiting"}
        \/ o # 0 /\ Waits(b) /\ t.loc[1] \in {"lock", "waiting"}
        \/ Ends(b, o, 0) /\ t.loc[1] = "acquired"
    BY <1>5, <2>1, FutexSteps
  <2>3. \/ b.obj = o /\ ~IsReturned(r) /\ r.loc[1] = "lock" /\ t.loc[1] = "entry"
        \/ /\ o = 0 /\ b.obj # 0 /\ ~IsReturned(r) /\ r.loc[1] = "acquired"
           /\ t.loc[1] \in {"lock", "waiting"}
        \/ /\ o # 0 /\ b.obj # 0 /\ ~IsReturned(r) /\ r.loc[1] = "waiting"
           /\ t.loc[1] \in {"lock", "waiting"}
        \/ b.obj = o /\ IsReturned(r) /\ r.ret = 0 /\ t.loc[1] = "acquired"
    BY <2>2, WordOutcomes
  <2> QED BY <1>2, <1>3, <1>4, <1>5, <2>3 DEF Stays, TakesEffect
<1>6. CASE t.call.name = "Unlock"
  <2>1. t.loc[1] \in {"entry", "unlock", "woken"} BY <1>6 DEF PlacesIn
  <2>2. \/ Simple(b, o, "unlock", 0) /\ t.loc[1] = "entry"
        \/ (Ends(b, 0, 0) \/ Simple(b, 0, "woken", 0)) /\ t.loc[1] = "unlock"
        \/ Ends(b, o, 0) /\ t.loc[1] = "woken"
    BY <1>6, <2>1, FutexSteps
  <2>3. \/ b.obj = o /\ ~IsReturned(r) /\ r.loc[1] = "unlock" /\ t.loc[1] = "entry"
        \/ b.obj = 0 /\ IsReturned(r) /\ r.ret = 0 /\ t.loc[1] = "unlock"
        \/ b.obj = 0 /\ ~IsReturned(r) /\ r.loc[1] = "woken" /\ t.loc[1] = "unlock"
        \/ b.obj = o /\ IsReturned(r) /\ r.ret = 0 /\ t.loc[1] = "woken"
    BY <2>2, WordOutcomes
  <2> QED BY <1>2, <1>3, <1>4, <1>6, <2>3 DEF Stays, TakesEffect
<1> QED BY <1>1, <1>5, <1>6

(* folly_rwspinlock: only its holders unlock it. *)
LEMMA SpinLinearizes ==
  ASSUME NEW o, NEW t, NEW r, NEW b, Becomes(t, r, b), b = RWSpinLockBody(o, t),
         t.call \in CallsOf("folly_rwspinlock"),
         t.loc[1] \in PlacesIn("folly_rwspinlock", t.call.name),
         NEW k \in Nat, o = 1 \/ o = 4 * k,
         t.call.name = "unlock" => o = 1,
         t.call.name = "unlock_shared" => o = 4 * k,
         NEW abs, abs = AbsOf("folly_rwspinlock", o),
         NEW abs2, abs2 = AbsOf("folly_rwspinlock", b.obj)
  PROVE  Stays(t, r, abs, abs2) \/ TakesEffect(t, r, abs, abs2)
<1>1. /\ t.call.of = "folly_rwspinlock"
      /\ t.call.name \in {"lock", "lock_shared", "unlock", "unlock_shared"}
  BY CallsHaveNames
<1>2. /\ \A u : u.call = t.call =>
           /\ IsPast(u) <=> IsReturned(u)
           /\ IsReturned(u) => ValueOf(u) = u.ret
      /\ ~IsReturned(t) /\ r.call = t.call
  BY <1>1 DEF IsPast, ValueOf, PastPlaces, Becomes
<1>3. \A x : /\ x = 1 => AbsOf("folly_rwspinlock", x) = -1
             /\ \A m \in Int : x = 4 * m => AbsOf("folly_rwspinlock", x) = m
  BY DEF AbsOf
<1>4. \A s : /\ SpecEffect(s, t.call) = SharedMutexEffect(s, t.call)
             /\ SpecResult(s, t.call) = SharedMutexResult(s, t.call)
  BY <1>1 DEF SpecEffect, SpecResult, Mutexes, Registers, Queues
<1>5. t.loc[1] = "entry" \/ t.loc[1] = "bits_" BY DEF PlacesIn
<1>6. CASE Simple(b, o, "bits_", 0)
  <2>1. b.obj = o /\ ~IsReturned(r) BY <1>6, WordOutcomes
  <2> QED BY <1>2, <2>1 DEF Stays
<1>7. CASE ~Simple(b, o, "bits_", 0)
  <2>1. t.loc[1] = "bits_" BY <1>5, <1>7, SpinSteps
  <2>2. PICK name : name = t.call.name OBVIOUS
  <2>3. /\ name = "lock" => o = 0 /\ Ends(b, 1, 0)
        /\ name = "lock_shared" => o % 2 = 0 /\ Ends(b, o + 4, 0)
        /\ name = "unlock" => Ends(b, o - (o % 2), 0)
        /\ name = "unlock_shared" => Ends(b, o - 4, 0)
    BY <1>7, <2>1, <2>2, SpinSteps
  <2>4. /\ name = "lock" => o = 0 /\ b.obj = 1
        /\ name = "lock_shared" => o = 4 * k /\ b.obj = 4 * (k + 1)
        /\ name = "unlock" => o = 1 /\ b.obj = 4 * 0
        /\ name = "unlock_shared" => o = 4 * k /\ b.obj = 4 * (k - 1)
    BY <2>2, <2>3 DEF Ends
  <2>5. IsReturned(r) /\ r.ret = 0 BY <1>1, <2>2, <2>3 DEF Becomes, Ends, IsReturned
  <2>6. abs2 = SharedMutexEffect(abs, t.call) /\ 0 = SharedMutexResult(abs, t.call)
    <3>1. CASE name = "lock"
      <4>1. o = 4 * 0 /\ abs = 0 /\ abs2 = -1 BY <1>3, <2>4, <3>1
      <4> QED BY <2>2, <3>1, <4>1 DEF SharedMutexEffect, SharedMutexResult
    <3>2. CASE name = "lock_shared"
      <4>1. abs = k /\ abs2 = k + 1 BY <1>3, <2>4, <3>2
      <4> QED BY <2>2, <3>2, <4>1 DEF SharedMutexEffect, SharedMutexResult
    <3>3. CASE name = "unlock"
      <4>1. abs2 = 0 BY <1>3, <2>4, <3>3
      <4> QED BY <2>2, <3>3, <4>1 DEF SharedMutexEffect, SharedMutexResult
    <3>4. CASE name = "unlock_shared"
      <4>1. abs = k /\ abs2 = k - 1 BY <1>3, <2>4, <3>4
      <4> QED BY <2>2, <3>4, <4>1 DEF SharedMutexEffect, SharedMutexResult
    <3> QED BY <1>1, <2>2, <3>1, <3>2, <3>3, <3>4
  <2> QED BY <1>2, <1>4, <2>5, <2>6 DEF TakesEffect
<1> QED BY <1>6, <1>7

(* atomic_register *)
LEMMA RegisterLinearizes ==
  ASSUME NEW o, NEW t, NEW r, NEW b, Becomes(t, r, b), b = AtomicRegisterBody(o, t),
         t.call \in CallsOf("atomic_register"),
         t.loc[1] \in PlacesIn("atomic_register", t.call.name),
         NEW abs, abs = AbsOf("atomic_register", o),
         NEW abs2, abs2 = AbsOf("atomic_register", b.obj)
  PROVE  Stays(t, r, abs, abs2) \/ TakesEffect(t, r, abs, abs2)
<1>1. t.call.of = "atomic_register" /\ t.call.name \in {"add", "get"} BY CallsHaveNames
<1>2. /\ \A u : u.call = t.call =>
           /\ IsPast(u) <=> IsReturned(u)
           /\ IsReturned(u) => ValueOf(u) = u.ret
      /\ ~IsReturned(t) /\ r.call = t.call
  BY <1>1 DEF IsPast, ValueOf, PastPlaces, Becomes
<1>3. abs = o /\ abs2 = b.obj BY DEF AbsOf
<1>4. /\ SpecEffect(abs, t.call) = IF t.call.name = "add" THEN abs + 1 ELSE abs
      /\ SpecResult(abs, t.call) = IF t.call.name = "get" THEN abs ELSE -1
  BY <1>1 DEF SpecEffect, SpecResult, Mutexes, Registers, Queues, RegisterEffect,
              RegisterResult, void_v
<1>5. t.loc[1] \in {"entry", "x"} BY DEF PlacesIn
<1>6. CASE t.loc[1] = "entry"
  <2>1. b.obj = o /\ ~IsReturned(r) BY <1>6, RegisterSteps, WordOutcomes
  <2> QED BY <1>2, <1>3, <2>1 DEF Stays
<1>7. CASE t.loc[1] = "x"
  <2>1. IF t.call.name = "add" THEN Ends(b, o + 1, -1) ELSE Ends(b, o, o)
    BY <1>7, RegisterSteps
  <2>2. /\ IsReturned(r)
        /\ t.call.name = "add" => b.obj = o + 1 /\ r.ret = -1
        /\ t.call.name # "add" => b.obj = o /\ r.ret = o
    BY <2>1 DEF Becomes, Ends, IsReturned
  <2> QED BY <1>1, <1>2, <1>3, <1>4, <2>2 DEF TakesEffect
<1> QED BY <1>5, <1>6, <1>7

(* mutex_queue: the item is put or taken once the mutex is locked. *)
LEMMA QueueLinearizes ==
  ASSUME NEW q, DOMAIN q = {"waiters", "items", "cnt"},
         NEW t, NEW r, NEW b, Becomes(t, r, b), b = MutexQueueBody(q, t),
         t.call \in CallsOf("mutex_queue"),
         t.loc[1] \in PlacesIn("mutex_queue", t.call.name),
         NEW abs, abs = AbsOf("mutex_queue", q),
         NEW abs2, abs2 = AbsOf("mutex_queue", b.obj)
  PROVE  Stays(t, r, abs, abs2) \/ TakesEffect(t, r, abs, abs2)
<1>1. t.call.of = "mutex_queue" /\ t.call.name \in {"Push", "Pop"} BY CallsHaveNames
<1>2. PICK place, e, cnt :
        /\ place = t.loc[1] /\ e = t.loc[2].e /\ cnt = t.loc[2].cnt
  OBVIOUS
<1>3. PICK after :
        after = {"++cnt", "cnt+1", "assert", "--cnt", "cnt-1", "unlock"}
  OBVIOUS
<1>4. /\ \A u : u.call = t.call /\ ~IsReturned(u) =>
           /\ IsPast(u) <=> u.loc[1] \in after \/ u.loc[1] = "return"
           /\ u.loc[1] = "return" => ValueOf(u) = u.loc[2]
           /\ u.loc[1] # "return" =>
                ValueOf(u) = IF t.call.name = "Push" THEN -1 ELSE u.loc[2].e
      /\ ~IsReturned(t) /\ r.call = t.call
      /\ IsReturned(r) => IsPast(r) /\ ValueOf(r) = r.ret
  BY <1>1, <1>3 DEF IsPast, ValueOf, PastPlaces, Becomes, void_v
<1>5. abs = q.items /\ abs2 = b.obj.items BY DEF AbsOf
<1>7. ASSUME NEW obj, NEW p, NEW l, Simple(b, obj, p, l)
      PROVE  b.obj = obj /\ ~IsReturned(r) /\ r.loc[1] = p /\ r.loc[2] = l
  <2>1. b.loc = <<p, l>> BY <1>7 DEF Simple
  <2> QED BY <1>7, <2>1 DEF Becomes, Simple, IsReturned
<1>8. \A x, y : [e |-> x, cnt |-> y].e = x OBVIOUS
<1>9. ASSUME NEW obj, NEW p \in after, NEW n, obj.items = q.items, place \in after,
             Simple(b, obj, p, [e |-> e, cnt |-> n])
      PROVE  Stays(t, r, abs, abs2)
  <2>1. b.obj = obj /\ ~IsReturned(r) /\ r.loc[1] = p /\ r.loc[2].e = e
    BY <1>7, <1>8, <1>9
  <2>2. p # "return" /\ place # "return" BY <1>3, <1>9
  <2> QED BY <1>2, <1>4, <1>5, <1>9, <2>1, <2>2 DEF Stays
<1>10. CASE place = "entry" \/ place = "lock"
  <2>1. b.obj.items = q.items /\ ~IsReturned(r) /\ r.loc[1] \in {"lock", "locked"}
    <3>1. CASE place = "entry"
      <4>1. Simple(b, q, "lock", 0) BY <1>2, <3>1, TokenSteps
      <4> QED BY <1>7, <4>1
    <3>2. CASE place = "lock"
      <4>1. Queued(b, q, t) BY <1>2, <3>2, TokenSteps
      <4>2. b.loc[1] = "locked" BY <4>1, OutcomesLeave DEF LeavesAt
      <4> QED BY <4>1, <4>2 DEF Queued, Becomes, IsReturned
    <3> QED BY <1>10, <3>1, <3>2
  <2> QED BY <1>2, <1>3, <1>4, <1>5, <1>10, <2>1 DEF Stays
<1>11. CASE place = "locked"
  <2>1. PICK obj, l : /\ obj = [q EXCEPT !.items = AfterItem(q, t.call)]
                      /\ l = [e |-> TakenItem(q, t.call), cnt |-> 0]
    OBVIOUS
  <2>2. Simple(b, obj, "++cnt", l) BY <1>2, <1>11, <2>1, TokenSteps
  <2>3. obj.items = AfterItem(q, t.call) /\ l.e = TakenItem(q, t.call) BY <2>1
  <2>4. /\ b.obj = obj /\ ~IsReturned(r) /\ r.loc[1] = "++cnt" /\ r.loc[2] = l
    BY <1>7, <2>2
  <2>5. /\ SpecEffect(q.items, t.call) = QueueEffect(q.items, t.call)
        /\ SpecResult(q.items, t.call) = QueueResult(q.items, t.call)
    BY <1>1 DEF SpecEffect, SpecResult, Mutexes, Registers, Queues
  <2>6. AfterItem(q, t.call) = QueueEffect(q.items, t.call)
    BY <1>1 DEF AfterItem, QueueEffect
  <2>7. (IF t.call.name = "Push" THEN -1 ELSE TakenItem(q, t.call))
          = QueueResult(q.items, t.call)
    BY <1>1 DEF TakenItem, QueueResult, void_v
  <2>8. ~IsPast(t) /\ IsPast(r) BY <1>2, <1>3, <1>4, <1>11, <2>4
  <2>9. ValueOf(r) = IF t.call.name = "Push" THEN -1 ELSE TakenItem(q, t.call)
    BY <1>4, <2>3, <2>4
  <2> QED BY <1>5, <2>3, <2>4, <2>5, <2>6, <2>7, <2>8, <2>9 DEF TakesEffect
<1>12. CASE place = "++cnt"
  <2>1. Simple(b, q, "cnt+1", [e |-> e, cnt |-> q.cnt]) BY <1>2, <1>12, TokenSteps
  <2> QED BY <1>3, <1>9, <1>12, <2>1
<1>13. CASE place = "cnt+1"
  <2>1. PICK obj : obj = [q EXCEPT !.cnt = cnt + 1] OBVIOUS
  <2>2. Simple(b, obj, "assert", [e |-> e, cnt |-> 0]) BY <1>2, <1>13, <2>1, TokenSteps
  <2>3. obj.items = q.items BY <2>1
  <2> QED BY <1>3, <1>9, <1>13, <2>2, <2>3
<1>14. CASE place = "assert"
  <2>1. PICK l : l = [e |-> e, cnt |-> 0] /\ l.e = e BY <1>8
  <2>2. Asserted(b, q, l) BY <1>2, <1>14, <2>1, TokenSteps
  <2>3. b.loc = <<"--cnt", l>> BY <2>2 DEF Asserted
  <2>4. b.obj = q /\ ~IsReturned(r) /\ r.loc[1] = "--cnt" /\ r.loc[2].e = e
    BY <2>1, <2>2, <2>3 DEF Asserted, Becomes, IsReturned
  <2> QED BY <1>2, <1>3, <1>4, <1>5, <1>14, <2>4 DEF Stays
<1>15. CASE place = "--cnt"
  <2>1. Simple(b, q, "cnt-1", [e |-> e, cnt |-> q.cnt]) BY <1>2, <1>15, TokenSteps
  <2> QED BY <1>3, <1>9, <1>15, <2>1
<1>16. CASE place = "cnt-1"
  <2>1. PICK obj : obj = [q EXCEPT !.cnt = cnt - 1] OBVIOUS
  <2>2. Simple(b, obj, "unlock", [e |-> e, cnt |-> 0]) BY <1>2, <1>16, <2>1, TokenSteps
  <2>3. obj.items = q.items BY <2>1
  <2> QED BY <1>3, <1>9, <1>16, <2>2, <2>3
<1>17. CASE place = "unlock"
  <2>1. Unqueued(b, q, t) BY <1>2, <1>17, TokenSteps
  <2>2. b.obj.items = q.items BY <2>1 DEF Unqueued
  <2>3. /\ t.call.name = "Push" => IsReturned(r) /\ r.ret = -1
        /\ t.call.name # "Push" => ~IsReturned(r) /\ r.loc[1] = "return" /\ r.loc[2] = e
    BY <1>2, <2>1 DEF Unqueued, Becomes, IsReturned
  <2>4. IsPast(t) /\ ValueOf(t) = IF t.call.name = "Push" THEN -1 ELSE e
    BY <1>2, <1>3, <1>4, <1>17
  <2>5. IsPast(r) /\ ValueOf(r) = IF t.call.name = "Push" THEN -1 ELSE e
    BY <1>4, <2>3
  <2> QED BY <1>5, <2>2, <2>4, <2>5 DEF Stays
<1>18. CASE place = "return"
  <2>1. Ends(b, q, t.loc[2]) BY <1>2, <1>18, TokenSteps
  <2>2. b.obj = q /\ IsReturned(r) /\ r.ret = t.loc[2]
    BY <2>1 DEF Ends, Becomes, IsReturned
  <2> QED BY <1>2, <1>4, <1>5, <1>18, <2>2 DEF Stays
<1> QED BY <1>2, <1>10, <1>11, <1>12, <1>13, <1>14, <1>15, <1>16, <1>17, <1>18
     DEF PlacesIn

(* What is known of the operations of the history h, with the tasks th. *)
OpsOf(h, th) ==
  [p \in InvokesOf(h) |->
     [call |-> SlotOf(th, h[p].id).call, past |-> IsPast(SlotOf(th, h[p].id)),
      value |-> ValueOf(SlotOf(th, h[p].id))]]

(* A step of a task keeps the round explained. *)
LEMMA StepExplains ==
  ASSUME NEW h, NEW g, NEW th, NEW tg, NEW q, NEW t, NEW r,
         Advances(h, g, th, tg, q, t, r), q \in InvokesOf(h) \/ ~IsPast(t), r.call = t.call,
         NEW abs, NEW abs2 \in SpecStates, Explained(h, OpsOf(h, th), abs),
         Stays(t, r, abs, abs2) \/ TakesEffect(t, r, abs, abs2),
         Effect(abs, t.call) = SpecEffect(abs, t.call),
         Result(abs, t.call) = SpecResult(abs, t.call)
  PROVE  Explained(g, OpsOf(g, tg), abs2)
<1>1. PICK op, op2 : op = OpsOf(h, th) /\ op2 = OpsOf(g, tg) OBVIOUS
<1>2. /\ q \in InvokesOf(g)
      /\ \A p \in InvokesOf(h) : p # q => Alike(SlotOf(th, h[p].id), SlotOf(tg, g[p].id))
      /\ SlotOf(tg, g[q].id) = r
      /\ q \in InvokesOf(h) => Alike(SlotOf(th, h[q].id), t)
      /\ \A p \in InvokesOf(h) : p \in InvokesOf(g)
  BY DEF Advances, InvokesOf
<1>3. /\ \A p \in InvokesOf(h) : op[p] =
           [call |-> SlotOf(th, h[p].id).call, past |-> IsPast(SlotOf(th, h[p].id)),
            value |-> ValueOf(SlotOf(th, h[p].id))]
      /\ \A p \in InvokesOf(g) : op2[p] =
           [call |-> SlotOf(tg, g[p].id).call, past |-> IsPast(SlotOf(tg, g[p].id)),
            value |-> ValueOf(SlotOf(tg, g[p].id))]
  BY <1>1 DEF OpsOf
<1>4. ASSUME NEW u, NEW v, Alike(u, v)
      PROVE  u.call = v.call /\ IsPast(u) = IsPast(v) /\ ValueOf(u) = ValueOf(v)
  BY <1>4 DEF Alike, IsPast, ValueOf, IsReturned
<1>5. \A p \in InvokesOf(h) : p # q => op2[p] = op[p]
  <2> SUFFICES ASSUME NEW p \in InvokesOf(h), p # q PROVE op2[p] = op[p] OBVIOUS
  <2>1. PICK u, v : u = SlotOf(th, h[p].id) /\ v = SlotOf(tg, g[p].id) OBVIOUS
  <2>2. u.call = v.call /\ IsPast(u) = IsPast(v) /\ ValueOf(u) = ValueOf(v)
    BY <1>2, <1>4, <2>1
  <2> QED BY <1>2, <1>3, <2>1, <2>2
<1>6. op2[q] = [call |-> r.call, past |-> IsPast(r), value |-> ValueOf(r)]
  BY <1>2, <1>3
<1>7. q \in InvokesOf(h) =>
        op[q] = [call |-> t.call, past |-> IsPast(t), value |-> ValueOf(t)]
  <2> SUFFICES ASSUME q \in InvokesOf(h)
               PROVE  op[q] = [call |-> t.call, past |-> IsPast(t), value |-> ValueOf(t)]
    OBVIOUS
  <2>1. PICK u : u = SlotOf(th, h[q].id) OBVIOUS
  <2>2. u.call = t.call /\ IsPast(u) = IsPast(t) /\ ValueOf(u) = ValueOf(t)
    BY <1>2, <1>4, <2>1
  <2> QED BY <1>3, <2>1, <2>2
<1>8. /\ op2[q].call = t.call /\ (op2[q].past <=> IsPast(r)) /\ op2[q].value = ValueOf(r)
      /\ q \in InvokesOf(h) =>
           op[q].call = t.call /\ (op[q].past <=> IsPast(t)) /\ op[q].value = ValueOf(t)
  BY <1>6, <1>7
<1>9. Stepped(h, g, op, op2, q) BY <1>5, <1>8 DEF Stepped, Advances
<1>10. CASE Stays(t, r, abs, abs2)
  <2>1. op2[q].past <=> q \in InvokesOf(h) /\ op[q].past BY <1>8, <1>10 DEF Stays
  <2>2. op2[q].past => op2[q].value = op[q].value BY <1>8, <1>10, <2>1 DEF Stays
  <2>3. Explained(g, op2, abs) BY <1>1, <1>9, <2>1, <2>2, OrderStays
  <2> QED BY <1>1, <1>10, <2>3 DEF Stays
<1>11. CASE TakesEffect(t, r, abs, abs2)
  <2>1. /\ ~(q \in InvokesOf(h) /\ op[q].past) /\ op2[q].past
        /\ abs2 = Effect(abs, op2[q].call) /\ op2[q].value = Result(abs, op2[q].call)
    BY <1>8, <1>11 DEF TakesEffect
  <2> QED BY <1>1, <1>9, <2>1, OrderGrows
<1> QED BY <1>10, <1>11

(* The constants of the checker are the specification of the program, with *)
(* the results that are numbers.                                           *)
Specifies(program) ==
  /\ Calls = CallsOf(program) /\ Values \subseteq Int
  /\ SpecStates = IF program = "mutex_queue" THEN Seq(Values) ELSE Int
  /\ first_state = FirstSpec(program)
  /\ \A s, c : Result(s, c) = SpecResult(s, c) /\ Effect(s, c) = SpecEffect(s, c)
  /\ \A h : Check(h) = Lin!CheckRecursive(h)

(* It is a specification as the checkers ask for, its methods return       *)
(* numbers, and a fresh object stands for its first state.                 *)
LEMMA SpecIsClosed ==
  ASSUME NEW program \in CorrectPrograms, Specifies(program)
  PROVE  /\ Lin!SpecAssumption
         /\ \A s \in SpecStates, c \in Calls : Result(s, c) \in Int
         /\ first_state = AbsOf(program, FreshObj(program)[2])
<1>1. /\ Calls = CallsOf(program) /\ Values \subseteq Int /\ first_state = FirstSpec(program)
      /\ \A s, c : Result(s, c) = SpecResult(s, c) /\ Effect(s, c) = SpecEffect(s, c)
  BY DEF Specifies
<1>2. SUFFICES /\ first_state \in SpecStates
               /\ \A s \in SpecStates, c \in Calls : Effect(s, c) \in SpecStates
               /\ \A s \in SpecStates, c \in Calls : Result(s, c) \in Int
               /\ first_state = AbsOf(program, FreshObj(program)[2])
  BY DEF Lin!SpecAssumption
<1>3. CASE program = "simple_mutex"
  <2>1. SpecStates = Int /\ first_state = 0
    BY <1>1, <1>3 DEF Specifies, FirstSpec, Containers, Queues
  <2>2. \A s \in Int, c \in Calls : SpecEffect(s, c) \in {0, 1} /\ SpecResult(s, c) \in {0, 1}
    <3> TAKE s \in Int, c \in Calls
    <3>1. c.of = "simple_mutex" BY <1>1, <1>3, CallsHaveNames
    <3>2. SpecEffect(s, c) = MutexEffect(s, c) /\ SpecResult(s, c) = MutexResult(s, c)
      BY <3>1 DEF SpecEffect, SpecResult, Mutexes, Registers, Queues
    <3> QED BY <3>2 DEF MutexEffect, MutexResult
  <2>3. AbsOf(program, FreshObj(program)[2]) = 0 BY <1>3, FreshObjects DEF AbsOf
  <2> QED BY <1>1, <2>1, <2>2, <2>3
<1>4. CASE program = "folly_rwspinlock"
  <2>1. SpecStates = Int /\ first_state = 0
    BY <1>1, <1>4 DEF Specifies, FirstSpec, Containers, Queues
  <2>2. \A s \in Int, c \in Calls : SpecEffect(s, c) \in Int /\ SpecResult(s, c) \in Int
    <3> TAKE s \in Int, c \in Calls
    <3>1. /\ c.of = "folly_rwspinlock"
          /\ c.name \in {"lock", "lock_shared", "unlock", "unlock_shared"}
      BY <1>1, <1>4, CallsHaveNames
    <3>2. /\ SpecEffect(s, c) = SharedMutexEffect(s, c)
          /\ SpecResult(s, c) = SharedMutexResult(s, c)
      BY <3>1 DEF SpecEffect, SpecResult, Mutexes, Registers, Queues
    <3>3. SharedMutexEffect(s, c) \in Int BY <3>1 DEF SharedMutexEffect
    <3>4. SharedMutexResult(s, c) \in Int BY <3>1 DEF SharedMutexResult
    <3> QED BY <3>2, <3>3, <3>4
  <2>3. AbsOf(program, FreshObj(program)[2]) = 0
    <3>1. FreshObj(program)[2] = 0 BY <1>4, FreshObjects
    <3>2. 0 % 2 # 1 /\ 0 \div 4 = 0 OBVIOUS
    <3> QED BY <1>4, <3>1, <3>2 DEF AbsOf
  <2> QED BY <1>1, <2>1, <2>2, <2>3
<1>5. CASE program = "mutex_queue"
  <2>1. SpecStates = Seq(Values) /\ first_state = << >>
    BY <1>1, <1>5 DEF Specifies, FirstSpec, Containers, Queues
  <2>2. << >> \in Seq(Values) OBVIOUS
  <2>3. ASSUME NEW s \in Seq(Values), NEW c \in Calls
        PROVE  SpecEffect(s, c) \in Seq(Values) /\ SpecResult(s, c) \in Int
    <3>1. c \in CallsOf("mutex_queue") BY <1>1, <1>5
    <3>2. c.of = "mutex_queue" /\ c.name \in {"Push", "Pop"} BY <3>1, CallsHaveNames
    <3>3. c.name = "Push" => c.arg \in Values
      BY <3>1 DEF CallsOf, Mutexes, Registers, Containers, Queues
    <3>4. SpecEffect(s, c) = QueueEffect(s, c) /\ SpecResult(s, c) = QueueResult(s, c)
      BY <3>2 DEF SpecEffect, SpecResult, Mutexes, Registers, Queues
    <3>5. s # << >> => Head(s) \in Values /\ Tail(s) \in Seq(Values)
      BY HeadTailProperties
    <3>6. QueueEffect(s, c) \in Seq(Values)
      BY <3>2, <3>3, <3>5, AppendProperties DEF QueueEffect
    <3>7. QueueResult(s, c) \in Int BY <1>1, <3>2, <3>5 DEF QueueResult, void_v
    <3> QED BY <3>4, <3>6, <3>7
  <2>4. AbsOf(program, FreshObj(program)[2]) = << >>
    BY <1>5, FreshObjects DEF AbsOf, EmptyMutexQueue
  <2> QED BY <1>1, <2>1, <2>2, <2>3, <2>4
<1>6. CASE program = "atomic_register"
  <2>1. SpecStates = Int /\ first_state = 0
    BY <1>1, <1>6 DEF Specifies, FirstSpec, Containers, Queues
  <2>2. \A s \in Int, c \in Calls : SpecEffect(s, c) \in Int /\ SpecResult(s, c) \in Int
    <3> TAKE s \in Int, c \in Calls
    <3>1. c.of = "atomic_register" BY <1>1, <1>6, CallsHaveNames
    <3>2. SpecEffect(s, c) = RegisterEffect(s, c) /\ SpecResult(s, c) = RegisterResult(s, c)
      BY <3>1 DEF SpecEffect, SpecResult, Mutexes, Registers, Queues
    <3> QED BY <3>2 DEF RegisterEffect, RegisterResult, void_v
  <2>3. AbsOf(program, FreshObj(program)[2]) = 0 BY <1>6, FreshObjects DEF AbsOf
  <2> QED BY <1>1, <2>1, <2>2, <2>3
<1> QED BY <1>3, <1>4, <1>5, <1>6 DEF CorrectPrograms

(* The word of folly_rwspinlock when one of its tasks is resumed. *)
LEMMA SpinHeld ==
  ASSUME NEW o, NEW cur, NEW st, NEW pk, SpinInv(o, cur, st, pk), NEW i \in Threads, NEW t,
         SpinCall(t.call), IsNew(cur, st, i, t) \/ IsCurrent(cur, i, t, pk)
  PROVE  \E k \in Nat : /\ o = 1 \/ o = 4 * k
                        /\ t.call.name = "unlock" => o = 1
                        /\ t.call.name = "unlock_shared" => o = 4 * k
<1>1. \A j \in Threads : SpinTask(cur[j], st[j]) BY DEF SpinInv
<1>2. BitsTell(o, st)
  <2>1. \A j \in Threads : st[j] \in {FREE, WRITER, READER} BY <1>1 DEF SpinTask
  <2> QED BY <2>1 DEF BitsTell, SpinInv
<1>3. st[i] = SpinStatus(t.call)
  <2>1. PICK c, s : c = cur[i] /\ s = st[i] /\ SpinTask(c, s) BY <1>1
  <2>2. CASE IsNew(cur, st, i, t)
    <3>1. SharedMutexVerify(st, t.call, i, TRUE)
      BY <2>2 DEF IsNew, TargetVerify, Mutexes, SpinCall
    <3> QED BY <3>1 DEF SharedMutexVerify, SpinStatus, SpinCall
  <2>3. CASE IsCurrent(cur, i, t, pk)
    <3>1. c.call = t.call /\ c.loc = t.loc /\ ~IsReturned(c) BY <2>1, <2>3 DEF IsCurrent
    <3> QED BY <2>1, <3>1 DEF SpinTask, SpinStatus, SpinCall
  <2> QED BY <2>2, <2>3
<1>4. /\ t.call.name = "unlock" => i \in Having(st, WRITER)
      /\ t.call.name = "unlock_shared" => i \in Having(st, READER)
  BY <1>3 DEF SpinStatus, Having
<1>5. CASE /\ Having(st, WRITER) = {} /\ Cardinality(Having(st, READER)) \in Nat
           /\ o = 4 * Cardinality(Having(st, READER))
  BY <1>4, <1>5
<1>6. CASE Having(st, READER) = {} /\ o = 1
  <2>1. 0 \in Nat OBVIOUS
  <2> QED BY <1>4, <1>6, <2>1
<1> QED BY <1>2, <1>5, <1>6, BitsCases

(* A step of a task takes effect, or changes nothing one could see. *)
LEMMA StepsLinearize ==
  ASSUME NEW i \in Threads, NEW t, NEW b, NEW r, Acts(i, t, b),
         StepOf(Program, b, t, r, state, state'), Program \in CorrectPrograms,
         DOMAIN status = Threads, ProgramInv(Current(threads)),
         NEW abs, abs = AbsOf(Program, Object),
         NEW abs2, abs2 = AbsOf(Program, Object')
  PROVE  Stays(t, r, abs, abs2) \/ TakesEffect(t, r, abs, abs2)
<1>1. /\ b = MethodOf(Program, Object, t) /\ t.call \in CallsOf(Program)
      /\ t.loc[1] \in PlacesIn(Program, t.call.name)
      /\ Object' = b.obj /\ ~IsReturned(t)
      /\ \/ IsNew(Current(threads), status, i, t)
         \/ IsCurrent(Current(threads), i, t, parked)
  BY ActTells
<1>2. Becomes(t, r, b) BY <1>1 DEF Becomes, StepOf
<1>3. CASE Program = "simple_mutex"
  <2>1. Object \in 0..2 BY <1>3 DEF ProgramInv, FutexInv
  <2>2. b = FutexMutexBody(Object, t) BY <1>1, <1>3 DEF MethodOf
  <2> QED BY <1>1, <1>2, <1>3, <2>1, <2>2, FutexLinearizes
<1>4. CASE Program = "folly_rwspinlock"
  <2>1. b = RWSpinLockBody(Object, t) BY <1>1, <1>4 DEF MethodOf
  <2>2. PICK o, cur, st, pk :
          /\ o = Object /\ cur = Current(threads) /\ st = status /\ pk = parked
    OBVIOUS
  <2>3. SpinInv(o, cur, st, pk) BY <1>4, <2>2 DEF ProgramInv
  <2>4. SpinCall(t.call) BY <1>1, <1>4, CallsHaveNames DEF SpinCall
  <2>5. IsNew(cur, st, i, t) \/ IsCurrent(cur, i, t, pk) BY <1>1, <2>2
  <2>6. PICK k \in Nat : /\ o = 1 \/ o = 4 * k
                         /\ t.call.name = "unlock" => o = 1
                         /\ t.call.name = "unlock_shared" => o = 4 * k
    BY <2>3, <2>4, <2>5, SpinHeld
  <2> QED BY <1>1, <1>2, <1>4, <2>1, <2>2, <2>6, SpinLinearizes
<1>5. CASE Program = "mutex_queue"
  <2>1. DOMAIN Object = {"waiters", "items", "cnt"} BY <1>5 DEF ProgramInv, TokenInv
  <2>2. b = MutexQueueBody(Object, t) BY <1>1, <1>5 DEF MethodOf
  <2> QED BY <1>1, <1>2, <1>5, <2>1, <2>2, QueueLinearizes
<1>6. CASE Program = "atomic_register"
  <2>1. b = AtomicRegisterBody(Object, t) BY <1>1, <1>6 DEF MethodOf
  <2> QED BY <1>1, <1>2, <1>6, <2>1, RegisterLinearizes
<1> QED BY <1>3, <1>4, <1>5, <1>6 DEF CorrectPrograms

(* A step of a round, as a step of the operations of its history. *)
LEMMA RoundAdvances ==
  ASSUME NEW programs, RunsPrograms(programs), Program \in ProvedPrograms,
         StateInv, HistoryInv, RoundIsWellFormed, ArePlaced(Program, threads),
         StateInv', HistoryInv', StartTask \/ ResumeTask,
         NEW h, h = sequential_history, NEW g, g = sequential_history'
  PROVE  \E i \in Threads : \E t, b, r, q :
           /\ Acts(i, t, b) /\ StepOf(Program, b, t, r, state, state')
           /\ Advances(h, g, threads, threads', q, t, r)
           /\ q \in InvokesOf(h) \/ ~IsPast(t)
<1>1. phase = "run" /\ phase' = "run" BY DEF StartTask, ResumeTask, InRound
<1>2. CASE StartTask
  <2>1. PICK i \in Threads : \E c, th, r : Starts(i, c, th, r) BY <1>2, StartShape
  <2>2. PICK c, th, r : Starts(i, c, th, r) BY <2>1
  <2>3. PICK t : t = New(new_task_id, c, i) OBVIOUS
  <2>4. PICK b : Acts(i, t, b) /\ StepOf(Program, b, t, r, state, state')
    BY <1>1, <2>2, <2>3, StartActs
  <2>5. PICK q : Advances(h, g, threads, threads', q, t, r)
    BY <1>1, <2>2, StartAdvances
  <2>6. ~IsPast(t)
    <3>1. t.loc[1] = "entry" BY <2>3 DEF New
    <3>2. "entry" \notin PastPlaces(t.call) BY DEF PastPlaces
    <3> QED BY <2>4, <3>1, <3>2 DEF IsPast, Acts
  <2> QED BY <2>4, <2>5, <2>6
<1>3. CASE ResumeTask
  <2>1. PICK i \in Threads : \E th, r : Resumes(i, th, r) BY <1>3, ResumeShape
  <2>2. PICK th, r : Resumes(i, th, r) BY <2>1
  <2>3. PICK t : t = th[i][Len(th[i])] OBVIOUS
  <2>4. PICK b : Acts(i, t, b) /\ StepOf(Program, b, t, r, state, state')
    BY <1>1, <2>2, <2>3, ResumeActs
  <2>5. PICK q \in InvokesOf(h) : Advances(h, g, threads, threads', q, t, r)
    BY <1>1, <2>2, <2>3, ResumeAdvances
  <2> QED BY <2>4, <2>5
<1> QED BY <1>2, <1>3

(* While a round is run its operations that are past can be executed in    *)
(* the order in which they took effect, and lead the specification to the  *)
(* state that the object stands for.                                       *)
ExplainInv ==
  phase = "run" =>
    Explained(sequential_history, OpsOf(sequential_history, threads),
              AbsOf(Program, Object))

(* This holds when a round begins. *)
LEMMA FreshIsExplained ==
  ASSUME NEW program \in CorrectPrograms, Specifies(program), NEW h, h = << >>, NEW th,
         NEW obj, obj = FreshObj(program)
  PROVE  Explained(h, OpsOf(h, th), AbsOf(program, obj[2]))
<1>1. InvokesOf(h) = {} BY DEF InvokesOf
<1>2. first_state \in SpecStates /\ first_state = AbsOf(program, obj[2])
  BY SpecIsClosed DEF Lin!SpecAssumption
<1> QED BY <1>1, <1>2, NothingIsExplained

(* Every step keeps it. *)
LEMMA ExplainedIsKept ==
  ASSUME NEW program \in CorrectPrograms, RunsPrograms({program}), Specifies(program),
         StateInv, HistoryInv, RoundIsWellFormed, PlaceInv({program}), LockInv, ExplainInv,
         StateInv', HistoryInv', [Next]_vars
  PROVE  ExplainInv'
<1>1. /\ Program = program /\ Program \in ProvedPrograms /\ Program \in CorrectPrograms
      /\ ArePlaced(Program, threads) /\ {program} \subseteq ProvedPrograms
  BY DEF PlaceInv, CorrectPrograms, ProvedPrograms
<1>2. CASE StartTask \/ ResumeTask
  <2>1. PICK h, g, abs, abs2 :
          /\ h = sequential_history /\ g = sequential_history'
          /\ abs = AbsOf(Program, Object) /\ abs2 = AbsOf(Program, Object')
    OBVIOUS
  <2>2. phase = "run" BY <1>2 DEF StartTask, ResumeTask, InRound
  <2>3. PICK i \in Threads : \E t, b, r, q :
          /\ Acts(i, t, b) /\ StepOf(Program, b, t, r, state, state')
          /\ Advances(h, g, threads, threads', q, t, r)
          /\ q \in InvokesOf(h) \/ ~IsPast(t)
    BY <1>1, <1>2, <2>1, RoundAdvances
  <2>4. PICK t, b, r, q :
          /\ Acts(i, t, b) /\ StepOf(Program, b, t, r, state, state')
          /\ Advances(h, g, threads, threads', q, t, r)
          /\ q \in InvokesOf(h) \/ ~IsPast(t)
    BY <2>3
  <2>5. Stays(t, r, abs, abs2) \/ TakesEffect(t, r, abs, abs2)
    <3>1. DOMAIN status = Threads /\ ProgramInv(Current(threads)) BY <2>2 DEF LockInv
    <3> QED BY <1>1, <2>1, <2>4, <3>1, StepsLinearize
  <2>6. t.call \in Calls /\ r.call = t.call
    BY <1>1, <2>4 DEF Specifies, Acts, IsPlaced, StepOf
  <2>7. /\ Effect(abs, t.call) = SpecEffect(abs, t.call)
        /\ Result(abs, t.call) = SpecResult(abs, t.call)
    BY DEF Specifies
  <2>8. Explained(h, OpsOf(h, threads), abs) BY <2>1, <2>2 DEF ExplainInv
  <2>9. abs2 \in SpecStates
    <3>1. abs \in SpecStates BY <2>8, AbsIsState
    <3>2. Effect(abs, t.call) \in SpecStates
      BY <2>6, <3>1, SpecIsClosed DEF Lin!SpecAssumption
    <3> QED BY <2>5, <2>7, <3>1, <3>2 DEF Stays, TakesEffect
  <2>10. Explained(g, OpsOf(g, threads'), abs2)
    BY <2>4, <2>5, <2>6, <2>7, <2>8, <2>9, StepExplains
  <2>11. Program' = Program BY <2>4, ActTells
  <2> QED BY <2>1, <2>10, <2>11 DEF ExplainInv
<1>3. CASE Abort \/ CheckerThrows BY <1>3 DEF Abort, CheckerThrows, ExplainInv
<1>4. CASE FinishRound \/ ReportRound BY <1>4 DEF FinishRound, ReportRound, ExplainInv
<1>5. CASE RunReturns \/ Destroyed BY <1>5 DEF RunReturns, Destroyed, ExplainInv
<1>6. CASE TerminateTasks BY <1>6 DEF TerminateTasks, schedulerVars, ExplainInv
<1>7. CASE StartNextRound
  <2>1. state' = FreshObj(program) /\ sequential_history' = << >>
    BY <1>1, <1>7, ObjectsAreNamed DEF StartNextRound, ResetObjects, Program
  <2>2. Program' = program BY <1>1, <2>1, ObjectsAreNamed DEF Program
  <2>3. Explained(sequential_history', OpsOf(sequential_history', threads'),
                  AbsOf(program, state'[2]))
    BY <2>1, FreshIsExplained
  <2> QED BY <2>2, <2>3 DEF ExplainInv, Object
<1>8. CASE Ended \/ UNCHANGED vars
  <2>1. UNCHANGED vars BY <1>8 DEF Ended
  <2>2. /\ phase' = phase /\ state' = state /\ threads' = threads
        /\ sequential_history' = sequential_history
    BY <2>1 DEF vars, strategyVars, baseVars, schedulerVars
  <2> QED BY <2>2 DEF ExplainInv, Program, Object
<1> QED BY <1>2, <1>3, <1>4, <1>5, <1>6, <1>7, <1>8 DEF Next

(* Then the history is linearizable, and the checker says so. *)
LEMMA ExplainedIsAccepted ==
  ASSUME NEW program \in CorrectPrograms, Specifies(program),
         StateInv, HistoryInv, RoundIsWellFormed, HistoryMatchesTasks,
         PlaceInv({program}), ExplainInv, phase = "run"
  PROVE  Check(Dereferenced(sequential_history))
<1>1. PICK h, d, op, abs :
        /\ h = sequential_history /\ d = Dereferenced(sequential_history)
        /\ op = OpsOf(h, threads) /\ abs = AbsOf(Program, Object)
  OBVIOUS
<1>2. Explained(h, op, abs) BY <1>1 DEF ExplainInv
<1>3. Program = program /\ ArePlaced(program, threads) BY DEF PlaceInv
<1>4. AreQueues(threads) /\ Linked(h, IdsOf(threads), OpenOf(threads))
  BY <1>1 DEF StateInv, HistoryInv
<1>5. ASSUME NEW p \in DOMAIN h, NEW u, u = SlotOf(threads, h[p].id)
      PROVE  /\ GetTask(h[p].id) = u /\ u.call \in Calls
             /\ IsReturned(u) <=>
                  \E j \in DOMAIN h : h[j].type = "response" /\ h[j].id = h[p].id
             /\ ~IsReturned(u) => u.ret = NoRet
  <2>1. GetTask(h[p].id) = u BY <1>1, <1>5, GetTaskIsSlot
  <2>2. HasTask(threads, u) /\ u.id = h[p].id BY <1>4, <1>5, EventHasTask
  <2>3. PICK i \in Threads : \E k \in 1..Len(threads[i]) : u = threads[i][k]
    BY <2>2 DEF HasTask
  <2>4. PICK k \in 1..Len(threads[i]) : u = threads[i][k] BY <2>3
  <2>5. IsPlaced(program, u) BY <1>3, <2>4 DEF ArePlaced
  <2>6. k \in DOMAIN threads[i]
    <3>1. IsSeq(threads[i]) BY <1>4 DEF AreQueues, IsQueue
    <3> QED BY <2>4, <3>1, SeqDomain
  <2>7. IsReturned(u) <=>
          u.id \in {h[j].id : j \in {m \in DOMAIN h : h[m].type = "response"}}
    BY <1>1, <2>4, <2>6 DEF HistoryMatchesTasks
  <2> QED BY <2>1, <2>2, <2>5, <2>7 DEF IsPlaced, Specifies
<1>6. ASSUME NEW p \in InvokesOf(h), NEW u, u = SlotOf(threads, h[p].id)
      PROVE  /\ op[p].call = u.call
             /\ IsReturned(u) => op[p].past /\ op[p].value = u.ret
  <2>1. op[p] = [call |-> u.call, past |-> IsPast(u), value |-> ValueOf(u)]
    BY <1>1, <1>6 DEF OpsOf
  <2>2. op[p].call = u.call /\ (op[p].past <=> IsPast(u)) /\ op[p].value = ValueOf(u)
    BY <2>1
  <2>3. IsReturned(u) => IsPast(u) /\ ValueOf(u) = u.ret BY DEF IsPast, ValueOf
  <2> QED BY <2>2, <2>3
<1>7. ASSUME NEW p \in DOMAIN h, NEW u, u = SlotOf(threads, h[p].id)
      PROVE  u.ret \in Int
  <2>1. CASE ~IsReturned(u) BY <1>5, <1>7, <2>1 DEF NoRet
  <2>2. CASE IsReturned(u)
    <3>1. PICK q \in InvokesOf(h) : h[q].id = h[p].id
      <4>1. h[p].type \in {"invoke", "response"} BY <1>4, <1>7, EventHasTask
      <4>2. h[p].type = "response" =>
              \E q \in DOMAIN h : h[q].type = "invoke" /\ h[q].id = h[p].id
        BY <1>1, <1>7 DEF RoundIsWellFormed
      <4> QED BY <1>7, <4>1, <4>2 DEF InvokesOf
    <3>2. op[q].call = u.call /\ op[q].past /\ op[q].value = u.ret
      BY <1>6, <1>7, <2>2, <3>1
    <3>3. PICK s \in SpecStates : op[q].value = Result(s, op[q].call)
      BY <1>2, <3>2, ValuesAreResults
    <3>4. u.call \in Calls BY <1>5, <1>7
    <3> QED BY <3>2, <3>3, <3>4, SpecIsClosed
  <2> QED BY <2>1, <2>2
<1>8. d \in Seq(Lin!Event) /\ Lin!WellFormed(d)
  <2>1. \A p \in DOMAIN sequential_history :
          /\ GetTask(sequential_history[p].id).call \in Calls
          /\ GetTask(sequential_history[p].id).ret \in Int
    BY <1>1, <1>5, <1>7
  <2> QED BY <1>1, <2>1, CheckedHistory
<1>9. /\ DOMAIN d = DOMAIN h
      /\ \A p \in DOMAIN h :
           /\ d[p].type = h[p].type /\ d[p].task.id = h[p].id
           /\ d[p].task.call = GetTask(h[p].id).call
           /\ d[p].task.ret = GetTask(h[p].id).ret
  BY <1>1 DEF Dereferenced
<1>10. Lin!SpecAssumption BY SpecIsClosed
<1>11. ASSUME NEW p \in InvokesOf(h)
       PROVE  /\ op[p].call = d[p].task.call
              /\ (\E j \in DOMAIN h : h[j].type = "response" /\ h[j].id = h[p].id) =>
                   op[p].past /\ op[p].value = d[p].task.ret
  <2>1. PICK u : u = SlotOf(threads, h[p].id) OBVIOUS
  <2>2. p \in DOMAIN h BY DEF InvokesOf
  <2>3. d[p].task.call = u.call /\ d[p].task.ret = u.ret BY <1>5, <1>9, <2>1, <2>2
  <2> QED BY <1>5, <1>6, <2>1, <2>2, <2>3
<1>12. Lin!Linearizable(d) BY <1>2, <1>9, <1>10, <1>11, ExplainedIsLinearizable
<1>13. Lin!CheckRecursive(d) BY <1>8, <1>10, <1>12, Lin!RecursiveIsExact
<1> QED BY <1>1, <1>13 DEF Specifies

(* simple_mutex, folly_rwspinlock, atomic_register and mutex_queue are     *)
(* never reported, for any number of threads, any length and number of     *)
(* rounds and each strategy, with the checker that ltest::Run builds:      *)
(* whatever the tasks did that are left in the middle when a round ends,   *)
(* and whatever TerminateTasks made of the object of the round before.     *)
THEOREM CorrectProgramsPass ==
  ASSUME NEW program \in CorrectPrograms, RunsPrograms({program}), Specifies(program)
  PROVE  Spec => []NoFalseAlarm
<1>0. {program} \subseteq ProvedPrograms BY DEF ProvedPrograms
<1>1. Init => ExplainInv /\ result # "histories"
  <2> SUFFICES ASSUME Init PROVE ExplainInv /\ result # "histories" OBVIOUS
  <2>1. state \in NewObjs /\ sequential_history = << >> /\ result = "none"
    BY DEF Init, InitStrategy, InitBase
  <2>2. state = FreshObj(program) /\ Program = program
    BY <1>0, <2>1, ObjectsAreNamed DEF Program
  <2> QED BY <2>1, <2>2, FreshIsExplained DEF ExplainInv, Object
<1>2. ASSUME StateInv, HistoryInv, RoundIsWellFormed, PlaceInv({program}), LockInv,
             ExplainInv, StateInv', HistoryInv', [Next]_vars
      PROVE  ExplainInv'
  BY <1>2, ExplainedIsKept
<1>3. ASSUME StateInv, HistoryInv, RoundIsWellFormed, HistoryMatchesTasks,
             PlaceInv({program}), ExplainInv, result # "histories", [Next]_vars
      PROVE  (result # "histories")'
  <2>1. CASE StartTask \/ ResumeTask BY <1>3, <2>1 DEF StartTask, ResumeTask
  <2>2. CASE Abort \/ CheckerThrows BY <1>3, <2>2 DEF Abort, CheckerThrows
  <2>3. CASE FinishRound BY <1>3, <2>3 DEF FinishRound
  <2>4. CASE ReportRound
    <3>1. phase = "run" /\ ~Check(Dereferenced(sequential_history))
      BY <2>4 DEF ReportRound, RoundFinished
    <3> QED BY <1>3, <3>1, ExplainedIsAccepted
  <2>5. CASE StartNextRound \/ RunReturns \/ Destroyed
    BY <1>3, <2>5 DEF StartNextRound, RunReturns, Destroyed
  <2>6. CASE TerminateTasks BY <1>3, <2>6 DEF TerminateTasks, schedulerVars
  <2>7. CASE Ended \/ UNCHANGED vars BY <1>3, <2>7 DEF Ended, vars, schedulerVars
  <2> QED BY <1>3, <2>1, <2>2, <2>3, <2>4, <2>5, <2>6, <2>7 DEF Next
<1>4. result # "histories" => NoFalseAlarm BY DEF NoFalseAlarm
<1>5. Spec => [](StateInv /\ HistoryInv /\ PlaceInv({program}) /\ LockInv)
  <2>1. PICK programs : programs = {program} OBVIOUS
  <2>2. RunsPrograms(programs) /\ programs \subseteq ProvedPrograms BY <1>0, <2>1
  <2>3. Spec => [](StateInv /\ HistoryInv /\ PlaceInv(programs) /\ LockInv)
    BY <2>2, ProgramsRun
  <2>4. PlaceInv(programs) <=> PlaceInv({program}) BY <2>1
  <2> QED BY <2>3, <2>4, PTL
<1>6. Spec => []RoundIsWellFormed BY HistoryIsWellFormed
<1>7. Spec => []HistoryMatchesTasks BY HistoryTellsTasks
<1> QED BY <1>1, <1>2, <1>3, <1>4, <1>5, <1>6, <1>7, PTL DEF Spec
=============================================================================
