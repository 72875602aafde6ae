-------------------------- MODULE SequentialSpecs ---------------------------
(***************************************************************************)
(* Sequential specifications (verifying/specs): what a method returns in a *)
(* state and the state it leaves.  A call is a record of the method's name *)
(* and its argument.                                                       *)
(***************************************************************************)
EXTENDS Integers, Sequences

(* value_wrapper.h: what a method without a result returns; it differs from *)
(* every value a method can return.                                         *)
void_v == -1

(* verifying/specs/queue.h: the state is the deque. *)
QueueResult(deq, c) ==
  CASE c.name = "Push" -> void_v
    [] c.name = "Pop"  -> IF deq = << >> THEN 0 ELSE Head(deq)

QueueEffect(deq, c) ==
  CASE c.name = "Push" -> Append(deq, c.arg)
    [] c.name = "Pop"  -> IF deq = << >> THEN deq ELSE Tail(deq)

(* verifying/specs/mutex.h, LinearMutex: the state is isLocked. *)
MutexResult(isLocked, c) ==
  IF c.name = "Lock" /\ isLocked = 1 THEN 1 ELSE 0

MutexEffect(isLocked, c) == IF c.name = "Lock" THEN 1 ELSE 0

(* LinearMutexEquals: no two states are equal. *)
MutexEquals(lhs, rhs) == FALSE

(* SharedLinearMutex of the same file: locked_state. *)
SharedMutexResult(locked_state, c) ==
  CASE c.name = "lock"        -> IF locked_state # 0 THEN 1 ELSE 0
    [] c.name = "lock_shared" -> IF locked_state = -1 THEN 1 ELSE 0
    [] OTHER -> 0

SharedMutexEffect(locked_state, c) ==
  CASE c.name = "lock"        -> IF locked_state # 0 THEN locked_state ELSE -1
    [] c.name = "lock_shared" -> IF locked_state = -1 THEN -1 ELSE locked_state + 1
    [] c.name = "unlock"        -> 0
    [] c.name = "unlock_shared" -> locked_state - 1

(* verifying/specs/register.h: the state is the stored value. *)
RegisterResult(x, c) == IF c.name = "get" THEN x ELSE void_v
RegisterEffect(x, c) == IF c.name = "add" THEN x + 1 ELSE x

(* verifying/specs/stack.h: the deque, its back at the end. *)
StackResult(deq, c) ==
  IF c.name = "Push" THEN void_v
  ELSE IF deq = << >> THEN 0 ELSE deq[Len(deq)]

StackEffect(deq, c) ==
  IF c.name = "Push" THEN Append(deq, c.arg)
  ELSE IF deq = << >> THEN deq ELSE SubSeq(deq, 1, Len(deq) - 1)

(* verifying/specs/set.h *)
SetResult(st, c) == IF (c.arg \in st) = (c.name = "Erase") THEN 1 ELSE 0
SetEffect(st, c) == IF c.name = "Insert" THEN st \cup {c.arg} ELSE st \ {c.arg}

(* verifying/specs/bounded_queue.h *)
size == 2

BoundedQueueResult(deq, c) ==
  CASE c.name = "Push" -> IF Len(deq) >= size THEN 0 ELSE 1
    [] c.name = "Pop"  -> IF deq = << >> THEN 0 ELSE Head(deq)

BoundedQueueEffect(deq, c) ==
  CASE c.name = "Push" -> IF Len(deq) >= size THEN deq ELSE Append(deq, c.arg)
    [] c.name = "Pop"  -> IF deq = << >> THEN deq ELSE Tail(deq)

(* verifying/specs/unique_args.h: the state is `called`; an empty optional *)
(* is -1.                                                                  *)
UniqueResult(called, c) == IF called + 1 = 3 THEN 3 ELSE -1
UniqueEffect(called, c) == IF called + 1 = 3 THEN 0 ELSE called + 1
=============================================================================
