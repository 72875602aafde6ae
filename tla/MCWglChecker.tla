---------------------------- MODULE MCWglChecker ----------------------------
(***************************************************************************)
(* The checkers on every history of a few tasks.  A shape says which task  *)
(* each event belongs to: the first event of a task is its invoke and the  *)
(* second, if there is one, its response.  Tasks are numbered in the order *)
(* of their invokes; checkers do not look at anything else of them.        *)
(***************************************************************************)
EXTENDS Checkers, SequentialSpecs, TLC

CONSTANTS
  MinTasks, MaxTasks,   \* bounds on the tasks of a history
  MaxPending,           \* bound on the tasks without a response
  Outcomes              \* the [call, ret] pairs a task can have

Occurrences(shape, k) == {p \in DOMAIN shape : shape[p] = k}
First(shape, k) == CHOOSE p \in Occurrences(shape, k) :
                     \A q \in Occurrences(shape, k) : p <= q

(* The shapes of n tasks, event by event: the next one belongs to a task   *)
(* that has no response yet, or is the invoke of the next task.            *)
Shapes(n) ==
  LET invoked(shape) == {shape[p] : p \in DOMAIN shape}
      open(shape) == {k \in invoked(shape) : Cardinality(Occurrences(shape, k)) = 1}
      nexts(shape) == open(shape) \cup ({Cardinality(invoked(shape)) + 1} \cap 1..n)
      after[len \in 0..(2 * n)] ==
        IF len = 0 THEN {<< >>}
        ELSE UNION {{Append(shape, k) : k \in nexts(shape)} : shape \in after[len - 1]}
  IN {shape \in UNION {after[len] : len \in n..(2 * n)} :
        invoked(shape) = 1..n /\ Cardinality(open(shape)) <= MaxPending}

(* The return value of a pending task is never read: one stands for all. *)
OutcomeIn(shape, k, outcome) ==
  IF Cardinality(Occurrences(shape, k)) = 2 THEN outcome
  ELSE CHOOSE o \in Outcomes : o.call = outcome.call

HistoryOf(shape, outcome) ==
  [p \in DOMAIN shape |->
     LET k == shape[p]
         o == OutcomeIn(shape, k, outcome[k])
         t == [id |-> k, call |-> o.call, ret |-> o.ret]
     IN IF p = First(shape, k) THEN Invoke(t) ELSE Response(t)]

MCHistoryInputs ==
  {HistoryOf(shape, outcome) : shape \in UNION {Shapes(n) : n \in MinTasks..MaxTasks},
                               outcome \in [1..MaxTasks -> Outcomes]}

-----------------------------------------------------------------------------
(* Queue of verifying/specs/queue.h, elements 1 and 2. *)
QueueCalls  == {[name |-> "Push", arg |-> 1], [name |-> "Push", arg |-> 2],
                [name |-> "Pop", arg |-> 0]}
QueueRets   == -1..2
QueueStates == UNION {[1..n -> 1..2] : n \in 0..4}
QueueFirst  == << >>
CappedQueueEffect(s, c) ==
  IF c.name = "Push" /\ Len(s) = 4 THEN s ELSE QueueEffect(s, c)
QueueOutcomes ==
  {[call |-> [name |-> "Push", arg |-> 1], ret |-> void_v],
   [call |-> [name |-> "Push", arg |-> 2], ret |-> void_v],
   [call |-> [name |-> "Pop", arg |-> 0], ret |-> 2]}

(* LinearMutex of verifying/specs/mutex.h. *)
MutexCalls  == {[name |-> "Lock"], [name |-> "Unlock"]}
MutexRets   == 0..1
MutexStates == 0..1
MutexFirst  == 0
MutexOutcomes == [call : MutexCalls, ret : MutexRets]

SameState(lhs, rhs) == lhs = rhs

-----------------------------------------------------------------------------
(* The loop ends: backtracking makes progress through the search tree. *)
Terminates == <>(verdict # "none")
=============================================================================
