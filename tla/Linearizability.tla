--------------------------- MODULE Linearizability ---------------------------
(***************************************************************************)
(* What it means for a history to be linearizable with respect to the      *)
(* sequential specification of module Histories: the reference definition  *)
(* that the two checkers of the repository are compared with.  An order of *)
(* operations is a sequence of positions of invokes; states[k] is the      *)
(* state of the specification before the k-th operation of the order.      *)
(***************************************************************************)
EXTENDS Histories

Answered(h, i) == \E j \in Responses(h) : Answers(h, j, i)

(* Every operation of the set S once. *)
Orders(S) ==
  {order \in [1..Cardinality(S) -> S] :
     \A k, m \in 1..Cardinality(S) : order[k] = order[m] => k = m}

(* No operation is placed before one that had returned when it was invoked. *)
RespectsRealTime(h, order) ==
  \A k, m \in DOMAIN order : k < m => ~Precedes(h, order[m], order[k])

(* Executed in this order the specification goes through `states` and      *)
(* returns what the answered tasks returned.                               *)
Legal(h, order, states) ==
  /\ states[1] = first_state
  /\ \A k \in DOMAIN order :
       /\ states[k + 1] = Effect(states[k], h[order[k]].task.call)
       /\ Answered(h, order[k]) =>
            Result(states[k], h[order[k]].task.call) = h[order[k]].task.ret

(* The operations of S can be ordered into a legal sequential execution. *)
Linearizes(h, S) ==
  \E order \in Orders(S) :
    /\ RespectsRealTime(h, order)
    /\ \E states \in [1..(Cardinality(S) + 1) -> SpecStates] :
         Legal(h, order, states)

(* Herlihy and Wing: every answered operation takes effect, and any of the *)
(* operations that are still pending.                                      *)
Linearizable(h) ==
  \E S \in SUBSET Invokes(h) :
    /\ \A i \in Invokes(h) : Answered(h, i) => i \in S
    /\ Linearizes(h, S)

(* The same with the states an order leads to computed instead of guessed, *)
(* for specifications with many states.                                    *)
StatesAlong(h, order) ==
  LET states[k \in 1..(Len(order) + 1)] ==
        IF k = 1 THEN first_state
        ELSE Effect(states[k - 1], h[order[k - 1]].task.call)
  IN states

LinearizableAlong(h) ==
  \E S \in SUBSET Invokes(h) :
    /\ \A i \in Invokes(h) : Answered(h, i) => i \in S
    /\ \E order \in Orders(S) :
         RespectsRealTime(h, order) /\ Legal(h, order, StatesAlong(h, order))
=============================================================================
