------------------------------ MODULE Histories ------------------------------
(***************************************************************************)
(* Histories of a round and the sequential specification they are compared *)
(* with (runtime/include/lincheck.h, runtime/lin_check.cpp).               *)
(*                                                                         *)
(* A history is the std::vector<HistoryEvent> that the schedulers hand to  *)
(* a ModelChecker, positions counted from 1 instead of 0.  An event refers *)
(* to its Task, of which the checkers read the identity (the address), the *)
(* method with its arguments ("call") and GetRetVal() ("ret").             *)
(***************************************************************************)
EXTENDS Naturals, Sequences, FiniteSets

CONSTANTS
  Calls,         \* a method of the specification together with its arguments
  Rets,          \* the values a method can return (ValueWrapper)
  SpecStates,    \* the states of LinearSpecificationObject
  first_state,   \* the state a check starts from
  Result(_, _),  \* Result(s, c): what method(&s, args) returns
  Effect(_, _)   \* Effect(s, c): the object after method(&s, args)

ASSUME SpecAssumption ==
  /\ first_state \in SpecStates
  /\ \A s \in SpecStates, c \in Calls : Effect(s, c) \in SpecStates

(* A task as a checker sees it, and the two kinds of events. *)
Tasks == [id : Nat, call : Calls, ret : Rets]
Event == [type : {"invoke", "response"}, task : Tasks]

Invoke(t)   == [type |-> "invoke", task |-> t]
Response(t) == [type |-> "response", task |-> t]

Invokes(h)   == {i \in DOMAIN h : h[i].type = "invoke"}
Responses(h) == {i \in DOMAIN h : h[i].type = "response"}

(* Position j holds the response of the task invoked at position i. *)
Answers(h, j, i) == i < j /\ h[j].task.id = h[i].task.id

(* The histories the schedulers build: a task is invoked at most once and  *)
(* answered at most once, after its invocation.                            *)
WellFormed(h) ==
  /\ \A i, j \in Invokes(h) : h[i].task.id = h[j].task.id => i = j
  /\ \A i, j \in Responses(h) : h[i].task.id = h[j].task.id => i = j
  /\ \A j \in Responses(h) : \E i \in Invokes(h) : Answers(h, j, i)

(* get_inv_res_mapping: from the position of an invoke that was answered   *)
(* to the position of its response.  The code keeps the last invoke and    *)
(* the last response of a task; in a well-formed history there is one.     *)
get_inv_res_mapping(h) ==
  [i \in {k \in Invokes(h) : \E j \in Responses(h) : Answers(h, j, k)} |->
      CHOOSE j \in Responses(h) : Answers(h, j, i)]

(* The real-time order of the operations invoked at positions i and k: the *)
(* first one returned before the second one was invoked.                   *)
Precedes(h, i, k) == \E j \in Responses(h) : Answers(h, j, i) /\ j < k
=============================================================================
