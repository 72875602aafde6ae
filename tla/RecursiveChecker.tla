-------------------------- MODULE RecursiveChecker --------------------------
(***************************************************************************)
(* LinearizabilityCheckerRecursive::Check                                  *)
(* (runtime/include/lincheck_recursive.h), the checker ltest::Run builds.  *)
(* It keeps no state between calls: `linearized` is restored before every  *)
(* return of false, so the search is a recursive function of the set of    *)
(* linearized entries and the state.                                       *)
(***************************************************************************)
EXTENDS Histories

(* Mutant: does not stop at a response. *)
MinimalOpsUnordered(h, linearized) == Invokes(h) \ linearized

(* The invokes the loop reaches before it breaks at a response that is not *)
(* linearized.                                                             *)
MinimalOps(h, linearized) ==
  {i \in Invokes(h) \ linearized :
     \A j \in Responses(h) : j < i => j \in linearized}

(* What `linearized` and data_structure_state can be: an invoke and its    *)
(* response are marked together.                                           *)
Nodes(h) ==
  LET inv_res == get_inv_res_mapping(h)
  IN {linearized \in SUBSET (DOMAIN h) :
        \A i \in DOMAIN inv_res : i \in linearized <=> inv_res[i] \in linearized}
       \X SpecStates

(* A call of the lambda recursive_step; `step` are the calls it makes. *)
RecursiveStep(h, step, linearized, data_structure_state) ==
  LET inv_res == get_inv_res_mapping(h)
  IN \/ linearized = DOMAIN h
     \/ \E i \in MinimalOps(h, linearized) :
          LET call == h[i].task.call
              next == Effect(data_structure_state, call)
          IN \/ /\ i \notin DOMAIN inv_res
                /\ step[<<linearized \cup {i}, next>>]
             \/ /\ i \in DOMAIN inv_res
                /\ Result(data_structure_state, call) = h[i].task.ret
                /\ step[<<linearized \cup {i, inv_res[i]}, next>>]

CheckRecursive(h) ==
  LET recursive_step[node \in Nodes(h)] ==
        RecursiveStep(h, recursive_step, node[1], node[2])
  IN h = << >> \/ recursive_step[<<{}, first_state>>]
=============================================================================
