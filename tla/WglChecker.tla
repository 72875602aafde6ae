----------------------------- MODULE WglChecker -----------------------------
(***************************************************************************)
(* LinearizabilityChecker::Check (runtime/include/lincheck.h), the         *)
(* iterative Wing-Gong-Lowe search for a linearization of a history.       *)
(*                                                                         *)
(* The variables are the local variables of Check; `linearized` is the set *)
(* of positions whose flag is true.  Every action is one iteration of the  *)
(* loop, except Accept, which is the exit of the loop.                     *)
(***************************************************************************)
EXTENDS Linearizability

CONSTANTS
  HistoryInputs,     \* the histories given to Check
  SpecEquals(_, _)   \* SpecificationObjectEqual, the equality of the cache

ASSUME HistoryInputsAssumption ==
  \A h \in HistoryInputs : h \in Seq(Event) /\ WellFormed(h)

(* The specifications compare all of their members, or nothing at all      *)
(* (LinearMutexEquals): states that count as equal are the same.           *)
ASSUME SpecEqualsAssumption ==
  \A s, t \in SpecStates : SpecEquals(s, t) => s = t

VARIABLES
  history,
  current_section_start,
  data_structure_state,
  open_sections_stack,       \* positions of the invokes of the open sections
  states_stack,              \* the state before each open section
  linearized,
  linearized_entries_count,
  states_cache,
  verdict                    \* the value Check returned, or "none"

vars == <<history, current_section_start, data_structure_state,
          open_sections_stack, states_stack, linearized,
          linearized_entries_count, states_cache, verdict>>

inv_res == get_inv_res_mapping(history)

TypeOK ==
  /\ history \in Seq(Event) /\ WellFormed(history)
  /\ current_section_start \in Nat \ {0}
  /\ data_structure_state \in SpecStates
  /\ open_sections_stack \in Seq(Invokes(history))
  /\ states_stack \in Seq(SpecStates)
  /\ linearized \in SUBSET (DOMAIN history)
  /\ linearized_entries_count \in Nat
  /\ states_cache \in SUBSET ((SUBSET (DOMAIN history)) \X SpecStates)
  /\ verdict \in {"none", "linearizable", "not_linearizable"}

-----------------------------------------------------------------------------
Init ==
  /\ history \in HistoryInputs
  /\ current_section_start = 1
  /\ data_structure_state = first_state
  /\ open_sections_stack = << >>
  /\ states_stack = << >>
  /\ linearized = {}
  /\ linearized_entries_count = 0
  /\ states_cache = {}
  /\ verdict = "none"

(* Mutant: takes the response for the entry next to the invoke. *)
SectionEntriesAdjacent(i) == {i, i + 1}

(* The entries a section occupies: its invoke and, if it has one, its      *)
(* response.                                                               *)
SectionEntries(i) ==
  IF i \in DOMAIN inv_res THEN {i, inv_res[i]} ELSE {i}

(* Mutant: counts a response that a pending invoke does not have. *)
EntryCountAlwaysTwo(i) == 2

(* What opening and closing a section add to and take from the count. *)
EntryCount(i) == IF i \in DOMAIN inv_res THEN 2 ELSE 1

(* Mutant: goes on after the new section instead of back to the start. *)
AfterOpenNoReset == current_section_start + 1

(* "Now we have to try to add previously skipped entries". *)
AfterOpen == 1

(* Mutants: starts with the closed section again, skips one entry more. *)
AfterCloseSame(last_inv) == last_inv
AfterCloseSkips(last_inv) == last_inv + 2

(* "last time we started with the previous one now want to start with the  *)
(* next".                                                                  *)
AfterClose(last_inv) == last_inv + 1

(* The loop is entered once more. *)
Running ==
  /\ verdict = "none"
  /\ linearized_entries_count # Len(history)

AtInvoke ==
  /\ current_section_start \in DOMAIN history
  /\ current_section_start \notin linearized
  /\ history[current_section_start].type = "invoke"

AtResponse ==
  /\ current_section_start \in DOMAIN history
  /\ current_section_start \notin linearized
  /\ history[current_section_start].type = "response"

CurrentCall == history[current_section_start].task.call
NextState   == Effect(data_structure_state, CurrentCall)
NextLinearized == linearized \cup SectionEntries(current_section_start)

(* Mutant: forgets to compare the result. *)
AppendableAlways == TRUE

(* The invoke has no response, or the response the specification gives is  *)
(* the one the task returned.                                              *)
Appendable ==
  \/ current_section_start \notin DOMAIN inv_res
  \/ Result(data_structure_state, CurrentCall)
       = history[current_section_start].task.ret

(* Mutant: takes the set of linearized entries for the whole state. *)
WasCheckedIgnoringState(lin, s) == \E e \in states_cache : e[1] = lin

(* An equal pair is in states_cache (PairEqual). *)
WasChecked(lin, s) ==
  \E e \in states_cache : e[1] = lin /\ SpecEquals(e[2], s)

SkipLinearized ==
  /\ Running
  /\ current_section_start \in linearized
  /\ current_section_start' = current_section_start + 1
  /\ UNCHANGED <<history, data_structure_state, open_sections_stack,
                 states_stack, linearized, linearized_entries_count,
                 states_cache, verdict>>

OpenSection ==
  /\ Running
  /\ AtInvoke
  /\ Appendable
  /\ ~WasChecked(NextLinearized, NextState)
  /\ states_cache' = states_cache \cup {<<NextLinearized, NextState>>}
  /\ linearized' = NextLinearized
  /\ linearized_entries_count' =
       linearized_entries_count + EntryCount(current_section_start)
  /\ open_sections_stack' =
       Append(open_sections_stack, current_section_start)
  /\ states_stack' = Append(states_stack, data_structure_state)
  /\ data_structure_state' = NextState
  /\ current_section_start' = AfterOpen
  /\ UNCHANGED <<history, verdict>>

PassInvoke ==
  /\ Running
  /\ AtInvoke
  /\ ~Appendable \/ WasChecked(NextLinearized, NextState)
  /\ current_section_start' = current_section_start + 1
  /\ UNCHANGED <<history, data_structure_state, open_sections_stack,
                 states_stack, linearized, linearized_entries_count,
                 states_cache, verdict>>

(* A response that is not linearized: the operations after it are not      *)
(* minimal, so the last section is closed again.                           *)
CloseSection ==
  /\ Running
  /\ AtResponse
  /\ open_sections_stack # << >>
  /\ LET n == Len(open_sections_stack)
         last_inv == open_sections_stack[n]
     IN /\ data_structure_state' = states_stack[n]
        /\ states_stack' = SubSeq(states_stack, 1, n - 1)
        /\ open_sections_stack' = SubSeq(open_sections_stack, 1, n - 1)
        /\ linearized' = linearized \ SectionEntries(last_inv)
        /\ linearized_entries_count' =
             linearized_entries_count - EntryCount(last_inv)
        /\ current_section_start' = AfterClose(last_inv)
  /\ UNCHANGED <<history, states_cache, verdict>>

Reject ==
  /\ Running
  /\ AtResponse
  /\ open_sections_stack = << >>
  /\ verdict' = "not_linearizable"
  /\ UNCHANGED <<history, current_section_start, data_structure_state,
                 open_sections_stack, states_stack, linearized,
                 linearized_entries_count, states_cache>>

Accept ==
  /\ verdict = "none"
  /\ linearized_entries_count = Len(history)
  /\ verdict' = "linearizable"
  /\ UNCHANGED <<history, current_section_start, data_structure_state,
                 open_sections_stack, states_stack, linearized,
                 linearized_entries_count, states_cache>>

(* Check has returned; stated so that TLC's deadlock check still finds a   *)
(* loop that cannot go on.                                                 *)
Returned == verdict # "none" /\ UNCHANGED vars

Next ==
  \/ SkipLinearized \/ OpenSection \/ PassInvoke
  \/ CloseSection \/ Reject \/ Accept \/ Returned

Spec == Init /\ [][Next]_vars

(* Check runs in one thread that nothing suspends. *)
FairSpec == Spec /\ WF_vars(Next)
-----------------------------------------------------------------------------
(* Every iteration reads history and linearized at an existing position:   *)
(* the scan never runs past the last event while something is left to      *)
(* linearize.  Nothing in the loop checks it: with pending invokes it      *)
(* holds only because states_cache cannot hold a set with all responses    *)
(* that is not on the current path.                                        *)
InBounds == Running => current_section_start \in DOMAIN history

(* linearized_entries_count, kept by increments and decrements, is the     *)
(* number of flags that are set.                                           *)
CountIsExact == linearized_entries_count = Cardinality(linearized)

(* When Check returns true its two stacks hold a linearization of the      *)
(* whole history: every invoke once, in an order that respects real time   *)
(* and along states in which the specification returns what was returned.  *)
AcceptIsWitnessed ==
  verdict = "linearizable" =>
    /\ open_sections_stack \in Orders(Invokes(history))
    /\ RespectsRealTime(history, open_sections_stack)
    /\ Legal(history, open_sections_stack,
             Append(states_stack, data_structure_state))

(* When Check returns false no order of the invokes is a linearization:    *)
(* skipping the states found in the cache loses none.                      *)
RejectIsRight ==
  verdict = "not_linearizable" => ~Linearizes(history, Invokes(history))

(* Check answers true exactly for the linearizable histories of Herlihy    *)
(* and Wing, although it insists on linearizing every pending operation.   *)
MatchesReference ==
  verdict # "none" => (verdict = "linearizable") = Linearizable(history)
=============================================================================
