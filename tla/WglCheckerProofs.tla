--------------------------- MODULE WglCheckerProofs ---------------------------
(***************************************************************************)
(* Proofs about LinearizabilityChecker::Check for every specification,     *)
(* every set of histories and every equality of the cache.                 *)
(*                                                                         *)
(* Soundness: the scan stays inside the history, the count is exact, and   *)
(* an accepted history is linearizable, with the two stacks as witness.    *)
(*                                                                         *)
(* Completeness: a history it rejects has no linearization, so that        *)
(* skipping the states found in the cache loses none, and its verdict is   *)
(* that of the definition of Herlihy and Wing and that of the recursive    *)
(* checker.                                                                *)
(***************************************************************************)
EXTENDS Checkers, RecursiveCheckerProofs, SequenceTheorems

(* The two stacks have the same height; no section is open twice; the open *)
(* sections are the linearized invokes; an invoke and its response are     *)
(* linearized together.                                                    *)
SectionsInv ==
  /\ Len(states_stack) = Len(open_sections_stack)
  /\ \A k, m \in 1..Len(open_sections_stack) :
       open_sections_stack[k] = open_sections_stack[m] => k = m
  /\ \A k \in 1..Len(open_sections_stack) : open_sections_stack[k] \in linearized
  /\ \A i \in Invokes(history) : i \in linearized =>
       \E k \in 1..Len(open_sections_stack) : open_sections_stack[k] = i
  /\ \A i \in DOMAIN inv_res : i \in linearized <=> inv_res[i] \in linearized

(* A section is opened only when the responses before it are linearized,   *)
(* and the scan does not pass a response that is not.                      *)
OrderInv ==
  /\ \A k \in 1..Len(open_sections_stack) : \A j \in Responses(history) :
       j < open_sections_stack[k] =>
         \E m \in 1..(k - 1) : /\ open_sections_stack[m] \in DOMAIN inv_res
                               /\ inv_res[open_sections_stack[m]] = j
  /\ \A j \in Responses(history) : j < current_section_start => j \in linearized

(* The states on the stack and the current one are those of the open       *)
(* sections executed in their order.                                       *)
StatesInv ==
  Legal(history, open_sections_stack, Append(states_stack, data_structure_state))

(* Once all responses are linearized nothing is skipped: a cached set with *)
(* all responses lies on the current path.                                 *)
ScanInv ==
  /\ \A e \in states_cache :
       Responses(history) \subseteq e[1] => e[1] \subseteq linearized
  /\ Responses(history) \subseteq linearized =>
       \A p \in DOMAIN history : p < current_section_start => p \in linearized

VerdictInv == verdict = "linearizable" => linearized = DOMAIN history

(* The inductive invariant. *)
WglInv ==
  /\ TypeOK
  /\ SectionsInv
  /\ CountIsExact
  /\ OrderInv
  /\ StatesInv
  /\ ScanInv
  /\ VerdictInv

-----------------------------------------------------------------------------
(* What the proofs below use of get_inv_res_mapping. *)
LEMMA InvResPairs ==
  ASSUME TypeOK
  PROVE  /\ DOMAIN inv_res \subseteq Invokes(history)
         /\ \A i \in DOMAIN inv_res :
              /\ inv_res[i] \in Responses(history)
              /\ Answers(history, inv_res[i], i)
         /\ \A i \in Invokes(history), j \in Responses(history) :
              Answers(history, j, i) => i \in DOMAIN inv_res /\ inv_res[i] = j
         /\ \A j \in Responses(history) :
              \E i \in DOMAIN inv_res : inv_res[i] = j
         /\ \A i, k \in DOMAIN inv_res : inv_res[i] = inv_res[k] => i = k
BY ResponsesArePaired DEF TypeOK, inv_res

(* What the proofs below use of the kinds of events. *)
LEMMA EventKinds ==
  ASSUME TypeOK
  PROVE  /\ DOMAIN history = 1..Len(history)
         /\ Len(history) \in Nat
         /\ Invokes(history) \subseteq DOMAIN history
         /\ Responses(history) \subseteq DOMAIN history
         /\ Invokes(history) \cup Responses(history) = DOMAIN history
         /\ Invokes(history) \cap Responses(history) = {}
         /\ IsFiniteSet(DOMAIN history)
         /\ Cardinality(DOMAIN history) = Len(history)
BY EventsOfHistory DEF TypeOK

(* The number of flags a section sets is the number the count grows by. *)
LEMMA SectionSize ==
  ASSUME TypeOK, NEW i \in Invokes(history)
  PROVE  /\ IsFiniteSet(SectionEntries(i))
         /\ Cardinality(SectionEntries(i)) = EntryCount(i)
         /\ SectionEntries(i) \subseteq DOMAIN history
         /\ EntryCount(i) \in 1..2
<1>1. CASE i \in DOMAIN inv_res
  <2>1. inv_res[i] \in Responses(history) BY <1>1, InvResPairs
  <2>2. i # inv_res[i] BY <2>1, EventKinds
  <2>3. IsFiniteSet({i, inv_res[i]}) /\ Cardinality({i, inv_res[i]}) = 2
    <3>1. IsFiniteSet({inv_res[i]}) /\ Cardinality({inv_res[i]}) = 1
      BY FS_Singleton
    <3>2. IsFiniteSet({inv_res[i]} \cup {i})
          /\ Cardinality({inv_res[i]} \cup {i}) = Cardinality({inv_res[i]}) + 1
      BY <2>2, <3>1, FS_AddElement
    <3>3. {inv_res[i]} \cup {i} = {i, inv_res[i]} OBVIOUS
    <3> QED BY <3>1, <3>2, <3>3
  <2> QED BY <1>1, <2>1, <2>3, EventKinds DEF SectionEntries, EntryCount
<1>2. CASE i \notin DOMAIN inv_res
  <2>1. IsFiniteSet({i}) /\ Cardinality({i}) = 1 BY FS_Singleton
  <2>2. SectionEntries(i) = {i} /\ EntryCount(i) = 1
    BY <1>2 DEF SectionEntries, EntryCount
  <2> QED BY <2>1, <2>2, EventKinds
<1> QED BY <1>1, <1>2

(* Unchanged history: what the invariant reads of it is unchanged too. *)
LEMMA HistoryKept ==
  ASSUME history' = history
  PROVE  /\ inv_res' = inv_res
         /\ Invokes(history)' = Invokes(history)
         /\ Responses(history)' = Responses(history)
BY DEF inv_res

(* The search begins with nothing linearized. *)
LEMMA InitInv == Init => WglInv
<1> SUFFICES ASSUME Init PROVE WglInv OBVIOUS
<1> USE DEF Init
<1>1. TypeOK
  <2>1. history \in Seq(Event) /\ WellFormed(history)
    BY HistoryInputsAssumption
  <2> QED BY <2>1, SpecAssumption DEF TypeOK
<1>2. SectionsInv
  <2>1. \A i \in DOMAIN inv_res : i \in linearized <=> inv_res[i] \in linearized
    OBVIOUS
  <2> QED BY <2>1 DEF SectionsInv
<1>3. CountIsExact BY FS_EmptySet DEF CountIsExact
<1>4. OrderInv
  <2>1. \A j \in Responses(history) : ~(j < 1) BY <1>1, EventKinds
  <2> QED BY <2>1 DEF OrderInv
<1>5. StatesInv BY DEF StatesInv, Legal
<1>6. ScanInv
  <2>1. \A p \in DOMAIN history : ~(p < 1) BY <1>1, EventKinds
  <2> QED BY <2>1 DEF ScanInv
<1>7. VerdictInv BY DEF VerdictInv
<1> QED BY <1>1, <1>2, <1>3, <1>4, <1>5, <1>6, <1>7 DEF WglInv

(* The scan moves on: nothing but current_section_start changes. *)
LEMMA SkipKeeps == WglInv /\ SkipLinearized => WglInv'
<1> SUFFICES ASSUME WglInv, SkipLinearized PROVE WglInv' OBVIOUS
<1> USE DEF WglInv, SkipLinearized
<1>0. /\ inv_res' = inv_res
      /\ Invokes(history)' = Invokes(history)
      /\ Responses(history)' = Responses(history)
  BY HistoryKept
<1>1. TypeOK' BY DEF TypeOK
<1>2. SectionsInv' BY <1>0 DEF SectionsInv
<1>3. CountIsExact' BY DEF CountIsExact
<1>4. OrderInv'
  <2>1. \A j \in Responses(history) : j < current_section_start + 1
           => j < current_section_start \/ j = current_section_start
    BY EventKinds DEF TypeOK
  <2> QED BY <1>0, <2>1 DEF OrderInv
<1>5. StatesInv' BY DEF StatesInv
<1>6. ScanInv'
  <2>1. \A p \in DOMAIN history : p < current_section_start + 1
           => p < current_section_start \/ p = current_section_start
    BY EventKinds DEF TypeOK
  <2> QED BY <1>0, <2>1 DEF ScanInv
<1>7. VerdictInv' BY DEF VerdictInv
<1> QED BY <1>1, <1>2, <1>3, <1>4, <1>5, <1>6, <1>7

(* An invoke is passed over.  It cannot be one without a response after    *)
(* all responses have been linearized: the cache would have to hold a set  *)
(* that is not on the current path.                                        *)
LEMMA PassKeeps == WglInv /\ PassInvoke => WglInv'
<1> SUFFICES ASSUME WglInv, PassInvoke PROVE WglInv' OBVIOUS
<1> USE DEF WglInv, PassInvoke
<1>0. /\ inv_res' = inv_res
      /\ Invokes(history)' = Invokes(history)
      /\ Responses(history)' = Responses(history)
  BY HistoryKept
<1> DEFINE cs == current_section_start
<1>a. /\ cs \in Invokes(history)
      /\ cs \notin linearized
      /\ cs \notin Responses(history)
  BY EventKinds DEF AtInvoke, Invokes
<1>1. TypeOK' BY DEF TypeOK
<1>2. SectionsInv' BY <1>0 DEF SectionsInv
<1>3. CountIsExact' BY DEF CountIsExact
<1>4. OrderInv'
  <2>1. \A j \in Responses(history) : j < cs + 1 => j < cs
    BY EventKinds, <1>a DEF TypeOK
  <2> QED BY <1>0, <2>1 DEF OrderInv
<1>5. StatesInv' BY DEF StatesInv
<1>6. ScanInv'
  <2>1. ASSUME Responses(history) \subseteq linearized PROVE FALSE
    <3>1. cs \notin DOMAIN inv_res
      BY <1>a, <2>1, InvResPairs DEF SectionsInv
    <3>2. Appendable BY <3>1 DEF Appendable
    <3>3. PICK e \in states_cache : e[1] = NextLinearized
      BY <3>2 DEF WasChecked
    <3>4. Responses(history) \subseteq e[1] BY <2>1, <3>3 DEF NextLinearized
    <3>5. e[1] \subseteq linearized BY <3>4 DEF ScanInv
    <3>6. cs \in e[1] BY <3>3 DEF NextLinearized, SectionEntries
    <3> QED BY <1>a, <3>5, <3>6
  <2> QED BY <1>0, <2>1 DEF ScanInv
<1>7. VerdictInv' BY DEF VerdictInv
<1> QED BY <1>1, <1>2, <1>3, <1>4, <1>5, <1>6, <1>7

(* A section is opened: its entries are new and its operation is appended  *)
(* to the linearization.                                                   *)
LEMMA OpenKeeps == WglInv /\ OpenSection => WglInv'
<1> SUFFICES ASSUME WglInv, OpenSection PROVE WglInv' OBVIOUS
<1> USE DEF WglInv, OpenSection
<1>0. /\ inv_res' = inv_res
      /\ Invokes(history)' = Invokes(history)
      /\ Responses(history)' = Responses(history)
  BY HistoryKept
<1> DEFINE cs == current_section_start
           stack == open_sections_stack
           n == Len(stack)
<1>a. /\ cs \in Invokes(history)
      /\ cs \in DOMAIN history
      /\ cs \notin linearized
      /\ CurrentCall \in Calls
  <2>1. history[cs] \in Event BY DEF TypeOK, AtInvoke
  <2>2. history[cs].task.call \in Calls BY <2>1 DEF Event, Tasks
  <2> QED BY <2>2 DEF AtInvoke, Invokes, CurrentCall
<1>b. /\ stack \in Seq(Invokes(history))
      /\ n \in Nat
      /\ stack' = Append(stack, cs)
      /\ stack' \in Seq(Invokes(history))
      /\ Len(stack') = n + 1
      /\ \A k \in 1..n : stack'[k] = stack[k] /\ stack[k] \in Invokes(history)
      /\ stack'[n + 1] = cs
  BY <1>a DEF TypeOK
<1>c. /\ states_stack' \in Seq(SpecStates)
      /\ Len(states_stack') = n + 1
      /\ \A k \in 1..n : states_stack'[k] = states_stack[k]
      /\ states_stack'[n + 1] = data_structure_state
      /\ NextState \in SpecStates
  BY <1>a, SpecAssumption DEF TypeOK, SectionsInv, NextState
<1>d. /\ IsFiniteSet(SectionEntries(cs))
      /\ Cardinality(SectionEntries(cs)) = EntryCount(cs)
      /\ SectionEntries(cs) \subseteq DOMAIN history
      /\ EntryCount(cs) \in 1..2
  BY <1>a, SectionSize
<1>e. linearized' = linearized \cup SectionEntries(cs)
  BY DEF NextLinearized
<1>f. SectionEntries(cs) \cap linearized = {}
  BY <1>a, InvResPairs DEF SectionsInv, SectionEntries
<1>1. TypeOK'
  <2>1. current_section_start' = 1 BY DEF AfterOpen
  <2>2. linearized' \in SUBSET (DOMAIN history)
    BY <1>d, <1>e DEF TypeOK
  <2>3. states_cache' \in SUBSET ((SUBSET (DOMAIN history)) \X SpecStates)
    BY <1>c, <1>e, <2>2 DEF TypeOK
  <2>4. linearized_entries_count' \in Nat BY <1>d DEF TypeOK
  <2> QED BY <1>0, <1>b, <1>c, <2>1, <2>2, <2>3, <2>4 DEF TypeOK
<1>2. SectionsInv'
  <2>1. \A k, m \in 1..(n + 1) : stack'[k] = stack'[m] => k = m
    <3> SUFFICES ASSUME NEW k \in 1..(n + 1), NEW m \in 1..(n + 1),
                        stack'[k] = stack'[m]
                 PROVE  k = m
      OBVIOUS
    <3>1. CASE k \in 1..n /\ m \in 1..n BY <1>b, <3>1 DEF SectionsInv
    <3>2. CASE k = n + 1 /\ m \in 1..n BY <1>a, <1>b, <3>2 DEF SectionsInv
    <3>3. CASE k \in 1..n /\ m = n + 1 BY <1>a, <1>b, <3>3 DEF SectionsInv
    <3> QED BY <1>b, <3>1, <3>2, <3>3
  <2>2. ASSUME NEW k \in 1..(n + 1) PROVE stack'[k] \in linearized'
    <3>1. CASE k \in 1..n BY <1>b, <1>e, <3>1 DEF SectionsInv
    <3>2. CASE k = n + 1 BY <1>b, <1>e, <3>2 DEF SectionEntries
    <3> QED BY <1>b, <3>1, <3>2
  <2>3. ASSUME NEW i \in Invokes(history), i \in linearized'
        PROVE  \E k \in 1..(n + 1) : stack'[k] = i
    <3>1. CASE i \in linearized
      <4>1. PICK k \in 1..n : stack[k] = i BY <3>1 DEF SectionsInv
      <4> QED BY <1>b, <4>1
    <3>2. CASE i \in SectionEntries(cs)
      <4>1. i = cs BY <3>2, InvResPairs, EventKinds DEF SectionEntries
      <4> QED BY <1>b, <4>1
    <3> QED BY <1>e, <2>3, <3>1, <3>2
  <2>4. ASSUME NEW i \in DOMAIN inv_res
        PROVE  i \in linearized' <=> inv_res[i] \in linearized'
    <3>1. i \in SectionEntries(cs) <=> inv_res[i] \in SectionEntries(cs)
      BY <1>a, InvResPairs, EventKinds DEF SectionEntries
    <3> QED BY <1>e, <3>1 DEF SectionsInv
  <2> QED BY <1>0, <1>b, <1>c, <2>1, <2>2, <2>3, <2>4 DEF SectionsInv
<1>3. CountIsExact'
  <2>1. IsFiniteSet(linearized) BY EventKinds, FS_Subset DEF TypeOK
  <2>2. Cardinality(linearized') = Cardinality(linearized)
            + Cardinality(SectionEntries(cs)) - Cardinality({})
    BY <1>d, <1>e, <1>f, <2>1, FS_Union
  <2> QED BY <1>d, <2>2, FS_EmptySet DEF CountIsExact, TypeOK
<1>4. OrderInv'
  <2>1. ASSUME NEW k \in 1..(n + 1), NEW j \in Responses(history), j < stack'[k]
        PROVE  \E m \in 1..(k - 1) : /\ stack'[m] \in DOMAIN inv_res
                                     /\ inv_res[stack'[m]] = j
    <3>1. CASE k \in 1..n
      <4>1. PICK m \in 1..(k - 1) : /\ stack[m] \in DOMAIN inv_res
                                     /\ inv_res[stack[m]] = j
        BY <1>b, <2>1, <3>1 DEF OrderInv
      <4>2. m \in 1..n BY <1>b, <3>1
      <4> QED BY <1>b, <4>1, <4>2
    <3>2. CASE k = n + 1
      <4>1. j \in linearized BY <1>b, <2>1, <3>2 DEF OrderInv
      <4>2. PICK i \in DOMAIN inv_res : inv_res[i] = j BY InvResPairs
      <4>3. i \in Invokes(history) /\ i \in linearized
        BY <4>1, <4>2, InvResPairs DEF SectionsInv
      <4>4. PICK m \in 1..n : stack[m] = i BY <4>3 DEF SectionsInv
      <4>5. m \in 1..(k - 1) BY <1>b, <3>2
      <4>6. stack'[m] = i BY <1>b, <4>4
      <4> QED BY <4>2, <4>5, <4>6
    <3>3. k \in 1..n \/ k = n + 1 BY <1>b
    <3> QED BY <3>1, <3>2, <3>3
  <2>2. \A j \in Responses(history) : ~(j < 1) BY EventKinds
  <2>3. current_section_start' = 1 /\ Len(open_sections_stack') = n + 1
    BY <1>b DEF AfterOpen
  <2> HIDE DEF WglInv, OpenSection
  <2> QED BY <1>0, <2>1, <2>2, <2>3 DEF OrderInv
<1>5. StatesInv'
  <2> DEFINE S == Append(states_stack, data_structure_state)
             T == Append(states_stack', data_structure_state')
  <2>1. \A k \in 1..(n + 1) : T[k] = S[k]
    BY <1>b, <1>c DEF TypeOK, SectionsInv
  <2>2. T[n + 2] = NextState /\ S[n + 1] = data_structure_state
    BY <1>b, <1>c DEF TypeOK, SectionsInv
  <2>3. S[1] = first_state /\ \A k \in 1..n :
          /\ S[k + 1] = Effect(S[k], history[stack[k]].task.call)
          /\ Answered(history, stack[k]) =>
               Result(S[k], history[stack[k]].task.call) = history[stack[k]].task.ret
    <3>1. Legal(history, stack, S) BY DEF StatesInv
    <3>2. DOMAIN stack = 1..n BY <1>b
    <3> HIDE DEF S
    <3> QED BY <3>1, <3>2 DEF Legal
  <2>4. T[1] = first_state BY <1>b, <2>1, <2>3
  <2> HIDE DEF S, T
  <2>5. ASSUME NEW k \in 1..(n + 1)
        PROVE  /\ T[k + 1] = Effect(T[k], history[stack'[k]].task.call)
               /\ Answered(history, stack'[k]) =>
                    Result(T[k], history[stack'[k]].task.call)
                      = history[stack'[k]].task.ret
    <3>1. CASE k \in 1..n
      <4>1. k \in 1..(n + 1) /\ k + 1 \in 1..(n + 1) BY <1>b, <3>1
      <4> QED BY <1>b, <2>1, <2>3, <3>1, <4>1
    <3>2. CASE k = n + 1
      <4>1. stack'[k] = cs /\ T[k] = data_structure_state /\ T[k + 1] = NextState
        BY <1>b, <2>1, <2>2, <3>2
      <4>2. Answered(history, cs) =>
              Result(data_structure_state, CurrentCall) = history[cs].task.ret
        BY <1>a, InvResPairs DEF Answered, Appendable
      <4> QED BY <4>1, <4>2 DEF NextState, CurrentCall
    <3> QED BY <1>b, <3>1, <3>2
  <2>6. DOMAIN (stack') = 1..(n + 1) BY <1>b
  <2>7. Legal(history, stack', T) BY <2>4, <2>5, <2>6 DEF Legal
  <2> QED BY <2>7 DEF StatesInv, T
<1>6. ScanInv'
  <2>1. \A p \in DOMAIN history : ~(p < 1) BY EventKinds
  <2>2. ASSUME NEW e \in states_cache', Responses(history) \subseteq e[1]
        PROVE  e[1] \subseteq linearized'
    <3>1. CASE e \in states_cache BY <1>e, <2>2, <3>1 DEF ScanInv
    <3>2. CASE e = <<NextLinearized, NextState>> BY <3>2
    <3> QED BY <3>1, <3>2
  <2> QED BY <1>0, <2>1, <2>2 DEF ScanInv, AfterOpen
<1>7. VerdictInv' BY DEF VerdictInv, Running
<1> QED BY <1>1, <1>2, <1>3, <1>4, <1>5, <1>6, <1>7

(* pop_back on a stack that is not empty. *)
LEMMA PopBack ==
  ASSUME NEW S, NEW s \in Seq(S), NEW t, Len(s) # 0,
         t = SubSeq(s, 1, Len(s) - 1)
  PROVE  /\ t \in Seq(S)
         /\ Len(t) = Len(s) - 1
         /\ \A k \in 1..(Len(s) - 1) : t[k] = s[k]
<1> DEFINE n == Len(s) - 1
<1>1. 1 \in Int /\ n \in Nat OBVIOUS
<1>2. \A k \in 1..n : s[k] \in S OBVIOUS
<1>3. t = SubSeq(s, 1, n) OBVIOUS
<1> HIDE DEF n
<1>4. n \in Int BY <1>1
<1>5. /\ SubSeq(s, 1, n) \in Seq(S)
      /\ Len(SubSeq(s, 1, n)) = IF 1 <= n THEN n - 1 + 1 ELSE 0
      /\ \A k \in 1..(n - 1 + 1) : SubSeq(s, 1, n)[k] = s[1 + k - 1]
  BY <1>1, <1>2, <1>4, SubSeqProperties
<1>6. Len(t) = n BY <1>1, <1>3, <1>5
<1>7. \A k \in 1..n : t[k] = s[k] BY <1>1, <1>3, <1>5
<1>8. t \in Seq(S) BY <1>3, <1>5
<1> QED BY <1>6, <1>7, <1>8 DEF n

(* The last section is closed: the stacks lose their last element, and the *)
(* responses before its invoke belong to the sections that stay open.      *)
LEMMA CloseKeeps == WglInv /\ CloseSection => WglInv'
<1> SUFFICES ASSUME WglInv, CloseSection PROVE WglInv' OBVIOUS
<1> USE DEF WglInv
<1> DEFINE stack == open_sections_stack
           n == Len(stack)
           last == stack[n]
<1>0. /\ inv_res' = inv_res
      /\ Invokes(history)' = Invokes(history)
      /\ Responses(history)' = Responses(history)
  BY HistoryKept DEF CloseSection
<1>a. /\ stack \in Seq(Invokes(history))
      /\ n \in Nat \ {0}
      /\ \A k \in 1..n : stack[k] \in Invokes(history)
      /\ last \in Invokes(history)
      /\ last \in Nat
      /\ last \in linearized
  BY EventKinds DEF TypeOK, CloseSection, SectionsInv
<1>b. /\ history' = history
      /\ states_cache' = states_cache
      /\ verdict' = verdict
      /\ verdict = "none"
      /\ stack' = SubSeq(stack, 1, n - 1)
      /\ states_stack' = SubSeq(states_stack, 1, n - 1)
      /\ data_structure_state' = states_stack[n]
      /\ linearized' = linearized \ SectionEntries(last)
      /\ linearized_entries_count' = linearized_entries_count - EntryCount(last)
      /\ current_section_start' = last + 1
  BY DEF CloseSection, Running, AfterClose
<1>c. /\ stack' \in Seq(Invokes(history))
      /\ Len(stack') = n - 1
      /\ \A k \in 1..(n - 1) : stack'[k] = stack[k]
  <2>1. PICK S, p, q : S = Invokes(history) /\ p = stack /\ q = stack' OBVIOUS
  <2>2. p \in Seq(S) /\ Len(p) # 0 /\ q = SubSeq(p, 1, Len(p) - 1) BY <1>a, <1>b, <2>1
  <2>3. /\ q \in Seq(S) /\ Len(q) = Len(p) - 1
        /\ \A k \in 1..(Len(p) - 1) : q[k] = p[k]
    BY <2>2, PopBack
  <2> QED BY <2>1, <2>3
<1>d. /\ states_stack \in Seq(SpecStates)
      /\ Len(states_stack) = n
      /\ states_stack' \in Seq(SpecStates)
      /\ Len(states_stack') = n - 1
      /\ \A k \in 1..(n - 1) : states_stack'[k] = states_stack[k]
      /\ states_stack[n] \in SpecStates
  BY <1>a, <1>b DEF TypeOK, SectionsInv
<1>e. /\ IsFiniteSet(SectionEntries(last))
      /\ Cardinality(SectionEntries(last)) = EntryCount(last)
      /\ EntryCount(last) \in 1..2
  BY <1>a, SectionSize
<1>f. SectionEntries(last) \subseteq linearized
  BY <1>a DEF SectionEntries, SectionsInv
<1>g. \E j \in Responses(history) : j \notin linearized
  BY DEF CloseSection, AtResponse, Responses
<1>3. CountIsExact' /\ linearized_entries_count' \in Nat
  <2>1. IsFiniteSet(linearized) BY EventKinds, FS_Subset DEF TypeOK
  <2>2. IsFiniteSet(linearized') BY <1>b, <2>1, FS_Subset
  <2>3. linearized = linearized' \cup SectionEntries(last)
    BY <1>b, <1>f
  <2>4. linearized' \cap SectionEntries(last) = {} BY <1>b
  <2>5. Cardinality(linearized) = Cardinality(linearized')
            + Cardinality(SectionEntries(last)) - Cardinality({})
    BY <1>e, <2>2, <2>3, <2>4, FS_Union
  <2>6. Cardinality(linearized') \in Nat BY <2>2, FS_CardinalityType
  <2> QED BY <1>b, <1>e, <2>5, <2>6, FS_EmptySet DEF CountIsExact, TypeOK
<1>1. TypeOK'
  <2>1. linearized' \in SUBSET (DOMAIN history) BY <1>b DEF TypeOK
  <2>2. current_section_start' \in Nat \ {0} BY <1>a, <1>b
  <2> QED BY <1>0, <1>b, <1>c, <1>d, <1>3, <2>1, <2>2 DEF TypeOK
<1>2. SectionsInv'
  <2>1. \A k, m \in 1..(n - 1) : stack'[k] = stack'[m] => k = m
    BY <1>a, <1>c DEF SectionsInv
  <2>2. ASSUME NEW k \in 1..(n - 1) PROVE stack'[k] \in linearized'
    <3>1. k \in 1..n /\ k # n /\ n \in 1..n BY <1>a
    <3>2. stack[k] \in Invokes(history) /\ stack[k] # last
      BY <1>a, <3>1 DEF SectionsInv
    <3>3. stack[k] \notin SectionEntries(last)
      BY <3>2, InvResPairs, EventKinds DEF SectionEntries
    <3>4. stack[k] \in linearized BY <3>1 DEF SectionsInv
    <3> QED BY <1>b, <1>c, <3>3, <3>4
  <2>3. ASSUME NEW i \in Invokes(history), i \in linearized'
        PROVE  \E k \in 1..(n - 1) : stack'[k] = i
    <3>1. i \in linearized /\ i # last BY <1>b, <2>3 DEF SectionEntries
    <3>2. PICK k \in 1..n : stack[k] = i BY <3>1 DEF SectionsInv
    <3>3. k \in 1..(n - 1) BY <1>a, <3>1, <3>2
    <3> QED BY <1>c, <3>2, <3>3
  <2>4. ASSUME NEW i \in DOMAIN inv_res
        PROVE  i \in linearized' <=> inv_res[i] \in linearized'
    <3>1. i \in SectionEntries(last) <=> inv_res[i] \in SectionEntries(last)
      BY <1>a, InvResPairs, EventKinds DEF SectionEntries
    <3> QED BY <1>b, <3>1 DEF SectionsInv
  <2> QED BY <1>0, <1>c, <1>d, <2>1, <2>2, <2>3, <2>4 DEF SectionsInv
<1>4. OrderInv'
  <2>1. ASSUME NEW k \in 1..(n - 1), NEW j \in Responses(history), j < stack'[k]
        PROVE  \E m \in 1..(k - 1) : /\ stack'[m] \in DOMAIN inv_res
                                     /\ inv_res[stack'[m]] = j
    <3>1. k \in 1..n /\ j < stack[k] BY <1>a, <1>c, <2>1
    <3>2. PICK m \in 1..(k - 1) : /\ stack[m] \in DOMAIN inv_res
                                   /\ inv_res[stack[m]] = j
      BY <3>1 DEF OrderInv
    <3>3. m \in 1..(n - 1) BY <1>a, <3>1
    <3>4. stack'[m] = stack[m] BY <1>c, <3>3
    <3> QED BY <3>2, <3>4
  <2>2. ASSUME NEW j \in Responses(history), j < last + 1
        PROVE  j \in linearized'
    <3>1. j < last BY <1>a, <2>2, EventKinds
    <3>2. n \in 1..n BY <1>a
    <3>3. PICK m \in 1..(n - 1) : /\ stack[m] \in DOMAIN inv_res
                                   /\ inv_res[stack[m]] = j
      BY <3>1, <3>2 DEF OrderInv
    <3>4. m \in 1..(n - 1) /\ stack'[m] = stack[m] BY <1>c
    <3>5. stack'[m] \in linearized' BY <1>2, <1>c, <3>4 DEF SectionsInv
    <3> QED BY <1>0, <1>2, <3>3, <3>4, <3>5 DEF SectionsInv
  <2>3. history' = history /\ inv_res' = inv_res BY <1>0, <1>b
  <2>4. Len(stack') = n - 1 /\ current_section_start' = last + 1 BY <1>b, <1>c
  <2>5. \A k \in 1..Len(stack') : \A j \in Responses(history') :
          j < stack'[k] => \E m \in 1..(k - 1) : /\ stack'[m] \in DOMAIN inv_res'
                                                /\ inv_res'[stack'[m]] = j
    BY <2>1, <2>3, <2>4
  <2>6. \A j \in Responses(history') : j < current_section_start' => j \in linearized'
    BY <2>2, <2>3, <2>4
  <2> QED BY <2>5, <2>6 DEF OrderInv
<1>5. StatesInv'
  <2> DEFINE S == Append(states_stack, data_structure_state)
             T == Append(states_stack', data_structure_state')
  <2>1. \A k \in 1..n : T[k] = S[k]
    BY <1>a, <1>b, <1>d DEF TypeOK
  <2>2. Legal(history, stack, S) BY DEF StatesInv
  <2>3. DOMAIN stack = 1..n /\ DOMAIN (stack') = 1..(n - 1) BY <1>a, <1>c
  <2> HIDE DEF S, T
  <2>4. T[1] = first_state BY <1>a, <2>1, <2>2 DEF Legal
  <2>5. ASSUME NEW k \in 1..(n - 1)
        PROVE  /\ T[k + 1] = Effect(T[k], history[stack'[k]].task.call)
               /\ Answered(history, stack'[k]) =>
                    Result(T[k], history[stack'[k]].task.call)
                      = history[stack'[k]].task.ret
    <3>1. k \in 1..n /\ k + 1 \in 1..n BY <1>a
    <3>2. T[k] = S[k] /\ T[k + 1] = S[k + 1] /\ stack'[k] = stack[k]
      BY <1>c, <2>1, <3>1
    <3> QED BY <2>2, <2>3, <3>1, <3>2 DEF Legal
  <2>6. Legal(history, stack', T) BY <2>3, <2>4, <2>5 DEF Legal
  <2> QED BY <1>b, <2>6 DEF StatesInv, T
<1>6. ScanInv'
  <2>1. linearized' \subseteq linearized BY <1>b
  <2>2. ~(Responses(history) \subseteq linearized') BY <1>g, <2>1
  <2>3. \A e \in states_cache : ~(Responses(history) \subseteq e[1])
    BY <1>g DEF ScanInv
  <2> QED BY <1>0, <1>b, <2>2, <2>3 DEF ScanInv
<1>7. VerdictInv' BY <1>b DEF VerdictInv
<1> QED BY <1>1, <1>2, <1>3, <1>4, <1>5, <1>6, <1>7

(* Every step of the search keeps the invariant. *)
LEMMA NextKeeps == WglInv /\ [Next]_vars => WglInv'
<1> SUFFICES ASSUME WglInv, [Next]_vars PROVE WglInv' OBVIOUS
<1>1. CASE SkipLinearized BY <1>1, SkipKeeps
<1>2. CASE OpenSection BY <1>2, OpenKeeps
<1>3. CASE PassInvoke BY <1>3, PassKeeps
<1>4. CASE CloseSection BY <1>4, CloseKeeps
<1>5. CASE Reject
  <2>1. WglInv /\ verdict' = "not_linearizable"
        /\ UNCHANGED <<history, current_section_start, data_structure_state,
                       open_sections_stack, states_stack, linearized,
                       linearized_entries_count, states_cache>>
    BY <1>5 DEF Reject
  <2>2. inv_res' = inv_res BY <2>1, HistoryKept
  <2>3. TypeOK' /\ CountIsExact' /\ StatesInv'
    BY <2>1 DEF WglInv, TypeOK, CountIsExact, StatesInv
  <2>4. SectionsInv' /\ OrderInv' /\ ScanInv'
    BY <2>1, <2>2 DEF WglInv, SectionsInv, OrderInv, ScanInv
  <2>5. VerdictInv' BY <2>1 DEF VerdictInv
  <2> QED BY <2>3, <2>4, <2>5 DEF WglInv
<1>6. CASE Accept
  <2>1. WglInv /\ verdict' = "linearizable"
        /\ UNCHANGED <<history, current_section_start, data_structure_state,
                       open_sections_stack, states_stack, linearized,
                       linearized_entries_count, states_cache>>
    BY <1>6 DEF Accept
  <2>2. inv_res' = inv_res BY <2>1, HistoryKept
  <2>3. TypeOK' /\ CountIsExact' /\ StatesInv'
    BY <2>1 DEF WglInv, TypeOK, CountIsExact, StatesInv
  <2>4. SectionsInv' /\ OrderInv' /\ ScanInv'
    BY <2>1, <2>2 DEF WglInv, SectionsInv, OrderInv, ScanInv
  <2>5. Cardinality(linearized) = Cardinality(DOMAIN history)
    BY <1>6, <2>1, EventKinds DEF Accept, WglInv, CountIsExact
  <2>6. linearized = DOMAIN history
    BY <2>1, <2>5, EventKinds, FS_Subset DEF WglInv, TypeOK
  <2>7. VerdictInv' BY <2>1, <2>6 DEF VerdictInv
  <2> QED BY <2>3, <2>4, <2>7 DEF WglInv
<1>7. CASE UNCHANGED vars
  <2>1. inv_res' = inv_res BY <1>7, HistoryKept DEF vars
  <2>2. TypeOK' /\ CountIsExact' /\ StatesInv'
    BY <1>7 DEF vars, WglInv, TypeOK, CountIsExact, StatesInv
  <2>3. SectionsInv' /\ OrderInv' /\ ScanInv' /\ VerdictInv'
    BY <1>7, <2>1 DEF vars, WglInv, SectionsInv, OrderInv, ScanInv, VerdictInv
  <2> QED BY <2>2, <2>3 DEF WglInv
<1> QED BY <1>1, <1>2, <1>3, <1>4, <1>5, <1>6, <1>7 DEF Next, Returned

(* The invariant holds in every state of every run of Check. *)
THEOREM InvariantHolds == Spec => []WglInv
<1>1. Init => WglInv BY InitInv
<1>2. WglInv /\ [Next]_vars => WglInv' BY NextKeeps
<1> QED BY <1>1, <1>2, PTL DEF Spec

(* The local variables of Check keep their types. *)
THEOREM TypeCorrect == Spec => []TypeOK
<1>1. WglInv => TypeOK BY DEF WglInv
<1> QED BY <1>1, InvariantHolds, PTL

(* linearized_entries_count is the number of linearized entries. *)
THEOREM CountExact == Spec => []CountIsExact
<1>1. WglInv => CountIsExact BY DEF WglInv
<1> QED BY <1>1, InvariantHolds, PTL

(* No iteration indexes the history out of its bounds, with or without     *)
(* pending invokes: the unchecked linearized[current_section_start] of the *)
(* loop is a valid access.                                                 *)
THEOREM ScanStaysInHistory == Spec => []InBounds
<1>1. ASSUME WglInv PROVE InBounds
  <2> SUFFICES ASSUME Running, current_section_start \notin DOMAIN history
               PROVE  FALSE
    BY DEF InBounds
  <2>1. \A p \in DOMAIN history : p < current_section_start
    BY <1>1, EventKinds DEF WglInv, TypeOK
  <2>2. Responses(history) \subseteq linearized
    BY <1>1, <2>1, EventKinds DEF WglInv, OrderInv
  <2>3. linearized = DOMAIN history
    BY <1>1, <2>1, <2>2 DEF WglInv, ScanInv, TypeOK
  <2> QED BY <1>1, <2>3, EventKinds DEF WglInv, CountIsExact, Running
<1> QED BY <1>1, InvariantHolds, PTL

(* Soundness: when Check returns true, the order in which sections were    *)
(* opened and the states before and after them are a linearization of the  *)
(* history.                                                                *)
THEOREM AcceptIsSound == Spec => []AcceptIsWitnessed
<1>1. ASSUME WglInv, verdict = "linearizable"
      PROVE  /\ open_sections_stack \in Orders(Invokes(history))
             /\ RespectsRealTime(history, open_sections_stack)
             /\ Legal(history, open_sections_stack,
                      Append(states_stack, data_structure_state))
  <2> DEFINE stack == open_sections_stack
             n == Len(stack)
  <2>1. TypeOK /\ SectionsInv /\ OrderInv BY <1>1 DEF WglInv
  <2>2. /\ n \in Nat
        /\ DOMAIN stack = 1..n
        /\ stack \in [1..n -> Invokes(history)]
        /\ \A k, m \in 1..n : stack[k] = stack[m] => k = m
    BY <2>1 DEF TypeOK, SectionsInv
  <2>3. \A i \in Invokes(history) : \E k \in 1..n : stack[k] = i
    BY <1>1, <2>1, EventKinds DEF WglInv, VerdictInv, SectionsInv
  <2>4. n = Cardinality(Invokes(history))
    <3>1. stack \in Bijection(1..n, Invokes(history))
      BY <2>2, <2>3 DEF Bijection, Injection, Surjection, IsInjective
    <3>2. ExistsBijection(1..n, Invokes(history))
      BY <3>1 DEF ExistsBijection
    <3>3. IsFiniteSet(1..n) /\ Cardinality(1..n) = n BY <2>2, IntervalSize
    <3> QED BY <3>2, <3>3, FS_Bijection
  <2>5. stack \in Orders(Invokes(history)) BY <2>2, <2>4 DEF Orders
  <2>6. ASSUME NEW k \in 1..n, NEW m \in 1..n, k < m,
               Precedes(history, stack[m], stack[k])
        PROVE  FALSE
    <3>1. PICK j \in Responses(history) :
            Answers(history, j, stack[m]) /\ j < stack[k]
      BY <2>6 DEF Precedes
    <3>2. PICK p \in 1..(k - 1) : /\ stack[p] \in DOMAIN inv_res
                                   /\ inv_res[stack[p]] = j
      BY <2>1, <3>1 DEF OrderInv
    <3>3. stack[m] \in DOMAIN inv_res /\ inv_res[stack[m]] = j
      BY <2>1, <2>2, <3>1, InvResPairs
    <3>4. stack[p] = stack[m] BY <2>1, <3>2, <3>3, InvResPairs
    <3>5. p \in 1..n /\ p # m BY <2>2, <2>6, <3>2
    <3> QED BY <2>2, <3>4, <3>5
  <2>7. RespectsRealTime(history, stack)
    BY <2>2, <2>6 DEF RespectsRealTime
  <2> QED BY <1>1, <2>5, <2>7 DEF WglInv, StatesInv
<1>2. WglInv => AcceptIsWitnessed BY <1>1 DEF AcceptIsWitnessed
<1> QED BY <1>2, InvariantHolds, PTL

-----------------------------------------------------------------------------
(* Completeness. *)

(* The nodes of the search tree on the current path: the first k open      *)
(* sections, and the state after them.                                     *)
Opened(k)     == {open_sections_stack[m] : m \in 1..k}
StateAfter(k) == Append(states_stack, data_structure_state)[k + 1]

(* Where the scan of the node of level k stopped. *)
ScannedTo(k) ==
  IF k < Len(open_sections_stack)
  THEN open_sections_stack[k + 1] ELSE current_section_start

(* A cached node is on the current path, or its subtree has been searched  *)
(* in vain.                                                                *)
CacheInv ==
  \A e \in states_cache :
    \/ \E k \in 1..Len(open_sections_stack) :
         e[1] \cap Invokes(history) = Opened(k) /\ e[2] = StateAfter(k)
    \/ ~Completable(history, e[1] \cap Invokes(history), e[2])

(* Every operation that the scan of a node has passed fails in that node. *)
TriedInv ==
  \A k \in 0..Len(open_sections_stack) : \A i \in Invokes(history) :
    i \notin Opened(k) /\ i < ScannedTo(k) =>
      Fails(history, Opened(k), StateAfter(k), i)

RejectInv ==
  verdict = "not_linearizable" => ~Completable(history, {}, first_state)

(* The inductive invariant, on top of WglInv. *)
SearchInv == CacheInv /\ TriedInv /\ RejectInv

-----------------------------------------------------------------------------
(* The linearized invokes are the open sections. *)
LEMMA OpenedIsLinearized ==
  ASSUME WglInv
  PROVE  /\ Len(open_sections_stack) \in Nat
         /\ Opened(Len(open_sections_stack)) = linearized \cap Invokes(history)
         /\ \A k \in 0..Len(open_sections_stack) :
              Opened(k) \subseteq linearized \cap Invokes(history)
<1> DEFINE n == Len(open_sections_stack)
<1>1. n \in Nat BY DEF WglInv, TypeOK
<1>2. \A m \in 1..n : open_sections_stack[m] \in linearized \cap Invokes(history)
  BY DEF WglInv, SectionsInv, TypeOK
<1>3. \A i \in linearized \cap Invokes(history) : i \in Opened(n)
  BY DEF WglInv, SectionsInv, Opened
<1>4. \A k \in 0..n : \A m \in 1..k : m \in 1..n BY <1>1
<1>5. \A k \in 0..n : Opened(k) \subseteq linearized \cap Invokes(history)
  BY <1>2, <1>4 DEF Opened
<1>6. n \in 0..n BY <1>1
<1> QED BY <1>1, <1>3, <1>5, <1>6

(* A section adds its invoke to the linearized ones. *)
LEMMA SectionInvokes ==
  ASSUME TypeOK, NEW i \in Invokes(history)
  PROVE  SectionEntries(i) \cap Invokes(history) = {i}
BY InvResPairs, EventKinds DEF SectionEntries

(* The states of the path. *)
LEMMA PathStates ==
  ASSUME WglInv
  PROVE  /\ StateAfter(Len(open_sections_stack)) = data_structure_state
         /\ StateAfter(0) = first_state
         /\ \A k \in 0..(Len(open_sections_stack) - 1) :
              /\ StateAfter(k) = states_stack[k + 1]
              /\ StateAfter(k + 1) =
                   Effect(StateAfter(k), history[open_sections_stack[k + 1]].task.call)
<1> DEFINE n == Len(open_sections_stack)
           S == Append(states_stack, data_structure_state)
<1>1. /\ n \in Nat /\ DOMAIN open_sections_stack = 1..n
      /\ states_stack \in Seq(SpecStates) /\ Len(states_stack) = n
  BY DEF WglInv, TypeOK, SectionsInv
<1>2. S[n + 1] = data_structure_state BY <1>1
<1>3. \A k \in 1..n : S[k] = states_stack[k] BY <1>1
<1>4. \A k \in 0..(n - 1) : k + 1 \in 1..n BY <1>1
<1>5. Legal(history, open_sections_stack, S) BY DEF WglInv, StatesInv
<1>6. \A k : StateAfter(k) = S[k + 1] BY DEF StateAfter
<1> HIDE DEF S
<1>7. S[1] = first_state /\ \A k \in 1..n :
        S[k + 1] = Effect(S[k], history[open_sections_stack[k]].task.call)
  BY <1>1, <1>5 DEF Legal
<1>8. StateAfter(0) = first_state
  <2>1. 0 + 1 = 1 OBVIOUS
  <2> QED BY <1>6, <1>7, <2>1
<1> QED BY <1>2, <1>3, <1>4, <1>6, <1>7, <1>8

(* At a response that is not linearized every candidate for the next       *)
(* operation has been tried, so the node of the current path is dead.      *)
LEMMA ResponseIsDeadEnd ==
  ASSUME WglInv, TriedInv, AtResponse
  PROVE  ~Completable(history, Opened(Len(open_sections_stack)),
                      data_structure_state)
<1> DEFINE n == Len(open_sections_stack)
           cs == current_section_start
<1> SUFFICES ASSUME Completable(history, Opened(n), data_structure_state)
             PROVE  FALSE
  OBVIOUS
<1>1. TypeOK /\ data_structure_state \in SpecStates BY DEF WglInv, TypeOK
<1>2. cs \in Responses(history) /\ cs \notin linearized
  BY DEF AtResponse, Responses
<1>3. PICK o \in DOMAIN inv_res : inv_res[o] = cs BY <1>1, <1>2, InvResPairs
<1>4. /\ o \in Invokes(history) /\ o \notin linearized
      /\ Answers(history, cs, o)
  BY <1>1, <1>2, <1>3, InvResPairs DEF WglInv, SectionsInv
<1>5. o \in Invokes(history) \ Opened(n) BY <1>4, OpenedIsLinearized
<1>6. PICK i \in Invokes(history) \ Opened(n) :
        /\ \A p \in Invokes(history) \ Opened(n) : ~Precedes(history, p, i)
        /\ ~Fails(history, Opened(n), data_structure_state, i)
  BY <1>1, <1>5, FirstOfCompletion DEF TypeOK
<1>7. ~(cs < i) BY <1>2, <1>4, <1>5, <1>6 DEF Precedes
<1>8. i < cs
  <2>1. i # cs BY <1>1, <1>2, EventKinds
  <2>2. i \in Nat /\ cs \in Nat BY <1>1, <1>2, EventKinds
  <2> QED BY <1>7, <2>1, <2>2
<1>9. n \in 0..n /\ ~(n < n) BY OpenedIsLinearized
<1>10. i < ScannedTo(n) BY <1>8, <1>9 DEF ScannedTo
<1>11. Fails(history, Opened(n), StateAfter(n), i)
  BY <1>6, <1>9, <1>10 DEF TriedInv
<1> QED BY <1>6, <1>11, PathStates

(* Nothing was given up when the search begins. *)
LEMMA SearchInit == Init => SearchInv
<1> SUFFICES ASSUME Init PROVE SearchInv OBVIOUS
<1>1. TypeOK BY InitInv DEF WglInv
<1>2. CacheInv BY DEF Init, CacheInv
<1>3. TriedInv
  <2>1. ~(0 < Len(open_sections_stack)) /\ Len(open_sections_stack) = 0
    BY DEF Init
  <2>2. ScannedTo(0) = 1 BY <2>1 DEF ScannedTo, Init
  <2>3. \A i \in Invokes(history) : ~(i < 1) BY <1>1, EventKinds
  <2> QED BY <2>1, <2>2, <2>3 DEF TriedInv
<1>4. RejectInv BY DEF Init, RejectInv
<1> QED BY <1>2, <1>3, <1>4 DEF SearchInv

(* The scan moves on by one position, past an event that is linearized or  *)
(* past an invoke that fails.                                              *)
LEMMA ScanKeepsSearch ==
  ASSUME WglInv, SearchInv,
         UNCHANGED <<history, data_structure_state, open_sections_stack,
                     states_stack, states_cache, verdict>>,
         current_section_start' = current_section_start + 1,
         current_section_start \in Invokes(history) =>
           \/ current_section_start \in linearized
           \/ Fails(history, Opened(Len(open_sections_stack)),
                    data_structure_state, current_section_start)
  PROVE  SearchInv'
<1> DEFINE n == Len(open_sections_stack)
           cs == current_section_start
<1>1. /\ history' = history /\ n' = n /\ states_cache' = states_cache
      /\ verdict' = verdict
      /\ \A k : Opened(k)' = Opened(k) /\ StateAfter(k)' = StateAfter(k)
  BY DEF Opened, StateAfter
<1>2. CacheInv' BY <1>1 DEF CacheInv, SearchInv
<1>3. RejectInv' BY <1>1 DEF RejectInv, SearchInv
<1>4. TriedInv'
  <2>1. ASSUME NEW k \in 0..n, NEW i \in Invokes(history),
               i \notin Opened(k), i < ScannedTo(k)'
        PROVE  Fails(history, Opened(k), StateAfter(k), i)
    <3>1. CASE i < ScannedTo(k)
      BY <2>1, <3>1 DEF TriedInv, SearchInv
    <3>2. CASE ~(i < ScannedTo(k))
      <4>1. n \in Nat /\ k \in Int BY OpenedIsLinearized
      <4>2. k = n /\ ScannedTo(k) = cs /\ ScannedTo(k)' = cs + 1
        BY <2>1, <3>2, <4>1 DEF ScannedTo
      <4>3. i = cs
        <5>1. i \in Nat /\ cs \in Nat BY EventKinds DEF WglInv, TypeOK
        <5> QED BY <2>1, <3>2, <4>2, <5>1
      <4>4. cs \notin linearized BY <2>1, <4>2, <4>3, OpenedIsLinearized
      <4> QED BY <4>2, <4>3, <4>4, PathStates
    <3> QED BY <3>1, <3>2
  <2> QED BY <1>1, <2>1 DEF TriedInv
<1> QED BY <1>2, <1>3, <1>4 DEF SearchInv

(* Passing over a linearized entry gives nothing up. *)
LEMMA SkipKeepsSearch == WglInv /\ SearchInv /\ SkipLinearized => SearchInv'
BY ScanKeepsSearch DEF SkipLinearized

(* An invoke is passed: its result is another one, or its node is in the   *)
(* cache.  A node of the current path does not contain the invoke, so the  *)
(* cached one has been searched in vain.                                   *)
LEMMA PassKeepsSearch == WglInv /\ SearchInv /\ PassInvoke => SearchInv'
<1> SUFFICES ASSUME WglInv, SearchInv, PassInvoke PROVE SearchInv' OBVIOUS
<1> DEFINE n == Len(open_sections_stack)
           cs == current_section_start
<1>1. TypeOK BY DEF WglInv
<1>2. cs \in Invokes(history) /\ cs \notin linearized
  BY DEF PassInvoke, AtInvoke, Invokes
<1>3. CASE ~Appendable
  <2>1. cs \in DOMAIN inv_res
        /\ Result(data_structure_state, history[cs].task.call) # history[cs].task.ret
    BY <1>3 DEF Appendable, CurrentCall
  <2>2. Answered(history, cs) BY <1>1, <2>1, InvResPairs DEF Answered
  <2>3. Fails(history, Opened(n), data_structure_state, cs)
    BY <2>1, <2>2 DEF Fails
  <2> QED BY <2>3, ScanKeepsSearch DEF PassInvoke
<1>4. CASE WasChecked(NextLinearized, NextState)
  <2>1. PICK e \in states_cache :
          e[1] = NextLinearized /\ SpecEquals(e[2], NextState)
    BY <1>4 DEF WasChecked
  <2>2. NextState \in SpecStates
    <3>1. CurrentCall \in Calls
      <4>1. history[cs] \in Event BY <1>1, <1>2, EventKinds DEF TypeOK
      <4> QED BY <4>1 DEF CurrentCall, Event, Tasks
    <3> QED BY <1>1, <3>1, SpecAssumption DEF NextState, TypeOK
  <2>3. e[2] = NextState
    <3>1. e[2] \in SpecStates BY <1>1 DEF TypeOK
    <3> QED BY <2>1, <2>2, <3>1, SpecEqualsAssumption
  <2>4. e[1] \cap Invokes(history) = Opened(n) \cup {cs}
    BY <1>1, <1>2, <2>1, SectionInvokes, OpenedIsLinearized DEF NextLinearized
  <2>5. ASSUME NEW k \in 1..n, e[1] \cap Invokes(history) = Opened(k) PROVE FALSE
    <3>1. k \in 0..n BY OpenedIsLinearized
    <3>2. cs \in linearized BY <2>4, <2>5, <3>1, OpenedIsLinearized
    <3> QED BY <1>2, <3>2
  <2>6. ~Completable(history, Opened(n) \cup {cs}, NextState)
    BY <2>3, <2>4, <2>5 DEF SearchInv, CacheInv
  <2>7. Fails(history, Opened(n), data_structure_state, cs)
    BY <2>6 DEF Fails, NextState, CurrentCall
  <2> QED BY <2>7, ScanKeepsSearch DEF PassInvoke
<1> QED BY <1>3, <1>4 DEF PassInvoke

(* A section is opened: the path grows by the node that enters the cache,  *)
(* and the scan of the node below it stopped where the section starts.     *)
LEMMA OpenKeepsSearch == WglInv /\ SearchInv /\ OpenSection => SearchInv'
<1> SUFFICES ASSUME WglInv, SearchInv, OpenSection PROVE SearchInv' OBVIOUS
<1> DEFINE stack == open_sections_stack
           n == Len(stack)
           cs == current_section_start
<1>1. TypeOK /\ n \in Nat BY DEF WglInv, TypeOK
<1>2. cs \in Invokes(history) BY DEF OpenSection, AtInvoke, Invokes
<1>3. /\ history' = history /\ verdict' = verdict /\ Len(stack') = n + 1
      /\ stack'[n + 1] = cs /\ current_section_start' = 1
      /\ states_cache' = states_cache \cup {<<NextLinearized, NextState>>}
  BY <1>1, <1>2 DEF OpenSection, AfterOpen, TypeOK
<1>4. \A k \in 1..n : stack'[k] = stack[k]
  BY <1>1, <1>2 DEF OpenSection, TypeOK
<1>5. \A k \in 0..n : Opened(k)' = Opened(k)
  <2>1. \A k \in 0..n : \A m \in 1..k : stack'[m] = stack[m] BY <1>1, <1>4
  <2> QED BY <2>1 DEF Opened
<1>6. ASSUME NEW k, k = n + 1 PROVE Opened(k)' = Opened(n) \cup {cs}
  <2>1. \A m \in 1..(n + 1) : m \in 1..n \/ m = n + 1 BY <1>1
  <2>2. \A m \in 1..n : m \in 1..(n + 1) BY <1>1
  <2>3. n + 1 \in 1..(n + 1) BY <1>1
  <2>4. Opened(k)' = {stack'[m] : m \in 1..(n + 1)} BY <1>6 DEF Opened
  <2> QED BY <1>3, <1>4, <2>1, <2>2, <2>3, <2>4 DEF Opened
<1>7. /\ states_stack' = Append(states_stack, data_structure_state)
      /\ data_structure_state' = NextState
      /\ states_stack \in Seq(SpecStates) /\ Len(states_stack) = n
      /\ data_structure_state \in SpecStates
  BY DEF OpenSection, WglInv, SectionsInv, TypeOK
<1>8. /\ \A k \in 0..n : StateAfter(k)' = StateAfter(k)
      /\ \A k : k = n + 1 => StateAfter(k)' = NextState
  <2>1. \A k \in 0..n : k + 1 \in 1..(n + 1) BY <1>1
  <2>2. /\ states_stack' \in Seq(SpecStates) /\ Len(states_stack') = n + 1
        /\ \A k \in 1..(n + 1) :
             states_stack'[k] = Append(states_stack, data_structure_state)[k]
    BY <1>1, <1>7
  <2>3. \A k \in 1..(n + 1) :
          Append(states_stack', NextState)[k] = states_stack'[k]
    BY <1>1, <2>2
  <2>4. Append(states_stack', NextState)[n + 1 + 1] = NextState BY <1>1, <2>2
  <2> QED BY <1>7, <2>1, <2>2, <2>3, <2>4 DEF StateAfter
<1>9. CacheInv'
  <2>1. ASSUME NEW e \in states_cache
        PROVE  \/ \E k \in 1..(n + 1) : /\ e[1] \cap Invokes(history) = Opened(k)'
                                        /\ e[2] = StateAfter(k)'
               \/ ~Completable(history, e[1] \cap Invokes(history), e[2])
    <3>1. CASE \E k \in 1..n : /\ e[1] \cap Invokes(history) = Opened(k)
                               /\ e[2] = StateAfter(k)
      <4>1. PICK k \in 1..n : /\ e[1] \cap Invokes(history) = Opened(k)
                              /\ e[2] = StateAfter(k)
        BY <3>1
      <4>2. k \in 0..n /\ k \in 1..(n + 1) BY <1>1
      <4> QED BY <1>5, <1>8, <4>1, <4>2
    <3> QED BY <3>1 DEF SearchInv, CacheInv
  <2>2. \A k : k = n + 1 => NextLinearized \cap Invokes(history) = Opened(k)'
    BY <1>1, <1>2, <1>6, SectionInvokes, OpenedIsLinearized DEF NextLinearized
  <2>3. n + 1 \in 1..(n + 1) BY <1>1
  <2>4. ASSUME NEW e, e = <<NextLinearized, NextState>>
        PROVE  \E k \in 1..(n + 1) : /\ e[1] \cap Invokes(history) = Opened(k)'
                                     /\ e[2] = StateAfter(k)'
    BY <1>8, <2>2, <2>3, <2>4
  <2> QED BY <1>3, <2>1, <2>4 DEF CacheInv
<1>10. TriedInv'
  <2>1. ASSUME NEW k \in 0..(n + 1), NEW i \in Invokes(history),
               i \notin Opened(k)', i < ScannedTo(k)'
        PROVE  Fails(history, Opened(k)', StateAfter(k)', i)
    <3>1. CASE k \in 0..n
      <4>1. ScannedTo(k)' = stack'[k + 1] BY <1>1, <1>3, <3>1 DEF ScannedTo
      <4>2. ScannedTo(k) = stack'[k + 1]
        <5>1. CASE k < n
          <6>1. k + 1 \in 1..n BY <1>1, <3>1, <5>1
          <6> QED BY <1>4, <5>1, <6>1 DEF ScannedTo
        <5>2. CASE ~(k < n)
          <6>1. k = n BY <1>1, <3>1, <5>2
          <6> QED BY <1>3, <5>2, <6>1 DEF ScannedTo
        <5> QED BY <5>1, <5>2
      <4> QED BY <1>5, <1>8, <2>1, <3>1, <4>1, <4>2 DEF SearchInv, TriedInv
    <3>2. CASE k = n + 1
      <4>1. ~(k < n + 1) BY <1>1, <3>2
      <4>2. ScannedTo(k)' = 1 BY <1>3, <4>1 DEF ScannedTo
      <4>3. ~(i < 1) BY <1>1, EventKinds
      <4> QED BY <2>1, <4>2, <4>3
    <3> QED BY <1>1, <3>1, <3>2
  <2> QED BY <1>3, <2>1 DEF TriedInv
<1>11. RejectInv' BY <1>3 DEF SearchInv, RejectInv
<1> QED BY <1>9, <1>10, <1>11 DEF SearchInv

(* The last section is closed: its node leaves the path and stays in the   *)
(* cache as one that was searched in vain, and the scan of the node below  *)
(* goes on after it.                                                       *)
LEMMA CloseKeepsSearch == WglInv /\ SearchInv /\ CloseSection => SearchInv'
<1> SUFFICES ASSUME WglInv, SearchInv, CloseSection PROVE SearchInv' OBVIOUS
<1> DEFINE stack == open_sections_stack
           n == Len(stack)
           last == stack[n]
<1>1. /\ TypeOK /\ n \in Nat \ {0}
      /\ stack \in Seq(Invokes(history))
      /\ states_stack \in Seq(SpecStates) /\ Len(states_stack) = n
      /\ last \in Invokes(history)
  BY DEF WglInv, TypeOK, SectionsInv, CloseSection
<1>2. /\ history' = history /\ verdict' = verdict
      /\ states_cache' = states_cache
      /\ stack' = SubSeq(stack, 1, n - 1)
      /\ states_stack' = SubSeq(states_stack, 1, n - 1)
      /\ data_structure_state' = states_stack[n]
      /\ current_section_start' = last + 1
  BY DEF CloseSection, AfterClose
<1>3. Len(stack') = n - 1 /\ \A k \in 1..(n - 1) : stack'[k] = stack[k]
  BY <1>1, <1>2, PopBack
<1>4. \A k \in 0..(n - 1) : Opened(k)' = Opened(k)
  <2>1. \A k \in 0..(n - 1) : \A m \in 1..k : stack'[m] = stack[m]
    BY <1>1, <1>3
  <2> QED BY <2>1 DEF Opened
<1>5. \A k \in 0..(n - 1) : StateAfter(k)' = StateAfter(k)
  <2>1. \A k \in 0..(n - 1) : k + 1 \in 1..n BY <1>1
  <2>2. /\ states_stack' \in Seq(SpecStates)
        /\ Len(states_stack') = n - 1
        /\ \A k \in 1..(n - 1) : states_stack'[k] = states_stack[k]
    BY <1>1, <1>2, PopBack
  <2>3. \A k \in 1..n : Append(states_stack', states_stack[n])[k] = states_stack[k]
    BY <1>1, <2>2
  <2>4. \A k \in 1..n :
          Append(states_stack, data_structure_state)[k] = states_stack[k]
    BY <1>1
  <2> QED BY <1>2, <2>1, <2>3, <2>4 DEF StateAfter
<1>6. ~Completable(history, Opened(n), StateAfter(n))
  BY ResponseIsDeadEnd, PathStates DEF SearchInv, CloseSection
<1>7. CacheInv'
  <2>1. ASSUME NEW e \in states_cache
        PROVE  \/ \E k \in 1..(n - 1) : /\ e[1] \cap Invokes(history) = Opened(k)'
                                        /\ e[2] = StateAfter(k)'
               \/ ~Completable(history, e[1] \cap Invokes(history), e[2])
    <3>1. CASE \E k \in 1..n : /\ e[1] \cap Invokes(history) = Opened(k)
                               /\ e[2] = StateAfter(k)
      <4>1. PICK k \in 1..n : /\ e[1] \cap Invokes(history) = Opened(k)
                              /\ e[2] = StateAfter(k)
        BY <3>1
      <4>2. CASE k = n BY <1>6, <4>1, <4>2
      <4>3. CASE k # n
        <5>1. k \in 0..(n - 1) /\ k \in 1..(n - 1) BY <1>1, <4>3
        <5> QED BY <1>4, <1>5, <4>1, <5>1
      <4> QED BY <4>2, <4>3
    <3> QED BY <3>1 DEF SearchInv, CacheInv
  <2> QED BY <1>2, <1>3, <2>1 DEF CacheInv
<1>8. TriedInv'
  <2>1. ASSUME NEW k \in 0..(n - 1), NEW i \in Invokes(history),
               i \notin Opened(k), i < ScannedTo(k)'
        PROVE  Fails(history, Opened(k), StateAfter(k), i)
    <3>1. k \in 0..n /\ k < n BY <1>1
    <3>2. ScannedTo(k) = stack[k + 1] BY <3>1 DEF ScannedTo
    <3>3. CASE k < n - 1
      <4>1. k + 1 \in 1..(n - 1) BY <1>1, <3>3
      <4>2. ScannedTo(k)' = stack'[k + 1] BY <1>3, <3>3 DEF ScannedTo
      <4>3. ScannedTo(k)' = ScannedTo(k) BY <1>3, <3>2, <4>1, <4>2
      <4> QED BY <2>1, <3>1, <4>3 DEF SearchInv, TriedInv
    <3>4. CASE k = n - 1
      <4>1. k + 1 = n BY <1>1, <3>4
      <4>2. ScannedTo(k) = last /\ ScannedTo(k)' = last + 1
        BY <1>1, <1>2, <1>3, <3>2, <3>4, <4>1 DEF ScannedTo
      <4>3. CASE i < last
        BY <2>1, <3>1, <4>2, <4>3 DEF SearchInv, TriedInv
      <4>4. CASE i = last
        <5>1. Opened(k) \cup {last} = Opened(n)
          <6>1. \A m \in 1..n : m \in 1..k \/ m = n BY <1>1, <3>4
          <6>2. \A m \in 1..k : m \in 1..n BY <1>1, <3>4
          <6>3. n \in 1..n BY <1>1
          <6> QED BY <6>1, <6>2, <6>3 DEF Opened
        <5>2. StateAfter(n) = Effect(StateAfter(k), history[last].task.call)
          BY <4>1, PathStates
        <5> QED BY <1>6, <4>4, <5>1, <5>2 DEF Fails
      <4>5. i \in Nat /\ last \in Nat BY <1>1, EventKinds
      <4> QED BY <2>1, <4>2, <4>3, <4>4, <4>5
    <3> QED BY <1>1, <3>3, <3>4
  <2> QED BY <1>2, <1>3, <1>4, <1>5, <2>1 DEF TriedInv
<1>9. RejectInv' BY <1>2 DEF SearchInv, RejectInv
<1> QED BY <1>7, <1>8, <1>9 DEF SearchInv

(* Every step gives up only what leads nowhere. *)
LEMMA NextKeepsSearch == WglInv /\ SearchInv /\ [Next]_vars => SearchInv'
<1> SUFFICES ASSUME WglInv, SearchInv, [Next]_vars PROVE SearchInv' OBVIOUS
<1>1. CASE SkipLinearized BY <1>1, SkipKeepsSearch
<1>2. CASE OpenSection BY <1>2, OpenKeepsSearch
<1>3. CASE PassInvoke BY <1>3, PassKeepsSearch
<1>4. CASE CloseSection BY <1>4, CloseKeepsSearch
<1>5. ASSUME UNCHANGED <<history, current_section_start, data_structure_state,
                         open_sections_stack, states_stack, linearized,
                         states_cache>>
      PROVE  CacheInv' /\ TriedInv'
  <2>1. /\ history' = history
        /\ open_sections_stack' = open_sections_stack
        /\ states_cache' = states_cache
        /\ \A k : /\ Opened(k)' = Opened(k)
                  /\ StateAfter(k)' = StateAfter(k)
                  /\ ScannedTo(k)' = ScannedTo(k)
    BY <1>5 DEF Opened, StateAfter, ScannedTo
  <2> QED BY <2>1 DEF SearchInv, CacheInv, TriedInv
<1>6. CASE Reject
  <2>1. Opened(0) = {} /\ Len(open_sections_stack) = 0
    BY <1>6 DEF Reject, Opened
  <2>2. data_structure_state = first_state BY <2>1, PathStates
  <2>3. ~Completable(history, {}, first_state)
    BY <1>6, <2>1, <2>2, ResponseIsDeadEnd DEF Reject, SearchInv
  <2>4. RejectInv' BY <1>6, <2>3 DEF Reject, RejectInv
  <2> QED BY <1>5, <1>6, <2>4 DEF Reject, SearchInv
<1>7. CASE Accept BY <1>5, <1>7 DEF Accept, SearchInv, RejectInv
<1>8. CASE UNCHANGED vars BY <1>5, <1>8 DEF vars, SearchInv, RejectInv
<1> QED BY <1>1, <1>2, <1>3, <1>4, <1>6, <1>7, <1>8 DEF Next, Returned

(* The search has tried every operation it passed, in every node of its    *)
(* path, and every cached node off the path has been searched in vain.     *)
THEOREM SearchIsExhaustive == Spec => []SearchInv
<1>1. Init => SearchInv BY SearchInit
<1>2. WglInv /\ SearchInv /\ [Next]_vars => SearchInv' BY NextKeepsSearch
<1> QED BY <1>1, <1>2, InvariantHolds, PTL DEF Spec

(* Completeness: when Check returns false, no order of the operations is a *)
(* linearization.                                                          *)
THEOREM RejectIsComplete == Spec => []RejectIsRight
<1>1. ASSUME SearchInv PROVE RejectIsRight
  <2> SUFFICES ASSUME verdict = "not_linearizable",
                      Linearizes(history, Invokes(history))
               PROVE  FALSE
    BY DEF RejectIsRight
  <2>1. Invokes(history) \ {} = Invokes(history) OBVIOUS
  <2>2. Completable(history, {}, first_state)
    BY <2>1 DEF Linearizes, Legal, Completable
  <2> QED BY <1>1, <2>2 DEF SearchInv, RejectInv
<1> QED BY <1>1, SearchIsExhaustive, PTL

-----------------------------------------------------------------------------
(* The verdict of Check is the definition of Herlihy and Wing, although    *)
(* Check linearizes every pending operation and that definition may leave  *)
(* it out.                                                                 *)
THEOREM VerdictIsExact == Spec => []MatchesReference
<1>1. ASSUME WglInv, AcceptIsWitnessed, RejectIsRight PROVE MatchesReference
  <2>1. TypeOK BY <1>1 DEF WglInv
  <2>2. ASSUME verdict = "linearizable" PROVE Linearizable(history)
    <3> DEFINE I == Invokes(history)
               S == Append(states_stack, data_structure_state)
               n == Cardinality(I)
    <3>1. /\ open_sections_stack \in Orders(I)
          /\ RespectsRealTime(history, open_sections_stack)
          /\ Legal(history, open_sections_stack, S)
      BY <1>1, <2>2 DEF AcceptIsWitnessed
    <3>2. IsFiniteSet(I) BY <2>1, EventKinds, FS_Subset
    <3>3. n \in Nat BY <3>2, FS_CardinalityType
    <3>4. Len(open_sections_stack) = n
      <4>1. DOMAIN open_sections_stack = 1..n BY <3>1 DEF Orders
      <4>2. open_sections_stack \in Seq(I) BY <2>1 DEF TypeOK
      <4> HIDE DEF n, I
      <4> QED BY <3>3, <4>1, <4>2
    <3>5. S \in [1..(n + 1) -> SpecStates]
      <4>1. Len(states_stack) = n BY <1>1, <3>4 DEF WglInv, SectionsInv
      <4>2. states_stack \in Seq(SpecStates) /\ data_structure_state \in SpecStates
        BY <2>1 DEF TypeOK
      <4> HIDE DEF n
      <4>3. S \in Seq(SpecStates) /\ Len(S) = n + 1 BY <4>1, <4>2
      <4> HIDE DEF S
      <4> QED BY <4>3
    <3> HIDE DEF S
    <3>6. Linearizes(history, I) BY <3>1, <3>5 DEF Linearizes
    <3> QED BY <3>6 DEF Linearizable
  <2>3. ASSUME verdict = "not_linearizable" PROVE ~Linearizable(history)
    BY <1>1, <2>1, <2>3, PendingCanBeLinearized DEF RejectIsRight, TypeOK
  <2>4. verdict \in {"none", "linearizable", "not_linearizable"}
    BY <2>1 DEF TypeOK
  <2>5. Linearizable(history) \in BOOLEAN BY DEF Linearizable
  <2> QED BY <2>2, <2>3, <2>4, <2>5 DEF MatchesReference
<1> QED BY <1>1, InvariantHolds, AcceptIsSound, RejectIsComplete, PTL

(* The two checkers give the same answer for every history. *)
THEOREM CheckersAgree == Spec => []AgreesWithRecursive
<1>1. ASSUME TypeOK, MatchesReference PROVE AgreesWithRecursive
  <2>1. CheckRecursive(history) <=> Linearizable(history)
    BY <1>1, RecursiveIsExact DEF TypeOK
  <2>2. CheckRecursive(history) \in BOOLEAN /\ Linearizable(history) \in BOOLEAN
    BY DEF CheckRecursive, Linearizable
  <2> QED BY <1>1, <2>1, <2>2 DEF MatchesReference, AgreesWithRecursive
<1> QED BY <1>1, TypeCorrect, VerdictIsExact, PTL
=============================================================================
