------------------------ MODULE RecursiveCheckerProofs ------------------------
(***************************************************************************)
(* LinearizabilityCheckerRecursive::Check, the checker ltest::Run builds,  *)
(* decides linearizability.                                                *)
(*                                                                         *)
(* recursive_step is a recursive function, so that its meaning is that of  *)
(* any solution of its equation: `Completable` is one, and there is no     *)
(* other because every call leaves fewer entries to linearize.             *)
(***************************************************************************)
EXTENDS RecursiveChecker, LinearizabilityProofs

(* What recursive_step computes. *)
Answer(h) == [node \in Nodes(h) |-> Completable(h, node[1], node[2])]

(* The entries that opening the section of i marks. *)
Marks(h, i) ==
  IF i \in DOMAIN get_inv_res_mapping(h) THEN {i, get_inv_res_mapping(h)[i]} ELSE {i}

-----------------------------------------------------------------------------
(* The calls that recursive_step makes: their arguments are nodes again,   *)
(* with more entries linearized.                                           *)
LEMMA CallsAreNodes ==
  ASSUME NEW h \in Seq(Event), WellFormed(h), NEW L, NEW s, <<L, s>> \in Nodes(h),
         NEW i \in MinimalOps(h, L)
  PROVE  /\ <<L \cup Marks(h, i), Effect(s, h[i].task.call)>> \in Nodes(h)
         /\ i \in DOMAIN h /\ i \notin L
         /\ Invokes(h) \ (L \cup Marks(h, i)) = Invokes(h) \ (L \cup {i})
<1> DEFINE mapping == get_inv_res_mapping(h)
<1>1. /\ DOMAIN mapping \subseteq Invokes(h)
      /\ \A k \in DOMAIN mapping : mapping[k] \in Responses(h)
      /\ \A k, m \in DOMAIN mapping : mapping[k] = mapping[m] => k = m
  BY ResponsesArePaired
<1>2. /\ Invokes(h) \subseteq DOMAIN h /\ Responses(h) \subseteq DOMAIN h
      /\ Invokes(h) \cap Responses(h) = {}
  BY EventsOfHistory
<1>3. i \in Invokes(h) /\ i \notin L BY DEF MinimalOps
<1>4. /\ L \in SUBSET (DOMAIN h) /\ s \in SpecStates
      /\ \A k \in DOMAIN mapping : k \in L <=> mapping[k] \in L
  BY DEF Nodes
<1>5. Effect(s, h[i].task.call) \in SpecStates
  <2>1. h[i] \in Event BY <1>3 DEF Invokes
  <2>2. h[i].task.call \in Calls BY <2>1 DEF Event, Tasks
  <2> QED BY <1>4, <2>2, SpecAssumption
<1> HIDE DEF mapping
<1>6. Marks(h, i) = IF i \in DOMAIN mapping THEN {i, mapping[i]} ELSE {i}
  BY DEF Marks, mapping
<1>7. L \cup Marks(h, i) \in SUBSET (DOMAIN h) BY <1>1, <1>2, <1>3, <1>4, <1>6
<1>8. \A k \in DOMAIN mapping :
        k \in L \cup Marks(h, i) <=> mapping[k] \in L \cup Marks(h, i)
  BY <1>1, <1>2, <1>3, <1>4, <1>6
<1>9. <<L \cup Marks(h, i), Effect(s, h[i].task.call)>> \in Nodes(h)
  BY <1>5, <1>7, <1>8 DEF Nodes, mapping
<1>10. Invokes(h) \ (L \cup Marks(h, i)) = Invokes(h) \ (L \cup {i})
  BY <1>1, <1>2, <1>6
<1> QED BY <1>2, <1>3, <1>9, <1>10

(* The body of recursive_step with the mapping of responses resolved. *)
LEMMA StepCases ==
  ASSUME NEW h \in Seq(Event), WellFormed(h), NEW step, NEW L, NEW s
  PROVE  RecursiveStep(h, step, L, s) <=>
           \/ L = DOMAIN h
           \/ \E i \in MinimalOps(h, L) :
                /\ Answered(h, i) => Result(s, h[i].task.call) = h[i].task.ret
                /\ step[<<L \cup Marks(h, i), Effect(s, h[i].task.call)>>]
<1>1. \A i \in Invokes(h) : Answered(h, i) <=> i \in DOMAIN get_inv_res_mapping(h)
  BY DEF get_inv_res_mapping, Answered
<1>2. MinimalOps(h, L) \subseteq Invokes(h) BY DEF MinimalOps
<1> QED BY <1>1, <1>2 DEF RecursiveStep, Marks

(* Completable solves the equation of recursive_step: the minimal          *)
(* operations are those that can come first.                               *)
LEMMA AnswerIsSolution ==
  ASSUME NEW h \in Seq(Event), WellFormed(h), NEW L, NEW s, <<L, s>> \in Nodes(h)
  PROVE  Completable(h, L, s) <=> RecursiveStep(h, Answer(h), L, s)
<1> DEFINE mapping == get_inv_res_mapping(h)
<1>1. /\ DOMAIN mapping \subseteq Invokes(h)
      /\ \A k \in DOMAIN mapping : /\ mapping[k] \in Responses(h)
                                     /\ Answers(h, mapping[k], k)
      /\ \A k \in Invokes(h), j \in Responses(h) :
           Answers(h, j, k) => k \in DOMAIN mapping /\ mapping[k] = j
      /\ \A j \in Responses(h) : \E k \in DOMAIN mapping : mapping[k] = j
  BY ResponsesArePaired
<1>2. /\ L \in SUBSET (DOMAIN h) /\ s \in SpecStates
      /\ \A k \in DOMAIN mapping : k \in L <=> mapping[k] \in L
  BY DEF Nodes
<1>3. /\ Invokes(h) \subseteq DOMAIN h /\ Responses(h) \subseteq DOMAIN h
      /\ Invokes(h) \cup Responses(h) = DOMAIN h
  BY EventsOfHistory
<1> HIDE DEF mapping
<1>4. ASSUME NEW i \in MinimalOps(h, L)
      PROVE  Answer(h)[<<L \cup Marks(h, i), Effect(s, h[i].task.call)>>]
               <=> Completable(h, L \cup {i}, Effect(s, h[i].task.call))
  <2> DEFINE next == <<L \cup Marks(h, i), Effect(s, h[i].task.call)>>
  <2>1. /\ next \in Nodes(h)
        /\ Invokes(h) \ (L \cup Marks(h, i)) = Invokes(h) \ (L \cup {i})
    BY CallsAreNodes
  <2>2. Answer(h)[next] =
          Completable(h, L \cup Marks(h, i), Effect(s, h[i].task.call))
    BY <2>1 DEF Answer
  <2>3. Completable(h, L \cup Marks(h, i), Effect(s, h[i].task.call))
          <=> Completable(h, L \cup {i}, Effect(s, h[i].task.call))
    BY <2>1 DEF Completable
  <2> QED BY <2>2, <2>3
<1>5. ASSUME Completable(h, L, s), L # DOMAIN h
      PROVE  \E i \in MinimalOps(h, L) :
               /\ Answered(h, i) => Result(s, h[i].task.call) = h[i].task.ret
               /\ Completable(h, L \cup {i}, Effect(s, h[i].task.call))
  <2>1. Invokes(h) \ L # {}
    <3>1. PICK p \in DOMAIN h : p \notin L BY <1>2, <1>5
    <3>2. CASE p \in Invokes(h) BY <3>1, <3>2
    <3>3. CASE p \in Responses(h) BY <1>1, <1>2, <3>1, <3>3
    <3> QED BY <1>3, <3>1, <3>2, <3>3
  <2>2. PICK i \in Invokes(h) \ L :
          /\ \A o \in Invokes(h) \ L : ~Precedes(h, o, i)
          /\ ~Fails(h, L, s, i)
    BY <1>2, <1>5, <2>1, FirstOfCompletion
  <2>3. ASSUME NEW j \in Responses(h), j < i PROVE j \in L
    <3>1. PICK o \in DOMAIN mapping : mapping[o] = j BY <1>1
    <3>2. o \in Invokes(h) /\ Precedes(h, o, i)
      BY <1>1, <2>3, <3>1 DEF Precedes
    <3>3. o \in L BY <2>2, <3>2
    <3> QED BY <1>2, <3>1, <3>3
  <2>4. i \in MinimalOps(h, L) BY <2>2, <2>3 DEF MinimalOps
  <2> QED BY <2>2, <2>4 DEF Fails
<1>6. ASSUME NEW i \in MinimalOps(h, L),
             Answered(h, i) => Result(s, h[i].task.call) = h[i].task.ret,
             Completable(h, L \cup {i}, Effect(s, h[i].task.call))
      PROVE  Completable(h, L, s)
  <2>1. i \in Invokes(h) \ L /\ \A j \in Responses(h) : j < i => j \in L
    BY DEF MinimalOps
  <2>2. ASSUME NEW o \in Invokes(h) \ L, Precedes(h, o, i) PROVE FALSE
    <3>1. PICK j \in Responses(h) : Answers(h, j, o) /\ j < i
      BY <2>2 DEF Precedes
    <3>2. o \in DOMAIN mapping /\ mapping[o] = j BY <1>1, <3>1
    <3> QED BY <1>2, <2>1, <3>1, <3>2
  <2>3. ~Fails(h, L, s, i) BY <1>6 DEF Fails
  <2> QED BY <1>2, <2>1, <2>2, <2>3, CompletionPrepends
<1>7. L = DOMAIN h => Completable(h, L, s) BY <1>2, <1>3, NothingRemains
<1>8. Completable(h, L, s) <=>
        \/ L = DOMAIN h
        \/ \E i \in MinimalOps(h, L) :
             /\ Answered(h, i) => Result(s, h[i].task.call) = h[i].task.ret
             /\ Completable(h, L \cup {i}, Effect(s, h[i].task.call))
  BY <1>5, <1>6, <1>7
<1> QED BY <1>4, <1>8, StepCases

(* There is no other solution: a node on which one differs, with as few    *)
(* entries left as possible, would differ on one of the calls it makes.    *)
LEMMA SolutionIsUnique ==
  ASSUME NEW h \in Seq(Event), WellFormed(h), NEW f,
         f = [node \in Nodes(h) |-> RecursiveStep(h, f, node[1], node[2])]
  PROVE  f = Answer(h)
<1> DEFINE D == DOMAIN h
           Differs(T) == \E s \in SpecStates :
                           /\ <<D \ T, s>> \in Nodes(h)
                           /\ ~(f[<<D \ T, s>>] <=> Answer(h)[<<D \ T, s>>])
           Bad == {T \in SUBSET D : Differs(T)}
<1>1. \A L, s : <<L, s>> \in Nodes(h) =>
        /\ f[<<L, s>>] = RecursiveStep(h, f, L, s)
        /\ Answer(h)[<<L, s>>] = Completable(h, L, s)
        /\ L \in SUBSET D /\ s \in SpecStates
  BY DEF Answer, Nodes
<1>2. Bad = {}
  <2> SUFFICES ASSUME Bad # {} PROVE FALSE OBVIOUS
  <2>1. IsWellFoundedOn(StrictSubsetOrdering(D), FiniteSubsetsOf(D))
    BY FS_StrictSubsetOrderingWellFounded
  <2>2. Bad \subseteq FiniteSubsetsOf(D)
    <3>1. IsFiniteSet(D) BY EventsOfHistory
    <3>2. \A T \in SUBSET D : IsFiniteSet(T) BY <3>1, FS_Subset
    <3> QED BY <3>2 DEF FiniteSubsetsOf
  <2>3. PICK T \in Bad : \A U \in Bad : <<U, T>> \notin StrictSubsetOrdering(D)
    <3> HIDE DEF Bad
    <3> QED BY <2>1, <2>2, WFMin
  <2>4. PICK s \in SpecStates :
          /\ <<D \ T, s>> \in Nodes(h)
          /\ ~(f[<<D \ T, s>>] <=> Answer(h)[<<D \ T, s>>])
    BY <2>3
  <2> DEFINE L == D \ T
  <2>5. ASSUME NEW i \in MinimalOps(h, L)
        PROVE  f[<<L \cup Marks(h, i), Effect(s, h[i].task.call)>>]
                 <=> Answer(h)[<<L \cup Marks(h, i), Effect(s, h[i].task.call)>>]
    <3> DEFINE M == L \cup Marks(h, i)
               t == Effect(s, h[i].task.call)
    <3>1. <<M, t>> \in Nodes(h) /\ i \in D /\ i \notin L
      BY <2>4, CallsAreNodes
    <3>2. M \in SUBSET D /\ t \in SpecStates BY <1>1, <3>1
    <3>3. D \ (D \ M) = M BY <3>2
    <3>4. i \in M BY DEF Marks
    <3>5. <<D \ M, T>> \in StrictSubsetOrdering(D)
      <4> HIDE DEF M
      <4>1. T \in SUBSET D /\ L \subseteq M BY DEF M
      <4>2. D \ M \subseteq T BY <4>1
      <4>3. i \in T /\ i \notin D \ M BY <3>1, <3>4
      <4> QED BY <4>1, <4>2, <4>3 DEF StrictSubsetOrdering
    <3>6. D \ M \notin Bad BY <2>3, <3>5
    <3> HIDE DEF M, t, Answer
    <3>7. ~Differs(D \ M) BY <3>6
    <3> QED BY <3>1, <3>2, <3>3, <3>7 DEF M, t
  <2>6. RecursiveStep(h, f, L, s) <=> RecursiveStep(h, Answer(h), L, s)
    <3> DEFINE next(i) == <<L \cup Marks(h, i), Effect(s, h[i].task.call)>>
               fits(i) == Answered(h, i) =>
                            Result(s, h[i].task.call) = h[i].task.ret
               a == Answer(h)
    <3>1. \A step : RecursiveStep(h, step, L, s) <=>
            \/ L = DOMAIN h
            \/ \E i \in MinimalOps(h, L) : fits(i) /\ step[next(i)]
      BY StepCases
    <3>2. \A i \in MinimalOps(h, L) : f[next(i)] <=> a[next(i)] BY <2>5
    <3> HIDE DEF next, fits, a, L
    <3>3. RecursiveStep(h, f, L, s) <=> RecursiveStep(h, a, L, s)
      BY <3>1, <3>2
    <3> QED BY <3>3 DEF a
  <2>7. Completable(h, L, s) <=> RecursiveStep(h, Answer(h), L, s)
    BY <2>4, AnswerIsSolution
  <2> QED BY <1>1, <2>4, <2>6, <2>7
<1>3. ASSUME NEW node \in Nodes(h) PROVE f[node] = Answer(h)[node]
  <2> DEFINE L == node[1]
             s == node[2]
  <2>1. node = <<L, s>> /\ L \in SUBSET D /\ s \in SpecStates BY DEF Nodes
  <2>2. D \ (D \ L) = L BY <2>1
  <2>3. f[node] <=> Answer(h)[node]
    <3>1. D \ L \in SUBSET D /\ D \ L \notin Bad BY <1>2
    <3> HIDE DEF L, s
    <3>2. ~Differs(D \ L) BY <3>1
    <3> QED BY <2>1, <2>2, <3>2
  <2>4. f[node] \in BOOLEAN BY <2>1 DEF RecursiveStep
  <2>5. Answer(h)[node] \in BOOLEAN BY DEF Answer, Completable
  <2> QED BY <2>3, <2>4, <2>5
<1>4. f \in [Nodes(h) -> BOOLEAN]
  <2>1. \A node \in Nodes(h) : RecursiveStep(h, f, node[1], node[2]) \in BOOLEAN
    BY DEF RecursiveStep
  <2> QED BY <2>1
<1>5. Answer(h) \in [Nodes(h) -> BOOLEAN] BY DEF Answer, Completable
<1> QED BY <1>3, <1>4, <1>5

(* What CheckRecursive returns. *)
LEMMA CheckRecursiveMeaning ==
  ASSUME NEW h \in Seq(Event), WellFormed(h)
  PROVE  CheckRecursive(h) <=> Completable(h, {}, first_state)
<1> DEFINE f == CHOOSE g : g = [node \in Nodes(h) |->
                                  RecursiveStep(h, g, node[1], node[2])]
<1>1. Answer(h) = [node \in Nodes(h) |->
                     RecursiveStep(h, Answer(h), node[1], node[2])]
  <2>1. ASSUME NEW node \in Nodes(h)
        PROVE  Answer(h)[node] = RecursiveStep(h, Answer(h), node[1], node[2])
    <3>1. node = <<node[1], node[2]>> BY DEF Nodes
    <3>2. Completable(h, node[1], node[2])
            <=> RecursiveStep(h, Answer(h), node[1], node[2])
      BY <3>1, AnswerIsSolution
    <3>3. Completable(h, node[1], node[2]) \in BOOLEAN
          /\ RecursiveStep(h, Answer(h), node[1], node[2]) \in BOOLEAN
      BY DEF Completable, RecursiveStep
    <3>4. Answer(h)[node] = Completable(h, node[1], node[2]) BY DEF Answer
    <3> QED BY <3>2, <3>3, <3>4
  <2>2. Answer(h) = [node \in Nodes(h) |-> Answer(h)[node]] BY DEF Answer
  <2> QED BY <2>1, <2>2
<1>2. f = [node \in Nodes(h) |-> RecursiveStep(h, f, node[1], node[2])]
  BY <1>1
<1>3. f = Answer(h)
  <2> HIDE DEF f
  <2> QED BY <1>2, SolutionIsUnique
<1>4. <<{}, first_state>> \in Nodes(h)
  <2>1. \A i \in DOMAIN get_inv_res_mapping(h) :
          i \in {} <=> get_inv_res_mapping(h)[i] \in {}
    OBVIOUS
  <2> QED BY <2>1, SpecAssumption DEF Nodes
<1>5. Answer(h)[<<{}, first_state>>] = Completable(h, {}, first_state)
  BY <1>4 DEF Answer
<1>6. CheckRecursive(h) <=> h = << >> \/ f[<<{}, first_state>>]
  BY DEF CheckRecursive
<1>7. h = << >> => Completable(h, {}, first_state)
  <2>1. h = << >> => Invokes(h) = {} BY DEF Invokes
  <2> QED BY <2>1, NothingRemains, SpecAssumption
<1> HIDE DEF f
<1> QED BY <1>3, <1>5, <1>6, <1>7

(* The recursive checker decides linearizability: for every well-formed    *)
(* history and every specification it returns true exactly if the history  *)
(* is linearizable in the sense of Herlihy and Wing.                       *)
THEOREM RecursiveIsExact ==
  ASSUME NEW h \in Seq(Event), WellFormed(h)
  PROVE  CheckRecursive(h) <=> Linearizable(h)
<1>1. Invokes(h) \ {} = Invokes(h) OBVIOUS
<1>2. Completable(h, {}, first_state) <=> Linearizes(h, Invokes(h))
  BY <1>1 DEF Linearizes, Legal, Completable
<1>3. Linearizes(h, Invokes(h)) => Linearizable(h) BY DEF Linearizable
<1>4. Linearizable(h) => Linearizes(h, Invokes(h)) BY PendingCanBeLinearized
<1> QED BY <1>2, <1>3, <1>4, CheckRecursiveMeaning
=============================================================================
