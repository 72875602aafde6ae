------------------------ MODULE LinearizabilityProofs ------------------------
(***************************************************************************)
(* Facts about histories and their linearizations that the proofs about    *)
(* both checkers rest on: how the responses pair with the invokes, what    *)
(* the first operation of a linearization is, and that pending operations  *)
(* can always be linearized.                                               *)
(***************************************************************************)
EXTENDS Linearizability, Integers, FiniteSetTheorems, FunctionTheorems,
        WellFoundedInduction, TLAPS

(* The operations of h that are not in `done` can be executed, in an order *)
(* that respects real time, from state s on.                               *)
Completable(h, done, s) ==
  \E order \in Orders(Invokes(h) \ done) :
    /\ RespectsRealTime(h, order)
    /\ \E states \in [1..(Cardinality(Invokes(h) \ done) + 1) -> SpecStates] :
         /\ states[1] = s
         /\ \A k \in DOMAIN order :
              /\ states[k + 1] = Effect(states[k], h[order[k]].task.call)
              /\ Answered(h, order[k]) =>
                   Result(states[k], h[order[k]].task.call) = h[order[k]].task.ret

(* Trying the operation invoked at i in state s, after those of `done`,    *)
(* leads nowhere: its result is another one, or what remains cannot be     *)
(* completed.                                                              *)
Fails(h, done, s, i) ==
  \/ Answered(h, i) /\ Result(s, h[i].task.call) # h[i].task.ret
  \/ ~Completable(h, done \cup {i}, Effect(s, h[i].task.call))

-----------------------------------------------------------------------------
(* The positions of a sequence are as many as its length says. *)
LEMMA IntervalSize ==
  ASSUME NEW n \in Nat
  PROVE  IsFiniteSet(1..n) /\ Cardinality(1..n) = n
<1>1. 1 \in Int /\ n \in Int OBVIOUS
<1>2. /\ IsFiniteSet(1..n)
      /\ Cardinality(1..n) = IF 1 > n THEN 0 ELSE n - 1 + 1
  BY <1>1, FS_Interval
<1> QED BY <1>2

(* The mapping of get_inv_res_mapping pairs the answered invokes with the  *)
(* responses, one to one.                                                  *)
LEMMA ResponsesArePaired ==
  ASSUME NEW h \in Seq(Event), WellFormed(h), NEW inv_res,
         inv_res = get_inv_res_mapping(h)
  PROVE  /\ DOMAIN inv_res \subseteq Invokes(h)
         /\ \A i \in DOMAIN inv_res :
              /\ inv_res[i] \in Responses(h)
              /\ Answers(h, inv_res[i], i)
         /\ \A i \in Invokes(h), j \in Responses(h) :
              Answers(h, j, i) => i \in DOMAIN inv_res /\ inv_res[i] = j
         /\ \A j \in Responses(h) :
              \E i \in DOMAIN inv_res : inv_res[i] = j
         /\ \A i, k \in DOMAIN inv_res : inv_res[i] = inv_res[k] => i = k
<1> DEFINE D == {k \in Invokes(h) :
                  \E j \in Responses(h) : Answers(h, j, k)}
<1>1. DOMAIN inv_res = D
  BY DEF get_inv_res_mapping
<1>2. ASSUME NEW i \in D
      PROVE  inv_res[i] \in Responses(h) /\ Answers(h, inv_res[i], i)
  <2>1. \E j \in Responses(h) : Answers(h, j, i)
    OBVIOUS
  <2>2. inv_res[i] = CHOOSE j \in Responses(h) : Answers(h, j, i)
    BY DEF get_inv_res_mapping
  <2> QED BY <2>1, <2>2
<1>3. ASSUME NEW i \in Invokes(h), NEW j \in Responses(h),
             Answers(h, j, i)
      PROVE  i \in D /\ inv_res[i] = j
  <2>1. i \in D
    BY <1>3
  <2>2. h[inv_res[i]].task.id = h[j].task.id
    BY <1>2, <1>3, <2>1 DEF Answers
  <2> QED BY <1>2, <2>1, <2>2 DEF WellFormed
<1>4. ASSUME NEW j \in Responses(h)
      PROVE  \E i \in D : inv_res[i] = j
  BY <1>3 DEF WellFormed
<1>5. ASSUME NEW i \in D, NEW k \in D, inv_res[i] = inv_res[k]
      PROVE  i = k
  <2>1. h[i].task.id = h[k].task.id
    BY <1>2, <1>5 DEF Answers
  <2> QED BY <2>1 DEF WellFormed
<1> QED BY <1>1, <1>2, <1>3, <1>4, <1>5

(* Invokes and responses are the positions of the h, and no position *)
(* is both.                                                                *)
LEMMA EventsOfHistory ==
  ASSUME NEW h \in Seq(Event)
  PROVE  /\ DOMAIN h = 1..Len(h)
         /\ Len(h) \in Nat
         /\ Invokes(h) \subseteq DOMAIN h
         /\ Responses(h) \subseteq DOMAIN h
         /\ Invokes(h) \cup Responses(h) = DOMAIN h
         /\ Invokes(h) \cap Responses(h) = {}
         /\ IsFiniteSet(DOMAIN h)
         /\ Cardinality(DOMAIN h) = Len(h)
<1>2. DOMAIN h = 1..Len(h) /\ Len(h) \in Nat OBVIOUS
<1>3. \A p \in DOMAIN h : h[p].type \in {"invoke", "response"}
  <2>1. \A p \in DOMAIN h : h[p] \in Event BY <1>2
  <2> QED BY <2>1 DEF Event
<1>4. IsFiniteSet(1..Len(h)) /\ Cardinality(1..Len(h)) = Len(h)
  BY <1>2, IntervalSize
<1> QED BY <1>2, <1>3, <1>4 DEF Invokes, Responses

(* An order of a finite set of operations contains each of them. *)
LEMMA OrderIsOnto ==
  ASSUME NEW R, IsFiniteSet(R), NEW order \in Orders(R)
  PROVE  /\ Cardinality(R) \in Nat
         /\ \A o \in R : \E m \in 1..Cardinality(R) : order[m] = o
<1> DEFINE c == Cardinality(R)
<1>1. c \in Nat BY FS_CardinalityType
<1>2. IsFiniteSet(1..c) /\ Cardinality(1..c) = c BY <1>1, IntervalSize
<1>3. order \in [1..c -> R] /\ \A k, m \in 1..c : order[k] = order[m] => k = m
  BY DEF Orders
<1> HIDE DEF c
<1>4. order \in Injection(1..c, R) BY <1>3 DEF Injection, IsInjective
<1>5. Cardinality(1..c) = Cardinality(R) BY <1>2 DEF c
<1>6. order \in Surjection(1..c, R) BY <1>2, <1>4, <1>5, FS_Injection
<1>7. \A o \in R : \E m \in 1..c : order[m] = o BY <1>6 DEF Surjection
<1> QED BY <1>1, <1>7 DEF c

(* The first operation of a completion: no remaining operation returned    *)
(* before it, its result is the one that was returned, and what remains    *)
(* after it can be completed.                                              *)
LEMMA FirstOfCompletion ==
  ASSUME NEW h \in Seq(Event), NEW done, NEW s \in SpecStates,
         Completable(h, done, s), Invokes(h) \ done # {}
  PROVE  \E i \in Invokes(h) \ done :
           /\ \A o \in Invokes(h) \ done : ~Precedes(h, o, i)
           /\ ~Fails(h, done, s, i)
<1> DEFINE R == Invokes(h) \ done
           c == Cardinality(R)
<1>1. IsFiniteSet(R)
  <2>1. R \in SUBSET (DOMAIN h) BY EventsOfHistory
  <2> QED BY <2>1, EventsOfHistory, FS_Subset
<1>2. PICK order \in Orders(R) :
        /\ RespectsRealTime(h, order)
        /\ \E states \in [1..(c + 1) -> SpecStates] :
             /\ states[1] = s
             /\ \A k \in DOMAIN order :
                  /\ states[k + 1] = Effect(states[k], h[order[k]].task.call)
                  /\ Answered(h, order[k]) =>
                       Result(states[k], h[order[k]].task.call)
                         = h[order[k]].task.ret
  BY DEF Completable
<1>3. PICK states \in [1..(c + 1) -> SpecStates] :
        /\ states[1] = s
        /\ \A k \in DOMAIN order :
             /\ states[k + 1] = Effect(states[k], h[order[k]].task.call)
             /\ Answered(h, order[k]) =>
                  Result(states[k], h[order[k]].task.call)
                    = h[order[k]].task.ret
  BY <1>2
<1>4. c \in Nat /\ c # 0
  BY <1>1, FS_CardinalityType, FS_EmptySet
<1>5. /\ order \in [1..c -> R] /\ DOMAIN order = 1..c
      /\ \A k, m \in 1..c : order[k] = order[m] => k = m
  BY DEF Orders
<1>6. \A o \in R : \E m \in 1..c : order[m] = o
  BY <1>1, OrderIsOnto
<1> DEFINE i == order[1]
           call == h[i].task.call
           t == Effect(s, call)
           rest == Invokes(h) \ (done \cup {i})
           order2 == [k \in 1..(c - 1) |-> order[k + 1]]
           states2 == [k \in 1..c |-> states[k + 1]]
<1>11. 1 \in 1..c BY <1>4
<1>7. i \in R BY <1>5, <1>11
<1>8. rest = R \ {i} OBVIOUS
<1>9. IsFiniteSet(rest) /\ Cardinality(rest) = c - 1
  BY <1>1, <1>4, <1>7, <1>8, FS_RemoveElement
<1>10. \A k \in 1..(c - 1) : k + 1 \in 1..c /\ k \in 1..c BY <1>4
<1> HIDE DEF c
<1>12. order2 \in Orders(rest)
  <2>1. ASSUME NEW k \in 1..(c - 1) PROVE order2[k] \in rest
    <3>1. k + 1 \in 1..c /\ k + 1 # 1 BY <1>4, <1>10
    <3>2. order[k + 1] \in R /\ order[k + 1] # order[1]
      BY <1>5, <1>11, <3>1
    <3> QED BY <1>8, <3>2
  <2>2. ASSUME NEW k \in 1..(c - 1), NEW m \in 1..(c - 1), order2[k] = order2[m]
        PROVE  k = m
    <3>1. order[k + 1] = order[m + 1] BY <2>2
    <3>2. k + 1 = m + 1 BY <1>5, <1>10, <3>1
    <3> QED BY <1>4, <3>2
  <2>3. order2 \in [1..(c - 1) -> rest] BY <2>1
  <2> HIDE DEF order2, rest
  <2> QED BY <1>9, <2>2, <2>3 DEF Orders
<1>13. RespectsRealTime(h, order2)
  <2>1. ASSUME NEW k \in 1..(c - 1), NEW m \in 1..(c - 1), k < m
        PROVE  ~Precedes(h, order2[m], order2[k])
    <3>1. k + 1 \in 1..c /\ m + 1 \in 1..c /\ k + 1 < m + 1
      BY <1>4, <1>10, <2>1
    <3>2. ~Precedes(h, order[m + 1], order[k + 1])
      BY <1>2, <1>5, <3>1 DEF RespectsRealTime
    <3> QED BY <3>2
  <2>2. DOMAIN order2 = 1..(c - 1) OBVIOUS
  <2> HIDE DEF order2
  <2> QED BY <2>1, <2>2 DEF RespectsRealTime
<1>14. states2 \in [1..(Cardinality(rest) + 1) -> SpecStates]
  <2>1. \A k \in 1..c : k + 1 \in 1..(c + 1) BY <1>4
  <2>2. states2 \in [1..c -> SpecStates] BY <1>3, <2>1
  <2>3. Cardinality(rest) + 1 = c BY <1>4, <1>9
  <2> QED BY <2>2, <2>3
<1>15. states2[1] = t
  <2>1. states2[1] = states[2] BY <1>11
  <2>2. states[1 + 1] = Effect(states[1], h[order[1]].task.call)
    BY <1>3, <1>5, <1>11
  <2> QED BY <1>3, <2>1, <2>2
<1>16. ASSUME NEW k \in 1..(c - 1)
       PROVE  /\ states2[k + 1] = Effect(states2[k], h[order2[k]].task.call)
              /\ Answered(h, order2[k]) =>
                   Result(states2[k], h[order2[k]].task.call)
                     = h[order2[k]].task.ret
  <2>1. k + 1 \in 1..c /\ k \in 1..c BY <1>10
  <2>2. states2[k + 1] = states[k + 1 + 1] /\ states2[k] = states[k + 1]
        /\ order2[k] = order[k + 1]
    BY <2>1
  <2>3. /\ states[k + 1 + 1] = Effect(states[k + 1], h[order[k + 1]].task.call)
        /\ Answered(h, order[k + 1]) =>
             Result(states[k + 1], h[order[k + 1]].task.call)
               = h[order[k + 1]].task.ret
    BY <1>3, <1>5, <2>1
  <2> QED BY <2>2, <2>3
<1>17. Completable(h, done \cup {i}, t)
  <2>1. DOMAIN order2 = 1..(c - 1) OBVIOUS
  <2> HIDE DEF order2, states2, t, i
  <2> QED BY <1>12, <1>13, <1>14, <1>15, <1>16, <2>1 DEF Completable
<1>18. Answered(h, i) => Result(s, call) = h[i].task.ret
  BY <1>3, <1>5, <1>11
<1>19. ASSUME NEW o \in R PROVE ~Precedes(h, o, i)
  <2>1. PICK m \in 1..c : order[m] = o BY <1>6
  <2>2. CASE m = 1
    <3>1. o = i BY <2>1, <2>2
    <3>2. DOMAIN h \subseteq Nat
      <4>1. DOMAIN h = 1..Len(h) /\ Len(h) \in Nat OBVIOUS
      <4> QED BY <4>1
    <3>3. i \in Nat /\ \A j \in Responses(h) : j \in Nat
      BY <1>7, <3>2 DEF Invokes, Responses
    <3>4. \A j \in Responses(h) : ~(i < j /\ j < i) BY <3>3
    <3> QED BY <3>1, <3>4 DEF Precedes, Answers
  <2>3. CASE m # 1
    <3>1. 1 < m BY <1>4, <2>3
    <3>2. ~Precedes(h, order[m], order[1])
      BY <1>2, <1>5, <1>11, <3>1 DEF RespectsRealTime
    <3> QED BY <2>1, <3>2
  <2> QED BY <2>2, <2>3
<1> QED BY <1>7, <1>17, <1>18, <1>19 DEF Fails

(* A history has finitely many operations. *)
LEMMA InvokesAreFinite ==
  ASSUME NEW h \in Seq(Event)
  PROVE  IsFiniteSet(Invokes(h))
<1>1. Invokes(h) \in SUBSET (1..Len(h)) /\ Len(h) \in Nat BY DEF Invokes
<1> QED BY <1>1, IntervalSize, FS_Subset

(* Nothing remains to be done. *)
LEMMA NothingRemains ==
  ASSUME NEW h, NEW done, NEW s \in SpecStates, Invokes(h) \subseteq done
  PROVE  Completable(h, done, s)
<1> DEFINE R == Invokes(h) \ done
           order == [k \in 1..0 |-> k]
           states == [k \in 1..1 |-> s]
<1>1. R = {} /\ Cardinality(R) = 0 BY FS_EmptySet
<1>2. 1..0 = {} /\ 0 + 1 = 1 OBVIOUS
<1>3. order \in Orders(R) BY <1>1, <1>2 DEF Orders
<1>4. RespectsRealTime(h, order) BY <1>2 DEF RespectsRealTime
<1>5. states \in [1..(Cardinality(R) + 1) -> SpecStates] /\ states[1] = s
  BY <1>1, <1>2
<1>6. \A k \in DOMAIN order : FALSE BY <1>2
<1> HIDE DEF order, states
<1> QED BY <1>3, <1>4, <1>5, <1>6 DEF Completable

(* The converse of FirstOfCompletion: an operation that no remaining one   *)
(* precedes and that does not fail begins a completion.                    *)
LEMMA CompletionPrepends ==
  ASSUME NEW h \in Seq(Event), NEW done, NEW s \in SpecStates,
         NEW i \in Invokes(h) \ done,
         \A o \in Invokes(h) \ done : ~Precedes(h, o, i),
         ~Fails(h, done, s, i)
  PROVE  Completable(h, done, s)
<1> DEFINE R == Invokes(h) \ done
           rest == Invokes(h) \ (done \cup {i})
           c == Cardinality(rest)
           call == h[i].task.call
<1>1. IsFiniteSet(R) BY InvokesAreFinite, FS_Subset
<1>2. rest = R \ {i} OBVIOUS
<1>3. IsFiniteSet(rest) /\ c \in Nat /\ Cardinality(R) = c + 1
  <2>1. IsFiniteSet(rest) BY <1>1, <1>2, FS_RemoveElement
  <2>2. c \in Nat BY <2>1, FS_CardinalityType
  <2>3. R = rest \cup {i} /\ i \notin rest BY <1>2
  <2>4. Cardinality(R) = c + 1 BY <2>1, <2>3, FS_AddElement
  <2> QED BY <2>1, <2>2, <2>4
<1>4. PICK order \in Orders(rest) :
        /\ RespectsRealTime(h, order)
        /\ \E states \in [1..(c + 1) -> SpecStates] :
             /\ states[1] = Effect(s, call)
             /\ \A k \in DOMAIN order :
                  /\ states[k + 1] = Effect(states[k], h[order[k]].task.call)
                  /\ Answered(h, order[k]) =>
                       Result(states[k], h[order[k]].task.call) = h[order[k]].task.ret
  BY DEF Fails, Completable
<1>5. PICK states \in [1..(c + 1) -> SpecStates] :
        /\ states[1] = Effect(s, call)
        /\ \A k \in DOMAIN order :
             /\ states[k + 1] = Effect(states[k], h[order[k]].task.call)
             /\ Answered(h, order[k]) =>
                  Result(states[k], h[order[k]].task.call) = h[order[k]].task.ret
  BY <1>4
<1>6. /\ order \in [1..c -> rest] /\ DOMAIN order = 1..c
      /\ \A k, m \in 1..c : order[k] = order[m] => k = m
  BY DEF Orders
<1> HIDE DEF c
<1> DEFINE order2 == [k \in 1..(c + 1) |-> IF k = 1 THEN i ELSE order[k - 1]]
           states2 == [k \in 1..(c + 2) |-> IF k = 1 THEN s ELSE states[k - 1]]
<1>7. /\ \A k \in 1..(c + 1) : k = 1 \/ k - 1 \in 1..c
      /\ \A k \in 1..(c + 2) : k = 1 \/ k - 1 \in 1..(c + 1)
      /\ 1 \in 1..(c + 1) /\ 1 \in 1..(c + 2)
  BY <1>3
<1>8. /\ order2[1] = i /\ states2[1] = s
      /\ \A k \in 1..(c + 1) : k # 1 => order2[k] = order[k - 1]
      /\ \A k \in 1..(c + 2) : k # 1 => states2[k] = states[k - 1]
  BY <1>7
<1>9. DOMAIN order2 = 1..(c + 1) OBVIOUS
<1>10. order2 \in Orders(R)
  <2>1. order2 \in [1..(c + 1) -> R] BY <1>2, <1>6, <1>7
  <2>2. ASSUME NEW k \in 1..(c + 1), NEW m \in 1..(c + 1), order2[k] = order2[m]
        PROVE  k = m
    <3>1. CASE k = 1 /\ m = 1 BY <3>1
    <3>2. CASE k = 1 /\ m # 1 BY <1>2, <1>6, <1>7, <1>8, <2>2, <3>2
    <3>3. CASE k # 1 /\ m = 1 BY <1>2, <1>6, <1>7, <1>8, <2>2, <3>3
    <3>4. CASE k # 1 /\ m # 1
      <4>1. k - 1 = m - 1 BY <1>6, <1>7, <1>8, <2>2, <3>4
      <4> QED BY <1>3, <4>1
    <3> QED BY <3>1, <3>2, <3>3, <3>4
  <2> HIDE DEF order2, R
  <2> QED BY <1>3, <2>1, <2>2 DEF Orders
<1>11. states2 \in [1..(Cardinality(R) + 1) -> SpecStates]
  <2>1. states2 \in [1..(c + 2) -> SpecStates] BY <1>7
  <2>2. Cardinality(R) + 1 = c + 2 BY <1>3
  <2> QED BY <2>1, <2>2
<1> HIDE DEF order2, states2
<1>12. RespectsRealTime(h, order2)
  <2>1. ASSUME NEW k \in 1..(c + 1), NEW m \in 1..(c + 1), k < m
        PROVE  ~Precedes(h, order2[m], order2[k])
    <3>1. m # 1 /\ m - 1 \in 1..c /\ order2[m] = order[m - 1]
      BY <1>3, <1>7, <1>8, <2>1
    <3>2. CASE k = 1
      <4>1. order[m - 1] \in R BY <1>2, <1>6, <3>1
      <4> QED BY <1>8, <3>1, <3>2, <4>1
    <3>3. CASE k # 1
      <4>1. k - 1 \in 1..c /\ k - 1 < m - 1 /\ order2[k] = order[k - 1]
        BY <1>3, <1>7, <1>8, <2>1, <3>3
      <4> QED BY <1>4, <1>6, <3>1, <4>1 DEF RespectsRealTime
    <3> QED BY <3>2, <3>3
  <2> QED BY <1>9, <2>1 DEF RespectsRealTime
<1>13. ASSUME NEW k \in 1..(c + 1)
       PROVE  /\ states2[k + 1] = Effect(states2[k], h[order2[k]].task.call)
              /\ Answered(h, order2[k]) =>
                   Result(states2[k], h[order2[k]].task.call) = h[order2[k]].task.ret
  <2>1. k + 1 \in 1..(c + 2) /\ k + 1 # 1 /\ k + 1 - 1 = k BY <1>3
  <2>2. states2[k + 1] = states[k] BY <1>8, <2>1
  <2>3. CASE k = 1 BY <1>5, <1>8, <2>2, <2>3 DEF Fails
  <2>4. CASE k # 1
    <3>1. /\ k - 1 \in 1..c /\ k - 1 + 1 = k /\ k \in 1..(c + 2)
          /\ order2[k] = order[k - 1]
      BY <1>3, <1>7, <1>8, <2>4
    <3>2. states2[k] = states[k - 1] BY <1>8, <2>4, <3>1
    <3>3. /\ states[k - 1 + 1] = Effect(states[k - 1], h[order[k - 1]].task.call)
          /\ Answered(h, order[k - 1]) =>
               Result(states[k - 1], h[order[k - 1]].task.call)
                 = h[order[k - 1]].task.ret
      BY <1>5, <1>6, <3>1
    <3> QED BY <2>2, <3>1, <3>2, <3>3
  <2> QED BY <2>3, <2>4
<1> QED BY <1>8, <1>9, <1>10, <1>11, <1>12, <1>13 DEF Completable


(* An operation without a response can be placed behind a linearization:   *)
(* it precedes nothing and its result was never seen.                      *)
LEMMA PendingAppends ==
  ASSUME NEW h \in Seq(Event), NEW S \in SUBSET Invokes(h), Linearizes(h, S),
         NEW i \in Invokes(h), i \notin S, ~Answered(h, i)
  PROVE  Linearizes(h, S \cup {i})
<1> DEFINE c == Cardinality(S)
           call == h[i].task.call
<1>1. IsFiniteSet(S) BY InvokesAreFinite, FS_Subset
<1>2. c \in Nat BY <1>1, FS_CardinalityType
<1>3. Cardinality(S \cup {i}) = c + 1 BY <1>1, FS_AddElement
<1>4. PICK order \in Orders(S) :
        /\ RespectsRealTime(h, order)
        /\ \E states \in [1..(c + 1) -> SpecStates] : Legal(h, order, states)
  BY DEF Linearizes
<1>5. PICK states \in [1..(c + 1) -> SpecStates] : Legal(h, order, states)
  BY <1>4
<1>6. /\ order \in [1..c -> S] /\ DOMAIN order = 1..c
      /\ \A k, m \in 1..c : order[k] = order[m] => k = m
  BY DEF Orders
<1>7. \A k \in 1..(c + 1) : k \in 1..c \/ k = c + 1 BY <1>2
<1>8. /\ \A k \in 1..c : k \in 1..(c + 1) /\ k + 1 \in 1..(c + 1) /\ k # c + 1
      /\ c + 1 \in 1..(c + 1) /\ c + 1 \in 1..(c + 2) /\ c + 2 \in 1..(c + 2)
      /\ c + 1 # c + 2
      /\ \A k \in 1..(c + 1) : k \in 1..(c + 2) /\ k # c + 2
  BY <1>2
<1> HIDE DEF c
<1> DEFINE order2 == [k \in 1..(c + 1) |-> IF k = c + 1 THEN i ELSE order[k]]
           states2 == [k \in 1..(c + 2) |->
                         IF k = c + 2 THEN Effect(states[c + 1], call)
                         ELSE states[k]]
<1>9. order2[c + 1] = i /\ \A k \in 1..c : order2[k] = order[k] BY <1>8
<1>10. /\ states2[c + 2] = Effect(states[c + 1], call)
       /\ \A k \in 1..(c + 1) : states2[k] = states[k]
  BY <1>8
<1>11. order2 \in Orders(S \cup {i})
  <2>1. order2 \in [1..(c + 1) -> S \cup {i}] BY <1>6, <1>7
  <2>2. ASSUME NEW k \in 1..(c + 1), NEW m \in 1..(c + 1), order2[k] = order2[m]
        PROVE  k = m
    <3>1. CASE k \in 1..c /\ m \in 1..c BY <1>6, <1>9, <2>2, <3>1
    <3>2. CASE k \in 1..c /\ m = c + 1 BY <1>6, <1>9, <2>2, <3>2
    <3>3. CASE k = c + 1 /\ m \in 1..c BY <1>6, <1>9, <2>2, <3>3
    <3> QED BY <1>7, <3>1, <3>2, <3>3
  <2> HIDE DEF order2
  <2> QED BY <1>3, <2>1, <2>2 DEF Orders
<1>12. DOMAIN order2 = 1..(c + 1) OBVIOUS
<1>13. states2 \in [1..(Cardinality(S \cup {i}) + 1) -> SpecStates]
  <2>1. h[i].task.call \in Calls
    <3>1. h[i] \in Event BY DEF Invokes
    <3> QED BY <3>1 DEF Event, Tasks
  <2>2. states[c + 1] \in SpecStates BY <1>8
  <2>3. Effect(states[c + 1], call) \in SpecStates
    BY <2>1, <2>2, SpecAssumption
  <2>4. \A k \in 1..(c + 2) : k = c + 2 \/ k \in 1..(c + 1) BY <1>2
  <2>5. states2 \in [1..(c + 2) -> SpecStates] BY <2>3, <2>4
  <2>6. Cardinality(S \cup {i}) + 1 = c + 2 BY <1>2, <1>3
  <2> QED BY <2>5, <2>6
<1> HIDE DEF order2, states2
<1>14. RespectsRealTime(h, order2)
  <2>1. ASSUME NEW k \in 1..(c + 1), NEW m \in 1..(c + 1), k < m
        PROVE  ~Precedes(h, order2[m], order2[k])
    <3>1. CASE m = c + 1
      BY <1>9, <3>1 DEF Precedes, Answered
    <3>2. CASE m \in 1..c
      <4>1. k \in 1..c BY <1>2, <2>1, <3>2
      <4> QED BY <1>4, <1>6, <1>9, <2>1, <3>2, <4>1 DEF RespectsRealTime
    <3> QED BY <1>7, <3>1, <3>2
  <2> QED BY <1>12, <2>1 DEF RespectsRealTime
<1>15. Legal(h, order2, states2)
  <2>1. states2[1] = first_state
    <3>1. 1 \in 1..(c + 1) BY <1>2
    <3> QED BY <1>5, <1>10, <3>1 DEF Legal
  <2>2. ASSUME NEW k \in 1..(c + 1)
        PROVE  /\ states2[k + 1] = Effect(states2[k], h[order2[k]].task.call)
               /\ Answered(h, order2[k]) =>
                    Result(states2[k], h[order2[k]].task.call)
                      = h[order2[k]].task.ret
    <3>1. CASE k \in 1..c
      <4>1. /\ states2[k + 1] = states[k + 1] /\ states2[k] = states[k]
            /\ order2[k] = order[k]
        BY <1>8, <1>9, <1>10, <3>1
      <4> QED BY <1>5, <1>6, <3>1, <4>1 DEF Legal
    <3>2. CASE k = c + 1
      <4>1. states2[k + 1] = Effect(states[c + 1], call)
            /\ states2[k] = states[c + 1] /\ order2[k] = i
        <5>1. c + 1 + 1 = c + 2 BY <1>2
        <5> QED BY <1>8, <1>9, <1>10, <3>2, <5>1
      <4> QED BY <4>1
    <3> QED BY <1>7, <3>1, <3>2
  <2> QED BY <1>12, <2>1, <2>2 DEF Legal
<1> QED BY <1>11, <1>13, <1>14, <1>15 DEF Linearizes

(* A linearizable history has a linearization with every pending operation *)
(* in it: take one that leaves out as few as possible.                     *)
LEMMA PendingCanBeLinearized ==
  ASSUME NEW h \in Seq(Event), Linearizable(h)
  PROVE  Linearizes(h, Invokes(h))
<1> DEFINE I == Invokes(h)
           Good(S) == /\ \A i \in I : Answered(h, i) => i \in S
                      /\ Linearizes(h, S)
           Left == {T \in SUBSET I : Good(I \ T)}
<1>1. IsFiniteSet(I) BY InvokesAreFinite
<1>2. Left \subseteq FiniteSubsetsOf(I)
  <2>1. \A T \in SUBSET I : IsFiniteSet(T) BY <1>1, FS_Subset
  <2> QED BY <2>1 DEF FiniteSubsetsOf
<1>3. Left # {}
  <2>1. PICK S \in SUBSET I : Good(S) BY DEF Linearizable
  <2>2. I \ (I \ S) = S OBVIOUS
  <2>3. I \ S \in Left BY <2>1, <2>2
  <2> QED BY <2>3
<1>4. IsWellFoundedOn(StrictSubsetOrdering(I), FiniteSubsetsOf(I))
  BY FS_StrictSubsetOrderingWellFounded
<1>5. PICK T \in Left : \A U \in Left : <<U, T>> \notin StrictSubsetOrdering(I)
  <2> HIDE DEF Left
  <2> QED BY <1>2, <1>3, <1>4, WFMin
<1>6. T = {}
  <2> SUFFICES ASSUME T # {} PROVE FALSE OBVIOUS
  <2>1. PICK i \in T : TRUE OBVIOUS
  <2>2. i \in I /\ i \notin I \ T /\ ~Answered(h, i) BY <2>1
  <2>3. Linearizes(h, (I \ T) \cup {i}) BY <2>2, PendingAppends
  <2>4. (I \ T) \cup {i} = I \ (T \ {i}) BY <2>2
  <2>5. T \ {i} \in Left BY <2>3, <2>4
  <2>6. <<T \ {i}, T>> \in StrictSubsetOrdering(I)
    BY <2>1 DEF StrictSubsetOrdering
  <2> QED BY <1>5, <2>5, <2>6
<1>7. I \ {} = I OBVIOUS
<1> QED BY <1>6, <1>7

(* An order of n operations that respects real time and explains the       *)
(* results shows that the history is linearizable.                         *)
LEMMA LegalOrderLinearizes ==
  ASSUME NEW h, NEW n \in Nat, NEW S \in SUBSET Invokes(h),
         \A i \in Invokes(h) : Answered(h, i) => i \in S,
         NEW order \in [1..n -> S],
         \A k, m \in 1..n : order[k] = order[m] => k = m,
         \A i \in S : \E k \in 1..n : order[k] = i,
         RespectsRealTime(h, order),
         NEW states \in [1..(n + 1) -> SpecStates], Legal(h, order, states)
  PROVE  Linearizable(h)
<1>1. Cardinality(S) = n
  <2>1. order \in Bijection(1..n, S) BY Fun_IsBij
  <2>2. ExistsBijection(1..n, S) BY <2>1 DEF ExistsBijection
  <2> QED BY <2>2, FS_CountingElements
<1>2. order \in Orders(S) BY <1>1 DEF Orders
<1>3. Linearizes(h, S) BY <1>1, <1>2 DEF Linearizes
<1> QED BY <1>3 DEF Linearizable
=============================================================================
