------------------------- MODULE StableVectorProofs --------------------------
(***************************************************************************)
(* Proofs about StableVector for any number of vectors and any sizes: the  *)
(* memory is sound, and the vectors implement sequences whose elements     *)
(* stay in place.                                                          *)
(***************************************************************************)
EXTENDS StableVector, FiniteSetTheorems, SequenceTheorems, NaturalsInduction,
        WellFoundedInduction, TLAPS

(* Induction, on a set. *)
LEMMA SetInduction ==
  ASSUME NEW S, 0 \in S, \A n \in Nat : n \in S => n + 1 \in S
  PROVE  \A n \in Nat : n \in S
<1> SUFFICES ASSUME Nat \ S # {} PROVE FALSE OBVIOUS
<1>1. PICK m \in Nat \ S : \A x \in Nat \ S : <<x, m>> \notin OpToRel(<, Nat)
  BY NatLessThanWellFounded, WFMin
<1>2. m # 0 /\ m - 1 \in Nat /\ m - 1 \notin S
  OBVIOUS
<1>3. m - 1 < m BY <1>2
<1>4. <<m - 1, m>> \in OpToRel(<, Nat) BY <1>2, <1>3 DEF OpToRel
<1> QED BY <1>1, <1>2, <1>4

-----------------------------------------------------------------------------
(* Powers of two: 2^i is the number of subsets of a set of i elements. *)
LEMMA PowerOfZero == 2^0 = 1
OBVIOUS

(* 2^i counts the subsets of 1..i, of which there are finitely many. *)
LEMMA PowerIsSubsets ==
  ASSUME NEW i \in Nat
  PROVE  IsFiniteSet(SUBSET (1..i)) /\ Cardinality(SUBSET (1..i)) = 2^i
<1>1. IsFiniteSet(1..i) /\ Cardinality(1..i) = i BY FS_Interval
<1> QED BY <1>1, FS_SUBSET

(* A power of two is a positive number. *)
LEMMA PowerIsPositive == \A i \in Nat : 2^i \in Nat \ {0}
<1> TAKE i \in Nat
<1>1. SUBSET (1..i) # {} OBVIOUS
<1> QED BY <1>1, PowerIsSubsets, FS_CardinalityType, FS_EmptySet

(* A block has twice the cells of the one before it. *)
LEMMA PowerDoubles == \A i \in Nat : 2^(i + 1) = 2 * 2^i
<1> TAKE i \in Nat
<1> DEFINE A == SUBSET (1..i)
           B == {X \in SUBSET (1..(i + 1)) : i + 1 \in X}
           f == [X \in A |-> X \cup {i + 1}]
<1>1. IsFiniteSet(A) /\ Cardinality(A) = 2^i BY PowerIsSubsets
<1>2. Cardinality(SUBSET (1..(i + 1))) = 2^(i + 1) BY PowerIsSubsets
<1>3. SUBSET (1..(i + 1)) = A \cup B
  <2>1. 1..(i + 1) = (1..i) \cup {i + 1} OBVIOUS
  <2> QED BY <2>1
<1>4. A \cap B = {} OBVIOUS
<1>5. f \in Bijection(A, B)
  <2>1. 1..(i + 1) = (1..i) \cup {i + 1} /\ i + 1 \notin 1..i OBVIOUS
  <2>2. \A X \in A : f[X] \in B BY <2>1
  <2>3. f \in [A -> B] BY <2>2
  <2>4. \A X, Y \in A : f[X] = f[Y] => X = Y
    <3> TAKE X, Y \in A
    <3>1. f[X] = X \cup {i + 1} /\ f[Y] = Y \cup {i + 1} OBVIOUS
    <3>2. i + 1 \notin X /\ i + 1 \notin Y BY <2>1
    <3>3. X = (X \cup {i + 1}) \ {i + 1} /\ Y = (Y \cup {i + 1}) \ {i + 1}
      BY <3>2, Zenon
    <3> HIDE DEF f, A
    <3> QED BY <3>1, <3>3, Zenon
  <2>5. \A Y \in B : \E X \in A : f[X] = Y
    <3> TAKE Y \in B
    <3>1. Y \ {i + 1} \in A BY <2>1
    <3>2. f[Y \ {i + 1}] = (Y \ {i + 1}) \cup {i + 1} BY <3>1
    <3>3. (Y \ {i + 1}) \cup {i + 1} = Y OBVIOUS
    <3> QED BY <3>1, <3>2, <3>3
  <2> HIDE DEF f, A, B
  <2>6. f \in Injection(A, B) BY <2>3, <2>4 DEF Injection, IsInjective
  <2>7. f \in Surjection(A, B) BY <2>3, <2>5 DEF Surjection
  <2> QED BY <2>6, <2>7 DEF Bijection
<1>6. IsFiniteSet(B) /\ Cardinality(B) = Cardinality(A)
  <2> HIDE DEF f, A, B
  <2>1. ExistsBijection(A, B) BY <1>5 DEF ExistsBijection
  <2> QED BY <1>1, <2>1, FS_Bijection
<1>7. Cardinality(A \cup B) = Cardinality(A) + Cardinality(B) - Cardinality({})
  <2> HIDE DEF A, B
  <2> QED BY <1>1, <1>4, <1>6, FS_Union
<1>8. 2^i \in Nat /\ Cardinality({}) = 0 BY PowerIsPositive, FS_EmptySet
<1>9. Cardinality(A \cup B) = 2^(i + 1) BY <1>2, <1>3
<1> HIDE DEF A, B
<1> QED BY <1>1, <1>6, <1>7, <1>8, <1>9

(* Powers of two grow with their exponent. *)
LEMMA PowerGrows == \A i, j \in Nat : i < j => 2^(i + 1) <= 2^j
<1> TAKE i \in Nat
<1> DEFINE S == {j \in Nat : i < j => 2^(i + 1) <= 2^j}
<1>1. 0 \in S OBVIOUS
<1>2. \A n \in Nat : n \in S => n + 1 \in S
  <2> TAKE n \in Nat
  <2> HAVE n \in S
  <2>1. 2^n \in Nat /\ 2^(n + 1) = 2 * 2^n /\ 2^(i + 1) \in Nat
    BY PowerIsPositive, PowerDoubles
  <2>2. CASE i < n BY <2>1, <2>2
  <2>3. CASE i = n BY <2>1, <2>3
  <2>4. CASE i > n BY <2>4
  <2> QED BY <2>2, <2>3, <2>4
<1> HIDE DEF S
<1>3. \A n \in Nat : n \in S BY <1>1, <1>2, SetInduction
<1> QED BY <1>3 DEF S

(* A power of two is larger than its exponent. *)
LEMMA PowerExceeds == \A i \in Nat : i < 2^i
<1> DEFINE S == {i \in Nat : i < 2^i}
<1>1. 0 \in S BY PowerOfZero
<1>2. \A n \in Nat : n \in S => n + 1 \in S
  BY PowerIsPositive, PowerDoubles
<1> HIDE DEF S
<1>3. \A n \in Nat : n \in S BY <1>1, <1>2, SetInduction
<1> QED BY <1>3 DEF S

(* Every positive number lies between two powers. *)
LEMMA LogarithmExists ==
  \A n \in Nat \ {0} : \E i \in 0..(n - 1) : 2^i <= n /\ n < 2^(i + 1)
<1> DEFINE S == {m \in Nat : \E i \in Nat : 2^i <= m + 1 /\ m + 1 < 2^(i + 1)}
<1>1. 0 \in S
  <2>1. 2^0 <= 0 + 1 /\ 0 + 1 < 2^(0 + 1) BY PowerOfZero, PowerDoubles
  <2> QED BY <2>1
<1>2. \A n \in Nat : n \in S => n + 1 \in S
  <2> TAKE n \in Nat
  <2> HAVE n \in S
  <2>1. PICK i \in Nat : 2^i <= n + 1 /\ n + 1 < 2^(i + 1) OBVIOUS
  <2>2. /\ 2^i \in Nat \ {0} /\ 2^(i + 1) = 2 * 2^i /\ i + 1 \in Nat
        /\ 2^((i + 1) + 1) = 2 * 2^(i + 1)
    BY PowerIsPositive, PowerDoubles
  <2>3. CASE n + 2 < 2^(i + 1) BY <2>1, <2>2, <2>3
  <2>4. CASE n + 2 >= 2^(i + 1)
    <3>1. 2^(i + 1) <= (n + 1) + 1 /\ (n + 1) + 1 < 2^((i + 1) + 1)
      BY <2>1, <2>2, <2>4
    <3> QED BY <2>2, <3>1
  <2> QED BY <2>2, <2>3, <2>4
<1> HIDE DEF S
<1>3. \A n \in Nat : n \in S BY <1>1, <1>2, SetInduction
<1> TAKE n \in Nat \ {0}
<1>4. n - 1 \in Nat /\ (n - 1) + 1 = n OBVIOUS
<1>5. n - 1 \in S BY <1>3, <1>4
<1>6. PICK i \in Nat : 2^i <= n /\ n < 2^(i + 1) BY <1>4, <1>5 DEF S
<1>7. i < 2^i /\ 2^i \in Nat BY PowerExceeds, PowerIsPositive
<1>8. i \in 0..(n - 1) BY <1>6, <1>7
<1> QED BY <1>6, <1>8

-----------------------------------------------------------------------------
(* The last block elements are in: the slot behind it stays empty or spare. *)
MaxIndex == Slots - 2

(* Where the elements are. *)
LEMMA MaxIndexFacts ==
  /\ MaxIndex \in Nat
  /\ MaxSize < 2^(MaxIndex + 1)
  /\ Indexes = 0..(MaxIndex + 1) /\ Indexes \subseteq Nat
<1>1. Slots \in Nat \ {0} /\ MaxSize \in Nat \ {0} /\ MaxSize < 2^(Slots - 1)
  BY VectorAssumption
<1>2. Slots # 1
  <2> SUFFICES ASSUME Slots = 1 PROVE FALSE OBVIOUS
  <2>1. Slots - 1 = 0 OBVIOUS
  <2>2. MaxSize < 2^0 BY <1>1, <2>1
  <2> QED BY <1>1, <2>2, PowerOfZero
<1>3. MaxIndex \in Nat /\ MaxIndex + 1 = Slots - 1 BY <1>1, <1>2 DEF MaxIndex
<1> QED BY <1>1, <1>3 DEF Indexes

(* The element of number n, from 1, is in cell n - 2^i of block i exactly  *)
(* if n is not less than 2^i and less than the next power.                 *)
LEMMA IndexFacts ==
  ASSUME NEW n \in 1..MaxSize
  PROVE  /\ Index(n) \in 0..MaxIndex /\ Index(n) + 1 \in Indexes /\ Index(n) \in Indexes
         /\ InternalIndex(n) \in 0..(2^Index(n) - 1)
         /\ InternalIndex(n) + 2^Index(n) = n
         /\ 2^Index(n) <= n /\ n < 2^(Index(n) + 1)
<1>1. MaxSize \in Nat /\ MaxIndex \in Nat /\ n \in Nat \ {0} /\ n <= MaxSize
  BY VectorAssumption, MaxIndexFacts
<1>2. PICK i \in 0..(n - 1) : 2^i <= n /\ n < 2^(i + 1) BY <1>1, LogarithmExists
<1>3. i \in Nat /\ 2^i \in Nat BY <1>1, <1>2, PowerIsPositive
<1>4. i <= MaxIndex
  <2> SUFFICES ASSUME MaxIndex < i PROVE FALSE BY <1>1, <1>3
  <2>1. 2^(MaxIndex + 1) <= 2^i /\ 2^(MaxIndex + 1) \in Nat
    BY <1>1, <1>3, PowerGrows, PowerIsPositive
  <2> QED BY <1>1, <1>2, <1>3, <2>1, MaxIndexFacts
<1>5. i \in Indexes /\ i + 1 \in Indexes BY <1>1, <1>3, <1>4, MaxIndexFacts
<1>6. Index(n) \in Indexes /\ 2^Index(n) <= n /\ n < 2^(Index(n) + 1)
  BY <1>2, <1>5 DEF Index
<1>7. Index(n) \in Nat BY <1>6, MaxIndexFacts
<1>8. Index(n) = i
  <2>1. /\ 2^Index(n) \in Nat /\ 2^(Index(n) + 1) \in Nat /\ 2^(i + 1) \in Nat
    BY <1>3, <1>7, PowerIsPositive
  <2>2. CASE Index(n) < i
    <3>1. 2^(Index(n) + 1) <= 2^i BY <1>3, <1>7, <2>2, PowerGrows
    <3> QED BY <1>1, <1>2, <1>3, <1>6, <2>1, <3>1
  <2>3. CASE i < Index(n)
    <3>1. 2^(i + 1) <= 2^Index(n) BY <1>3, <1>7, <2>3, PowerGrows
    <3> QED BY <1>1, <1>2, <1>3, <1>6, <2>1, <3>1
  <2> QED BY <1>3, <1>7, <2>2, <2>3
<1>9. 2^(i + 1) = 2 * 2^i BY <1>3, PowerDoubles
<1> QED BY <1>1, <1>2, <1>3, <1>4, <1>5, <1>6, <1>8, <1>9 DEF InternalIndex

(* A number lies between one pair of powers only: index is determined. *)
LEMMA IndexIsUnique ==
  ASSUME NEW n \in 1..MaxSize, NEW i \in Indexes, 2^i <= n, n < 2^(i + 1)
  PROVE  i = Index(n)
<1>1. /\ i \in Nat /\ Index(n) \in Nat /\ n \in Nat
      /\ 2^Index(n) <= n /\ n < 2^(Index(n) + 1)
  BY IndexFacts, MaxIndexFacts
<1>2. /\ 2^Index(n) \in Nat /\ 2^(Index(n) + 1) \in Nat
      /\ 2^i \in Nat /\ 2^(i + 1) \in Nat
  BY <1>1, PowerIsPositive
<1>3. CASE Index(n) < i
  <2>1. 2^(Index(n) + 1) <= 2^i BY <1>1, <1>3, PowerGrows
  <2> QED BY <1>1, <1>2, <2>1
<1>4. CASE i < Index(n)
  <2>1. 2^(i + 1) <= 2^Index(n) BY <1>1, <1>4, PowerGrows
  <2> QED BY <1>1, <1>2, <2>1
<1> QED BY <1>1, <1>3, <1>4

(* The cell j of block i is that of element j + 2^i. *)
LEMMA CellIsElement ==
  ASSUME NEW n \in 1..MaxSize, NEW i \in Indexes, NEW j \in 0..(2^i - 1), j + 2^i = n
  PROVE  i = Index(n) /\ j = InternalIndex(n)
<1>1. i \in Nat /\ 2^i \in Nat /\ 2^(i + 1) = 2 * 2^i /\ n \in Nat
  BY MaxIndexFacts, PowerIsPositive, PowerDoubles
<1>2. 2^i <= n /\ n < 2^(i + 1) BY <1>1
<1>3. i = Index(n) BY <1>2, IndexIsUnique
<1> QED BY <1>1, <1>3 DEF InternalIndex

-----------------------------------------------------------------------------
(* A function can be iterated.  The loops of resize are such iterations. *)
Iterates(f, S, x, step) ==
  f \in [Nat -> S] /\ f[0] = x /\ \A n \in Nat : f[n + 1] = step[f[n]]

(* Every step function has an iteration from every start. *)
LEMMA Iteration ==
  ASSUME NEW S, NEW x \in S, NEW step \in [S -> S]
  PROVE  \E f : Iterates(f, S, x, step)
<1> DEFINE Runs(n) == {g \in [0..n -> S] :
                         g[0] = x /\ \A k \in 0..(n - 1) : g[k + 1] = step[g[k]]}
           A == {n \in Nat : Runs(n) # {}}
<1>1. 0 \in A
  <2>1. [k \in 0..0 |-> x] \in Runs(0) OBVIOUS
  <2> QED BY <2>1
<1>2. \A n \in Nat : n \in A => n + 1 \in A
  <2> TAKE n \in Nat
  <2> HAVE n \in A
  <2>1. PICK g : g \in Runs(n) OBVIOUS
  <2> DEFINE h == [k \in 0..(n + 1) |-> IF k <= n THEN g[k] ELSE step[g[n]]]
  <2>2. \A k \in 0..n : g[k] \in S BY <2>1
  <2>3. h \in [0..(n + 1) -> S] BY <2>2
  <2>4. h[0] = x BY <2>1
  <2>5. ASSUME NEW k \in 0..((n + 1) - 1) PROVE h[k + 1] = step[h[k]]
    <3>1. k \in 0..n /\ k + 1 \in 0..(n + 1) /\ k \in 0..(n + 1) BY <2>5
    <3>2. CASE k = n BY <3>1, <3>2
    <3>3. CASE k < n
      <4>1. k \in 0..(n - 1) /\ k + 1 <= n BY <3>1, <3>3
      <4>2. h[k + 1] = g[k + 1] /\ h[k] = g[k] BY <3>1, <4>1
      <4> QED BY <2>1, <4>1, <4>2
    <3> QED BY <3>1, <3>2, <3>3
  <2>6. h \in Runs(n + 1)
    <3> HIDE DEF h
    <3> QED BY <2>3, <2>4, <2>5
  <2> HIDE DEF h, Runs
  <2> QED BY <2>6
<1>3. \A n \in Nat : n \in A
  <2> HIDE DEF A
  <2> QED BY <1>1, <1>2, SetInduction
<1>4. ASSUME NEW n \in Nat, NEW g \in Runs(n), NEW h \in Runs(n + 1)
      PROVE  \A k \in Nat : k <= n => g[k] = h[k]
  <2> DEFINE B == {k \in Nat : k <= n => g[k] = h[k]}
  <2>1. 0 \in B OBVIOUS
  <2>2. \A k \in Nat : k \in B => k + 1 \in B
    <3> TAKE k \in Nat
    <3> HAVE k \in B
    <3> SUFFICES ASSUME k + 1 <= n PROVE g[k + 1] = h[k + 1] OBVIOUS
    <3>1. k \in 0..(n - 1) /\ k \in 0..((n + 1) - 1) /\ g[k] = h[k] OBVIOUS
    <3>2. g[k + 1] = step[g[k]] /\ h[k + 1] = step[h[k]] BY <3>1
    <3> QED BY <3>1, <3>2
  <2> HIDE DEF B
  <2>3. \A k \in Nat : k \in B BY <2>1, <2>2, SetInduction
  <2> QED BY <2>3 DEF B
<1> DEFINE R == [n \in Nat |-> CHOOSE g : g \in Runs(n)]
           f == [n \in Nat |-> R[n][n]]
<1>5. \A n \in Nat : R[n] \in Runs(n)
  <2> TAKE n \in Nat
  <2>1. \E g : g \in Runs(n) BY <1>3
  <2> HIDE DEF Runs
  <2> QED BY <2>1
<1> HIDE DEF R
<1>6. \A n \in Nat : R[n][n] \in S /\ R[n][0] = x BY <1>5
<1>7. f \in [Nat -> S] BY <1>6
<1>8. f[0] = x BY <1>6
<1>9. ASSUME NEW n \in Nat PROVE f[n + 1] = step[f[n]]
  <2>1. R[n] \in Runs(n) /\ R[n + 1] \in Runs(n + 1) BY <1>5
  <2>2. R[n][n] = R[n + 1][n]
    <3> HIDE DEF Runs
    <3> QED BY <1>4, <2>1
  <2>3. n \in 0..((n + 1) - 1) OBVIOUS
  <2>4. R[n + 1][n + 1] = step[R[n + 1][n]] BY <2>1, <2>3
  <2> QED BY <2>2, <2>4
<1> HIDE DEF f
<1> QED BY <1>7, <1>8, <1>9 DEF Iterates

-----------------------------------------------------------------------------
Blocks   == Indexes \X Nat
Contents == Values \cup {Raw}
Cells(i) == [0..(2^i - 1) -> Contents]

(* The heap: finitely many blocks, of the size their index says. *)
Heaps ==
  {h \in UNION {[D -> UNION {Cells(i) : i \in Indexes}] : D \in SUBSET Blocks} :
     IsFiniteSet(DOMAIN h) /\ \A b \in DOMAIN h : h[b] \in Cells(b[1])}

Owned(e) == {e[i] : i \in Indexes} \ {NoBlock}

(* A vector in use with the heap.  It has the blocks its elements need and *)
(* at most one more, and its cells hold elements up to its size.           *)
BlocksFit(e, h) ==
  \A i \in Indexes : e[i] # NoBlock => e[i] \in DOMAIN h /\ e[i][1] = i
BlocksSuffice(e, size) == \A i \in Indexes : 2^i <= size => e[i] # NoBlock
BlocksAreNeeded(e, size) ==
  \A i \in Indexes : e[i] # NoBlock => i = 0 \/ 2^(i - 1) <= size
CellsAreFull(e, size, h) ==
  \A i \in Indexes : e[i] # NoBlock =>
    \A j \in 0..(2^i - 1) : h[e[i]][j] # Raw <=> j + 2^i <= size

Stores ==
  {s \in [entities : [Indexes -> Blocks \cup {NoBlock}], total_size : 0..MaxSize,
          heap : Heaps] :
     /\ BlocksFit(s.entities, s.heap)
     /\ BlocksSuffice(s.entities, s.total_size)
     /\ BlocksAreNeeded(s.entities, s.total_size)
     /\ CellsAreFull(s.entities, s.total_size, s.heap)}

(* Membership in Heaps, taken apart and put together. *)
LEMMA HeapFacts ==
  ASSUME NEW h \in Heaps
  PROVE  /\ DOMAIN h \subseteq Blocks /\ IsFiniteSet(DOMAIN h)
         /\ h = [b \in DOMAIN h |-> h[b]]
         /\ \A b \in DOMAIN h : h[b] \in Cells(b[1])
<1>1. PICK D \in SUBSET Blocks : h \in [D -> UNION {Cells(i) : i \in Indexes}]
  BY DEF Heaps
<1> QED BY <1>1 DEF Heaps

(* A function on finitely many blocks of the right sizes is a heap. *)
LEMMA IsHeap ==
  ASSUME NEW D \in SUBSET Blocks, IsFiniteSet(D), NEW h, DOMAIN h = D,
         h = [b \in D |-> h[b]], \A b \in D : h[b] \in Cells(b[1])
  PROVE  h \in Heaps
<1>1. \A b \in D : b[1] \in Indexes BY DEF Blocks
<1>2. \A b \in D : h[b] \in UNION {Cells(i) : i \in Indexes} BY <1>1
<1>3. h \in [D -> UNION {Cells(i) : i \in Indexes}] BY <1>2
<1> QED BY <1>3 DEF Heaps

(* Without any block there is a heap. *)
LEMMA EmptyHeap == << >> \in Heaps
<1>1. DOMAIN << >> = {} /\ << >> = [b \in {} |-> << >>[b]] OBVIOUS
<1> QED BY <1>1, FS_EmptySet, IsHeap

(* nullptr is no block. *)
LEMMA NoBlockIsNone == NoBlock \notin Blocks
BY DEF NoBlock, Blocks

(* operator new returns a block that is not in use. *)
LEMMA NewBlockIsNew ==
  ASSUME NEW h, IsFiniteSet(DOMAIN h), NEW i \in Indexes
  PROVE  /\ NewBlock(h, i) \in Blocks /\ NewBlock(h, i) \notin DOMAIN h
         /\ NewBlock(h, i)[1] = i
<1> DEFINE S == {c \in DOMAIN h : c[1] = i}
           used == {b[2] : b \in S}
           f == [b \in S |-> b[2]]
           k == Cardinality(used)
<1>1. IsFiniteSet(S) BY FS_Subset
<1>2. f \in Surjection(S, used) BY DEF Surjection
<1>3. IsFiniteSet(used)
  <2> HIDE DEF S, used, f
  <2> QED BY <1>1, <1>2, FS_Surjection
<1>4. k \in Nat BY <1>3, FS_CardinalityType
<1>5. \E n \in 1..(k + 1) : n \notin used
  <2> SUFFICES ASSUME 1..(k + 1) \subseteq used PROVE FALSE OBVIOUS
  <2>1. Cardinality(1..(k + 1)) <= k BY <1>3, FS_Subset
  <2>2. Cardinality(1..(k + 1)) = k + 1 BY <1>4, FS_Interval
  <2> QED BY <1>4, <2>1, <2>2
<1>6. PICK n \in 1..(k + 1) : n \notin used /\ NewBlock(h, i) = <<i, n>>
  BY <1>5 DEF NewBlock
<1>7. <<i, n>> \notin DOMAIN h BY <1>6
<1> QED BY <1>4, <1>6, <1>7 DEF Blocks

-----------------------------------------------------------------------------
(* Where element k of a vector is, from 1, and what it is. *)
Where(s, k) == <<s.entities[Index(k)], InternalIndex(k)>>
What(s, k)  == s.heap[s.entities[Index(k)]][InternalIndex(k)]

(* From s to t a vector changed.  The blocks of others did not, its own    *)
(* are the only ones beside them, and the elements that s and t both have  *)
(* stayed as they are.                                                     *)
Keeps(s, t) ==
  /\ \A b \in DOMAIN s.heap \ Owned(s.entities) :
       b \in DOMAIN t.heap \ Owned(t.entities) /\ t.heap[b] = s.heap[b]
  /\ DOMAIN t.heap \subseteq (DOMAIN s.heap \ Owned(s.entities)) \cup Owned(t.entities)
  /\ \A k \in 1..MaxSize : k <= s.total_size /\ k <= t.total_size =>
       Where(t, k) = Where(s, k) /\ What(t, k) = What(s, k)

(* It got larger, by blocks that are new and elements of V. *)
Adds(s, t, V) ==
  /\ s.total_size <= t.total_size
  /\ \A i \in Indexes : s.entities[i] # NoBlock => t.entities[i] = s.entities[i]
  /\ \A i \in Indexes : t.entities[i] # NoBlock =>
       t.entities[i] = s.entities[i] \/ t.entities[i] \notin DOMAIN s.heap
  /\ \A k \in 1..MaxSize : s.total_size < k /\ k <= t.total_size => What(t, k) \in V

(* Membership in Stores, taken apart. *)
LEMMA StoreFacts ==
  ASSUME NEW s \in Stores
  PROVE  /\ s = [entities |-> s.entities, total_size |-> s.total_size, heap |-> s.heap]
         /\ s.entities \in [Indexes -> Blocks \cup {NoBlock}]
         /\ s.total_size \in 0..MaxSize /\ s.total_size \in Nat
         /\ s.heap \in Heaps
         /\ BlocksFit(s.entities, s.heap)
         /\ BlocksSuffice(s.entities, s.total_size)
         /\ BlocksAreNeeded(s.entities, s.total_size)
         /\ CellsAreFull(s.entities, s.total_size, s.heap)
BY VectorAssumption DEF Stores

(* The block in which emplace_back constructs an element, and the heap     *)
(* with it.                                                                *)
EmplaceBlock(s) ==
  LET index == Index(s.total_size + 1)
  IN IF NeedsBlock(s) THEN NewBlock(s.heap, index) ELSE s.entities[index]
EmplaceHeap(s) ==
  IF NeedsBlock(s) THEN Allocated(s.heap, EmplaceBlock(s), Index(s.total_size + 1))
  ELSE s.heap

(* There is a raw cell for the next element in block b, of index i, of the *)
(* heap h.                                                                 *)
HasRoom(s, i, b, h) ==
  /\ b \in Blocks /\ b[1] = i
  /\ h \in Heaps /\ DOMAIN h = DOMAIN s.heap \cup {b}
  /\ \A c \in DOMAIN s.heap : h[c] = s.heap[c]
  /\ b = s.entities[i] \/ (b \notin DOMAIN s.heap /\ s.entities[i] = NoBlock)
  /\ \A j \in 0..(2^i - 1) : h[b][j] # Raw <=> j + 2^i <= s.total_size

(* Either the block is there, with the cells behind the last element raw,  *)
(* or emplace_back allocates it.                                           *)
LEMMA EmplaceRoom ==
  ASSUME NEW s \in Stores, s.total_size < MaxSize,
         NEW i, i = Index(s.total_size + 1),
         NEW b, b = EmplaceBlock(s), NEW h, h = EmplaceHeap(s)
  PROVE  HasRoom(s, i, b, h)
<1> DEFINE n == s.total_size + 1
<1>1. /\ MaxSize \in Nat /\ s.total_size \in Nat /\ n \in 1..MaxSize
      /\ s.heap \in Heaps
      /\ BlocksFit(s.entities, s.heap) /\ BlocksSuffice(s.entities, s.total_size)
      /\ CellsAreFull(s.entities, s.total_size, s.heap)
      /\ s.entities \in [Indexes -> Blocks \cup {NoBlock}]
  BY StoreFacts, VectorAssumption
<1>2. /\ i \in Indexes /\ i \in Nat /\ 2^i \in Nat /\ 2^i <= n
      /\ InternalIndex(n) \in 0..(2^i - 1) /\ InternalIndex(n) + 2^i = n
  BY <1>1, IndexFacts, MaxIndexFacts, PowerIsPositive
<1>3. /\ DOMAIN s.heap \subseteq Blocks /\ IsFiniteSet(DOMAIN s.heap)
      /\ s.heap = [c \in DOMAIN s.heap |-> s.heap[c]]
      /\ \A c \in DOMAIN s.heap : s.heap[c] \in Cells(c[1])
  BY <1>1, HeapFacts
<1>4. CASE NeedsBlock(s)
  <2>1. b = NewBlock(s.heap, i) /\ h = Allocated(s.heap, b, i)
    BY <1>4 DEF EmplaceBlock, EmplaceHeap
  <2>2. b \in Blocks /\ b \notin DOMAIN s.heap /\ b[1] = i
    BY <1>2, <1>3, <2>1, NewBlockIsNew
  <2> DEFINE D == DOMAIN s.heap \cup {b}
             raw == [j \in 0..(2^i - 1) |-> Raw]
  <2>3. /\ DOMAIN h = D /\ h = [c \in D |-> h[c]]
        /\ h[b] = raw /\ \A c \in DOMAIN s.heap : h[c] = s.heap[c]
    BY <2>1, <2>2 DEF Allocated
  <2>4. raw \in Cells(i) BY DEF Cells, Contents
  <2>5. D \in SUBSET Blocks BY <1>3, <2>2
  <2>6. IsFiniteSet(D) BY <1>3, FS_AddElement
  <2>7. \A c \in D : h[c] \in Cells(c[1])
    <3> HIDE DEF raw
    <3> QED BY <1>3, <2>2, <2>3, <2>4
  <2>8. h \in Heaps
    <3> HIDE DEF D, raw
    <3> QED BY <2>3, <2>5, <2>6, <2>7, IsHeap
  <2>9. s.entities[i] = NoBlock /\ InternalIndex(n) = 0
    BY <1>4 DEF NeedsBlock, IsPowerOfTwo
  <2>10. ASSUME NEW j \in 0..(2^i - 1)
         PROVE  h[b][j] # Raw <=> j + 2^i <= s.total_size
    BY <1>1, <1>2, <2>3, <2>9
  <2> QED BY <2>2, <2>3, <2>8, <2>9, <2>10 DEF HasRoom
<1>5. CASE ~NeedsBlock(s)
  <2>1. b = s.entities[i] /\ h = s.heap
    BY <1>5 DEF EmplaceBlock, EmplaceHeap
  <2>2. s.entities[i] # NoBlock
    <3>1. CASE InternalIndex(n) = 0 BY <1>5, <3>1 DEF NeedsBlock, IsPowerOfTwo
    <3>2. CASE InternalIndex(n) # 0
      <4>1. 2^i <= s.total_size BY <1>1, <1>2, <3>2
      <4> QED BY <1>1, <1>2, <4>1 DEF BlocksSuffice
    <3> QED BY <3>1, <3>2
  <2>3. b \in DOMAIN s.heap /\ b[1] = i BY <1>1, <1>2, <2>1, <2>2 DEF BlocksFit
  <2>4. DOMAIN s.heap = DOMAIN s.heap \cup {b} BY <2>3
  <2>5. \A j \in 0..(2^i - 1) : h[b][j] # Raw <=> j + 2^i <= s.total_size
    BY <1>1, <1>2, <2>1, <2>2 DEF CellsAreFull
  <2> QED BY <1>1, <1>3, <2>1, <2>3, <2>4, <2>5 DEF HasRoom
<1> QED BY <1>4, <1>5

(* What emplace_back changes. *)
LEMMA EmplacedFields ==
  ASSUME NEW s \in Stores, NEW x,
         NEW n, n = s.total_size + 1, NEW b, b = EmplaceBlock(s),
         NEW h, h = EmplaceHeap(s), NEW t, t = Emplaced(s, x)
  PROVE  t = [entities |-> [s.entities EXCEPT ![Index(n)] = b], total_size |-> n,
              heap |-> [h EXCEPT ![b][InternalIndex(n)] = x]]
BY DEF Emplaced, EmplaceBlock, EmplaceHeap

(* emplace_back adds an element and leaves a vector. *)
LEMMA EmplacedIsStore ==
  ASSUME NEW s \in Stores, s.total_size < MaxSize, NEW x \in Values,
         NEW t, t = Emplaced(s, x)
  PROVE  /\ t \in Stores /\ t.total_size = s.total_size + 1
         /\ Keeps(s, t) /\ Adds(s, t, {x})
<1>0. PICK n, i, j0, b, h :
        /\ n = s.total_size + 1 /\ i = Index(n) /\ j0 = InternalIndex(n)
        /\ b = EmplaceBlock(s) /\ h = EmplaceHeap(s)
  OBVIOUS
<1>1. PICK e, g : e = [s.entities EXCEPT ![i] = b] /\ g = [h EXCEPT ![b][j0] = x]
  OBVIOUS
<1>2. t = [entities |-> e, total_size |-> n, heap |-> g] BY <1>0, <1>1, EmplacedFields
<1>3. t.entities = e /\ t.total_size = n /\ t.heap = g BY <1>2
<1>4. /\ MaxSize \in Nat /\ s.total_size \in Nat /\ n \in 1..MaxSize /\ n \in 0..MaxSize
      /\ n \in Nat
      /\ s.heap \in Heaps
      /\ BlocksFit(s.entities, s.heap) /\ BlocksSuffice(s.entities, s.total_size)
      /\ BlocksAreNeeded(s.entities, s.total_size)
      /\ CellsAreFull(s.entities, s.total_size, s.heap)
      /\ s.entities \in [Indexes -> Blocks \cup {NoBlock}]
  BY <1>0, StoreFacts, VectorAssumption
<1>5. /\ i \in Indexes /\ i \in Nat /\ 2^i \in Nat /\ 2^i <= n
      /\ j0 \in 0..(2^i - 1) /\ j0 + 2^i = n
  BY <1>0, <1>4, IndexFacts, MaxIndexFacts, PowerIsPositive
<1>6. /\ b \in Blocks /\ b[1] = i
      /\ h \in Heaps /\ DOMAIN h = DOMAIN s.heap \cup {b}
      /\ \A c \in DOMAIN s.heap : h[c] = s.heap[c]
      /\ b = s.entities[i] \/ (b \notin DOMAIN s.heap /\ s.entities[i] = NoBlock)
      /\ \A j \in 0..(2^i - 1) : h[b][j] # Raw <=> j + 2^i <= s.total_size
  <2>1. i = Index(s.total_size + 1) BY <1>0
  <2>2. HasRoom(s, i, b, h) BY <1>0, <2>1, EmplaceRoom
  <2> QED BY <2>2 DEF HasRoom
<1>7. /\ DOMAIN h \subseteq Blocks /\ IsFiniteSet(DOMAIN h)
      /\ h = [c \in DOMAIN h |-> h[c]] /\ \A c \in DOMAIN h : h[c] \in Cells(c[1])
  BY <1>6, HeapFacts
<1>8. /\ e \in [Indexes -> Blocks \cup {NoBlock}] /\ e[i] = b
      /\ \A l \in Indexes : l # i => e[l] = s.entities[l]
  BY <1>1, <1>4, <1>5, <1>6
<1>9. /\ DOMAIN g = DOMAIN h /\ g = [c \in DOMAIN h |-> g[c]]
      /\ g[b] = [h[b] EXCEPT ![j0] = x]
      /\ \A c \in DOMAIN h : c # b => g[c] = h[c]
  BY <1>1, <1>6, <1>7
<1>10. h[b] \in [0..(2^i - 1) -> Contents] BY <1>6, <1>7 DEF Cells
<1>11. /\ g[b] \in [0..(2^i - 1) -> Contents] /\ g[b][j0] = x
       /\ \A j \in 0..(2^i - 1) : j # j0 => g[b][j] = h[b][j]
  BY <1>5, <1>9, <1>10 DEF Contents
<1>12. b # NoBlock BY <1>6, NoBlockIsNone
<1>13. \A l \in Indexes : l # i /\ s.entities[l] # NoBlock =>
         s.entities[l] # b /\ s.entities[l] \in DOMAIN s.heap
  BY <1>4, <1>6 DEF BlocksFit
<1>14. g \in Heaps
  <2>1. \A c \in DOMAIN h : g[c] \in Cells(c[1]) BY <1>6, <1>7, <1>9, <1>11 DEF Cells
  <2> QED BY <1>7, <1>9, <2>1, IsHeap
<1>15. BlocksFit(e, g)
  BY <1>4, <1>6, <1>8, <1>9, <1>13 DEF BlocksFit
<1>16. BlocksSuffice(e, n)
  <2> SUFFICES ASSUME NEW l \in Indexes, 2^l <= n, l # i PROVE e[l] # NoBlock
    BY <1>8, <1>12 DEF BlocksSuffice
  <2>1. l \in Nat /\ 2^l \in Nat \ {0} /\ 2^(l + 1) = 2 * 2^l
    BY MaxIndexFacts, PowerIsPositive, PowerDoubles
  <2>2. 2^l # n
    <3> SUFFICES ASSUME 2^l = n PROVE FALSE OBVIOUS
    <3>1. n < 2^(l + 1) BY <2>1
    <3> QED BY <1>0, <1>4, <3>1, IndexIsUnique
  <2>3. 2^l <= s.total_size BY <1>0, <1>4, <2>1, <2>2
  <2> QED BY <1>4, <1>8, <2>3 DEF BlocksSuffice
<1>17. BlocksAreNeeded(e, n)
  <2> SUFFICES ASSUME NEW l \in Indexes, e[l] # NoBlock, l # 0 PROVE 2^(l - 1) <= n
    BY DEF BlocksAreNeeded
  <2>1. l - 1 \in Nat /\ (l - 1) + 1 = l BY MaxIndexFacts
  <2>2. 2^(l - 1) \in Nat /\ 2^l = 2 * 2^(l - 1)
    BY <2>1, PowerIsPositive, PowerDoubles
  <2>3. CASE l = i BY <1>4, <1>5, <2>2, <2>3
  <2>4. CASE l # i
    <3>1. 2^(l - 1) <= s.total_size BY <1>4, <1>8, <2>4 DEF BlocksAreNeeded
    <3> QED BY <1>0, <1>4, <2>2, <3>1
  <2> QED BY <2>3, <2>4
<1>18. CellsAreFull(e, n, g)
  <2> SUFFICES ASSUME NEW l \in Indexes, e[l] # NoBlock, NEW j \in 0..(2^l - 1)
               PROVE  g[e[l]][j] # Raw <=> j + 2^l <= n
    BY DEF CellsAreFull
  <2>1. l \in Nat /\ 2^l \in Nat BY MaxIndexFacts, PowerIsPositive
  <2>2. CASE l = i
    <3>1. CASE j = j0 BY <1>5, <1>8, <1>11, <2>2, <3>1, RawAssumption
    <3>2. CASE j # j0
      <4>1. g[e[l]][j] # Raw <=> j + 2^l <= s.total_size
        BY <1>6, <1>8, <1>11, <2>2, <3>2
      <4>2. j + 2^l # n BY <1>5, <2>1, <2>2, <3>2
      <4> QED BY <1>0, <1>4, <2>1, <4>1, <4>2
    <3> QED BY <3>1, <3>2
  <2>3. CASE l # i
    <3>1. g[e[l]] = s.heap[s.entities[l]] /\ s.entities[l] # NoBlock
      BY <1>6, <1>8, <1>9, <1>13, <2>3
    <3>2. g[e[l]][j] # Raw <=> j + 2^l <= s.total_size
      BY <1>4, <3>1 DEF CellsAreFull
    <3>3. j + 2^l # n BY <1>0, <1>4, <2>3, CellIsElement
    <3> QED BY <1>0, <1>4, <2>1, <3>2, <3>3
  <2> QED BY <2>2, <2>3
<1>19. t \in Stores
  BY <1>2, <1>3, <1>4, <1>8, <1>14, <1>15, <1>16, <1>17, <1>18 DEF Stores
<1>20. Owned(s.entities) \subseteq Owned(e) /\ Owned(e) \subseteq Owned(s.entities) \cup {b}
       /\ b \in Owned(e)
  <2>1. \A l \in Indexes : s.entities[l] # NoBlock => e[l] = s.entities[l]
    BY <1>6, <1>8
  <2>2. \A l \in Indexes : e[l] = b \/ e[l] = s.entities[l] BY <1>8
  <2> QED BY <1>5, <1>8, <1>12, <2>1, <2>2 DEF Owned
<1>21. ASSUME NEW k \in 1..MaxSize, k <= s.total_size
       PROVE  Where(t, k) = Where(s, k) /\ What(t, k) = What(s, k)
  <2>1. PICK l, j : l = Index(k) /\ j = InternalIndex(k) OBVIOUS
  <2>2. l \in Indexes /\ 2^l <= k /\ j \in 0..(2^l - 1) /\ j + 2^l = k /\ 2^l \in Nat
    BY <2>1, IndexFacts, MaxIndexFacts, PowerIsPositive
  <2>3. k \in Nat /\ 2^l <= s.total_size BY <1>4, <1>21, <2>2
  <2>4. s.entities[l] # NoBlock BY <1>4, <2>2, <2>3 DEF BlocksSuffice
  <2>5. e[l] = s.entities[l] BY <1>6, <1>8, <2>2, <2>4
  <2>6. g[e[l]][j] = s.heap[s.entities[l]][j]
    <3>1. CASE l = i
      <4>1. j # j0 BY <1>0, <1>4, <1>5, <1>21, <2>2, <2>3, <3>1
      <4>2. s.entities[i] = b /\ b \in DOMAIN s.heap
        BY <1>4, <1>6, <2>2, <2>4, <3>1 DEF BlocksFit
      <4> QED BY <1>6, <1>11, <2>2, <2>5, <3>1, <4>1, <4>2
    <3>2. CASE l # i BY <1>6, <1>9, <1>13, <2>2, <2>4, <2>5, <3>2
    <3> QED BY <3>1, <3>2
  <2> QED BY <1>3, <2>1, <2>5, <2>6 DEF Where, What
<1>22. Keeps(s, t)
  <2>1. ASSUME NEW c \in DOMAIN s.heap \ Owned(s.entities)
        PROVE  c \in DOMAIN g \ Owned(e) /\ g[c] = s.heap[c]
    <3>1. c # b
      <4>1. b = s.entities[i] => b \in Owned(s.entities) BY <1>5, <1>12 DEF Owned
      <4> QED BY <1>6, <2>1, <4>1
    <3> QED BY <1>6, <1>9, <1>20, <2>1, <3>1
  <2>2. DOMAIN g \subseteq (DOMAIN s.heap \ Owned(s.entities)) \cup Owned(e)
    BY <1>6, <1>9, <1>20
  <2> QED BY <1>3, <1>21, <2>1, <2>2 DEF Keeps
<1>23. Adds(s, t, {x})
  <2>1. \A k \in 1..MaxSize : s.total_size < k /\ k <= n => k = n BY <1>0, <1>4
  <2>2. What(t, n) = x BY <1>0, <1>3, <1>8, <1>11 DEF What
  <2>3. \A l \in Indexes : s.entities[l] # NoBlock => e[l] = s.entities[l]
    BY <1>6, <1>8
  <2>4. \A l \in Indexes : e[l] # NoBlock =>
          e[l] = s.entities[l] \/ e[l] \notin DOMAIN s.heap
    BY <1>6, <1>8
  <2>5. s.total_size <= n BY <1>0, <1>4
  <2> QED BY <1>3, <2>1, <2>2, <2>3, <2>4, <2>5 DEF Adds
<1> QED BY <1>0, <1>3, <1>19, <1>22, <1>23

(* pop_back takes the last element and leaves a vector. *)
LEMMA PoppedIsStore ==
  ASSUME NEW s \in Stores, s.total_size > 0, NEW t, t = Popped(s)
  PROVE  t \in Stores /\ t.total_size = s.total_size - 1 /\ Keeps(s, t)
<1>0. PICK n, i, j0, b, spare :
        /\ n = s.total_size /\ i = Index(n) /\ j0 = InternalIndex(n)
        /\ b = s.entities[i] /\ spare = s.entities[i + 1]
  OBVIOUS
<1>1. PICK frees \in BOOLEAN : frees = (j0 = 0 /\ spare # NoBlock) OBVIOUS
<1>2. PICK e, h, g :
        /\ e = IF frees THEN [s.entities EXCEPT ![i + 1] = NoBlock] ELSE s.entities
        /\ h = [s.heap EXCEPT ![b][j0] = Raw]
        /\ g = IF frees THEN Freed(h, {spare}) ELSE h
  OBVIOUS
<1>3. t = [entities |-> e, total_size |-> n - 1, heap |-> g]
  BY <1>0, <1>1, <1>2 DEF Popped, SpareIndex, IsPowerOfTwo
<1>4. t.entities = e /\ t.total_size = n - 1 /\ t.heap = g BY <1>3
<1>5. /\ MaxSize \in Nat /\ n \in Nat /\ n \in 1..MaxSize /\ n - 1 \in 0..MaxSize
      /\ s.heap \in Heaps
      /\ BlocksFit(s.entities, s.heap) /\ BlocksSuffice(s.entities, n)
      /\ BlocksAreNeeded(s.entities, n) /\ CellsAreFull(s.entities, n, s.heap)
      /\ s.entities \in [Indexes -> Blocks \cup {NoBlock}]
  BY <1>0, StoreFacts, VectorAssumption
<1>6. /\ i \in Indexes /\ i \in Nat /\ i + 1 \in Indexes /\ 2^i \in Nat /\ 2^i <= n
      /\ j0 \in 0..(2^i - 1) /\ j0 + 2^i = n /\ n < 2^(i + 1) /\ 2^(i + 1) \in Nat
  BY <1>0, <1>5, IndexFacts, MaxIndexFacts, PowerIsPositive
<1>7. /\ DOMAIN s.heap \subseteq Blocks /\ IsFiniteSet(DOMAIN s.heap)
      /\ s.heap = [c \in DOMAIN s.heap |-> s.heap[c]]
      /\ \A c \in DOMAIN s.heap : s.heap[c] \in Cells(c[1])
  BY <1>5, HeapFacts
<1>8. b # NoBlock /\ b \in DOMAIN s.heap /\ b[1] = i
  BY <1>0, <1>5, <1>6 DEF BlocksSuffice, BlocksFit
<1>9. /\ e \in [Indexes -> Blocks \cup {NoBlock}] /\ e[i] = b
      /\ \A l \in Indexes : e[l] = s.entities[l] \/ (e[l] = NoBlock /\ l = i + 1 /\ frees)
      /\ frees => e[i + 1] = NoBlock
  <2>1. i + 1 # i BY <1>6
  <2> QED BY <1>0, <1>2, <1>5, <1>6, <2>1
<1>10. /\ DOMAIN h = DOMAIN s.heap /\ h = [c \in DOMAIN s.heap |-> h[c]]
       /\ h[b] = [s.heap[b] EXCEPT ![j0] = Raw]
       /\ \A c \in DOMAIN s.heap : c # b => h[c] = s.heap[c]
  BY <1>2, <1>7, <1>8
<1>11. s.heap[b] \in [0..(2^i - 1) -> Contents] BY <1>7, <1>8 DEF Cells
<1>12. /\ h[b] \in [0..(2^i - 1) -> Contents] /\ h[b][j0] = Raw
       /\ \A j \in 0..(2^i - 1) : j # j0 => h[b][j] = s.heap[b][j]
  BY <1>6, <1>10, <1>11 DEF Contents
<1>13. \A l \in Indexes : s.entities[l] # NoBlock =>
         s.entities[l][1] = l /\ s.entities[l] \in DOMAIN s.heap
  BY <1>5 DEF BlocksFit
<1>14. PICK D : D = IF frees THEN DOMAIN s.heap \ {spare} ELSE DOMAIN s.heap OBVIOUS
<1>15. /\ DOMAIN g = D /\ g = [c \in D |-> g[c]]
       /\ \A c \in D : g[c] = h[c] /\ c \in DOMAIN s.heap
  BY <1>2, <1>10, <1>14 DEF Freed
<1>16. g \in Heaps
  <2>0. h[b] \in Cells(b[1]) BY <1>8, <1>12 DEF Cells
  <2>1. ASSUME NEW c \in D PROVE g[c] \in Cells(c[1])
    <3>1. g[c] = h[c] /\ c \in DOMAIN s.heap BY <1>15
    <3>2. CASE c = b BY <2>0, <3>1, <3>2
    <3>3. CASE c # b BY <1>7, <1>10, <3>1, <3>3
    <3> QED BY <3>2, <3>3
  <2>2. D \in SUBSET Blocks BY <1>7, <1>14
  <2>3. IsFiniteSet(D) BY <1>7, <1>14, FS_Subset
  <2> QED BY <1>15, <2>1, <2>2, <2>3, IsHeap
<1>17. \A l \in Indexes : e[l] # NoBlock => e[l] \in D /\ e[l] = s.entities[l]
  <2> SUFFICES ASSUME NEW l \in Indexes, e[l] # NoBlock
               PROVE  e[l] \in D /\ e[l] = s.entities[l]
    OBVIOUS
  <2>1. e[l] = s.entities[l] /\ e[l] \in DOMAIN s.heap /\ e[l][1] = l
    BY <1>9, <1>13
  <2>2. frees => l # i + 1 BY <1>9
  <2>3. frees => spare[1] = i + 1 BY <1>0, <1>1, <1>6, <1>13
  <2>4. frees => e[l] # spare BY <2>1, <2>2, <2>3
  <2> QED BY <1>14, <2>1, <2>4
<1>18. BlocksFit(e, g) BY <1>13, <1>15, <1>17 DEF BlocksFit
<1>19. BlocksSuffice(e, n - 1)
  <2> SUFFICES ASSUME NEW l \in Indexes, 2^l <= n - 1 PROVE e[l] # NoBlock
    BY DEF BlocksSuffice
  <2>1. 2^l \in Nat BY MaxIndexFacts, PowerIsPositive
  <2>2. 2^l <= n /\ l # i + 1 BY <1>5, <1>6, <2>1
  <2>3. s.entities[l] # NoBlock BY <1>5, <2>2 DEF BlocksSuffice
  <2> QED BY <1>9, <2>2, <2>3
<1>20. BlocksAreNeeded(e, n - 1)
  <2> SUFFICES ASSUME NEW l \in Indexes, e[l] # NoBlock, l # 0
               PROVE  2^(l - 1) <= n - 1
    BY DEF BlocksAreNeeded
  <2>1. l - 1 \in Nat /\ (l - 1) + 1 = l /\ l \in Nat BY MaxIndexFacts
  <2>2. 2^(l - 1) \in Nat \ {0} /\ 2^l = 2 * 2^(l - 1)
    BY <2>1, PowerIsPositive, PowerDoubles
  <2>3. 2^(l - 1) <= n BY <1>5, <1>17 DEF BlocksAreNeeded
  <2>4. 2^(l - 1) # n
    <3> SUFFICES ASSUME 2^(l - 1) = n PROVE FALSE OBVIOUS
    <3>1. l - 1 \in Indexes BY <2>1, MaxIndexFacts
    <3>2. n < 2^((l - 1) + 1) BY <2>1, <2>2
    <3>3. l - 1 = i BY <1>0, <1>5, <2>3, <3>1, <3>2, IndexIsUnique
    <3>4. l = i + 1 /\ j0 = 0 BY <1>6, <2>1, <3>3
    <3>5. spare # NoBlock BY <1>0, <1>17, <3>4
    <3> QED BY <1>1, <1>9, <3>4, <3>5
  <2> QED BY <1>5, <2>2, <2>3, <2>4
<1>21. ASSUME NEW l \in Indexes, e[l] # NoBlock, NEW j \in 0..(2^l - 1), j + 2^l # n
       PROVE  g[e[l]][j] = s.heap[s.entities[l]][j]
  <2>1. e[l] = s.entities[l] /\ g[e[l]] = h[e[l]] /\ e[l] \in DOMAIN s.heap
    BY <1>15, <1>17, <1>21
  <2>2. CASE l = i
    <3>1. j # j0 BY <1>6, <1>21, <2>2
    <3> QED BY <1>0, <1>12, <2>1, <2>2, <3>1
  <2>3. CASE l # i
    <3>1. e[l] # b BY <1>8, <1>13, <1>21, <2>1, <2>3
    <3> QED BY <1>10, <2>1, <3>1
  <2> QED BY <2>2, <2>3
<1>22. CellsAreFull(e, n - 1, g)
  <2> SUFFICES ASSUME NEW l \in Indexes, e[l] # NoBlock, NEW j \in 0..(2^l - 1)
               PROVE  g[e[l]][j] # Raw <=> j + 2^l <= n - 1
    BY DEF CellsAreFull
  <2>1. l \in Nat /\ 2^l \in Nat BY MaxIndexFacts, PowerIsPositive
  <2>2. CASE j + 2^l = n
    <3>1. l = i /\ j = j0 BY <1>0, <1>5, <2>2, CellIsElement
    <3>2. g[e[l]][j] = Raw BY <1>9, <1>12, <1>15, <1>17, <3>1
    <3> QED BY <1>5, <2>2, <3>2
  <2>3. CASE j + 2^l # n
    <3>1. g[e[l]][j] = s.heap[s.entities[l]][j] BY <1>21, <2>3
    <3>2. s.heap[s.entities[l]][j] # Raw <=> j + 2^l <= n
      BY <1>5, <1>17 DEF CellsAreFull
    <3> QED BY <1>5, <2>1, <2>3, <3>1, <3>2
  <2> QED BY <2>2, <2>3
<1>23. t \in Stores
  BY <1>3, <1>4, <1>5, <1>9, <1>16, <1>18, <1>19, <1>20, <1>22 DEF Stores
<1>24. Keeps(s, t)
  <2>1. ASSUME NEW c \in DOMAIN s.heap \ Owned(s.entities)
        PROVE  c \in DOMAIN g \ Owned(e) /\ g[c] = s.heap[c]
    <3>1. c # b BY <1>0, <1>6, <1>8, <2>1 DEF Owned
    <3>2. frees => c # spare BY <1>0, <1>1, <1>6, <2>1 DEF Owned
    <3>3. c \notin Owned(e) BY <1>17, <2>1 DEF Owned
    <3> QED BY <1>10, <1>14, <1>15, <2>1, <3>1, <3>2, <3>3
  <2>2. DOMAIN g \subseteq (DOMAIN s.heap \ Owned(s.entities)) \cup Owned(e)
    <3> SUFFICES ASSUME NEW c \in D, c \in Owned(s.entities) PROVE c \in Owned(e)
      BY <1>15
    <3>1. PICK l \in Indexes : c = s.entities[l] /\ c # NoBlock BY DEF Owned
    <3>2. frees => c # spare BY <1>14
    <3>3. ~(frees /\ l = i + 1) BY <1>0, <3>1, <3>2
    <3>4. e[l] = c BY <1>9, <3>1, <3>3
    <3> QED BY <3>1, <3>4 DEF Owned
  <2>3. ASSUME NEW k \in 1..MaxSize, k <= n - 1
        PROVE  Where(t, k) = Where(s, k) /\ What(t, k) = What(s, k)
    <3>1. PICK l, j : l = Index(k) /\ j = InternalIndex(k) OBVIOUS
    <3>2. /\ l \in Indexes /\ 2^l <= k /\ j \in 0..(2^l - 1) /\ j + 2^l = k
          /\ 2^l \in Nat /\ k \in Nat
      BY <3>1, IndexFacts, MaxIndexFacts, PowerIsPositive
    <3>3. e[l] # NoBlock BY <1>5, <1>19, <2>3, <3>2 DEF BlocksSuffice
    <3>4. j + 2^l # n BY <1>5, <2>3, <3>2
    <3>5. e[l] = s.entities[l] /\ g[e[l]][j] = s.heap[s.entities[l]][j]
      BY <1>17, <1>21, <3>2, <3>3, <3>4
    <3> QED BY <1>4, <3>1, <3>5 DEF Where, What
  <2> QED BY <1>4, <2>1, <2>2, <2>3 DEF Keeps
<1> QED BY <1>0, <1>4, <1>23, <1>24

-----------------------------------------------------------------------------
(* The loops of resize. *)
LEMMA KeepsNothing == \A s \in Stores : \A V : Keeps(s, s) /\ Adds(s, s, V)
BY StoreFacts DEF Keeps, Adds

(* Two changes in a row keep what both keep. *)
LEMMA KeepsTwice ==
  ASSUME NEW s \in Stores, NEW t \in Stores, NEW u \in Stores, Keeps(s, t), Keeps(t, u),
         \/ s.total_size <= t.total_size /\ t.total_size <= u.total_size
         \/ s.total_size >= t.total_size /\ t.total_size >= u.total_size
  PROVE  Keeps(s, u)
<1>1. ASSUME NEW b \in DOMAIN s.heap \ Owned(s.entities)
      PROVE  b \in DOMAIN u.heap \ Owned(u.entities) /\ u.heap[b] = s.heap[b]
  BY DEF Keeps
<1>2. DOMAIN u.heap \subseteq (DOMAIN s.heap \ Owned(s.entities)) \cup Owned(u.entities)
  BY DEF Keeps
<1>3. ASSUME NEW k \in 1..MaxSize, k <= s.total_size, k <= u.total_size
      PROVE  Where(u, k) = Where(s, k) /\ What(u, k) = What(s, k)
  <2>1. /\ s.total_size \in Nat /\ t.total_size \in Nat /\ u.total_size \in Nat
        /\ k \in Nat
    BY StoreFacts
  <2>2. k <= t.total_size BY <1>3, <2>1
  <2> QED BY <1>3, <2>2 DEF Keeps
<1> QED BY <1>1, <1>2, <1>3 DEF Keeps

(* Two changes in a row that add elements add the elements of both. *)
LEMMA AddsTwice ==
  ASSUME NEW s \in Stores, NEW t \in Stores, NEW u \in Stores, NEW V,
         Keeps(s, t), Keeps(t, u), Adds(s, t, V), Adds(t, u, V)
  PROVE  Adds(s, u, V)
<1>1. /\ s.total_size \in Nat /\ t.total_size \in Nat /\ u.total_size \in Nat
      /\ s.total_size <= t.total_size /\ t.total_size <= u.total_size
  BY StoreFacts DEF Adds
<1>2. DOMAIN s.heap \subseteq DOMAIN t.heap
  <2> SUFFICES ASSUME NEW b \in DOMAIN s.heap, b \in Owned(s.entities)
               PROVE  b \in DOMAIN t.heap
    BY DEF Keeps
  <2>1. PICK i \in Indexes : b = s.entities[i] /\ b # NoBlock BY DEF Owned
  <2>2. t.entities[i] = b BY <2>1 DEF Adds
  <2> QED BY <2>1, <2>2, StoreFacts DEF BlocksFit
<1>3. \A i \in Indexes : s.entities[i] # NoBlock => u.entities[i] = s.entities[i]
  BY DEF Adds
<1>4. \A i \in Indexes : u.entities[i] # NoBlock =>
        u.entities[i] = s.entities[i] \/ u.entities[i] \notin DOMAIN s.heap
  BY <1>2 DEF Adds
<1>5. ASSUME NEW k \in 1..MaxSize, s.total_size < k, k <= u.total_size
      PROVE  What(u, k) \in V
  <2>0. k \in Nat OBVIOUS
  <2>1. CASE k <= t.total_size
    <3>1. What(t, k) \in V BY <1>5, <2>1 DEF Adds
    <3>2. What(u, k) = What(t, k) BY <1>5, <2>1 DEF Keeps
    <3> QED BY <3>1, <3>2
  <2>2. CASE t.total_size < k BY <1>5, <2>2 DEF Adds
  <2> QED BY <1>1, <2>0, <2>1, <2>2
<1>6. s.total_size <= u.total_size BY <1>1
<1> QED BY <1>3, <1>4, <1>5, <1>6 DEF Adds

(* The first loop. *)
LEMMA GrownIsStore ==
  ASSUME NEW s \in Stores, NEW n \in 0..MaxSize, NEW t, t = Grown(s, n)
  PROVE  /\ n <= s.total_size => t = s
         /\ s.total_size <= n => /\ t \in Stores /\ t.total_size = n
                                 /\ Keeps(s, t) /\ Adds(s, t, {Default})
<1> DEFINE Solves(g) == g = [k \in 0..MaxSize |->
                               IF k <= s.total_size THEN s ELSE Emplaced(g[k - 1], Default)]
<1>1. PICK size \in Nat : size = s.total_size /\ size <= MaxSize
  BY StoreFacts, VectorAssumption
<1>2. MaxSize \in Nat /\ Default \in Values BY VectorAssumption
<1>3. \A u \in Stores : u.total_size < MaxSize =>
        /\ Emplaced(u, Default) \in Stores
        /\ Emplaced(u, Default).total_size = u.total_size + 1
        /\ Keeps(u, Emplaced(u, Default)) /\ Adds(u, Emplaced(u, Default), {Default})
  BY <1>2, EmplacedIsStore
<1>4. PICK step : step = [u \in Stores |-> IF u.total_size < MaxSize
                                           THEN Emplaced(u, Default) ELSE u]
  OBVIOUS
<1>5. step \in [Stores -> Stores] BY <1>3, <1>4
<1>6a. PICK f : Iterates(f, Stores, s, step) BY <1>5, Iteration
<1>6. f \in [Nat -> Stores] /\ f[0] = s /\ \A m \in Nat : f[m + 1] = step[f[m]]
  BY <1>6a DEF Iterates
<1>7. \A m \in Nat : size + m <= MaxSize => f[m].total_size = size + m
  <2> DEFINE A == {m \in Nat : size + m <= MaxSize => f[m].total_size = size + m}
  <2>1. 0 \in A BY <1>1, <1>6
  <2>2. \A m \in Nat : m \in A => m + 1 \in A
    <3> TAKE m \in Nat
    <3> HAVE m \in A
    <3> SUFFICES ASSUME size + (m + 1) <= MaxSize
                 PROVE  f[m + 1].total_size = size + (m + 1)
      OBVIOUS
    <3>1. size + m <= MaxSize /\ size + m < MaxSize BY <1>1, <1>2
    <3>2. f[m].total_size = size + m /\ f[m] \in Stores BY <1>6, <3>1
    <3>3. f[m + 1] = Emplaced(f[m], Default) BY <1>4, <1>6, <3>1, <3>2
    <3>4. f[m + 1].total_size = (size + m) + 1 BY <1>3, <3>1, <3>2, <3>3
    <3> QED BY <1>1, <3>4
  <2> HIDE DEF A
  <2>3. \A m \in Nat : m \in A BY <2>1, <2>2, SetInduction
  <2> QED BY <2>3 DEF A
<1>8. \E g : Solves(g)
  <2>1. PICK F : F = [k \in 0..MaxSize |-> IF k <= size THEN s ELSE f[k - size]] OBVIOUS
  <2>2. ASSUME NEW k \in 0..MaxSize, ~(k <= size)
        PROVE  F[k] = Emplaced(F[k - 1], Default)
    <3>1. PICK m \in Nat : k = size + (m + 1) /\ k - 1 = size + m
      <4>1. k - (size + 1) \in Nat BY <1>1, <1>2, <2>2
      <4>2. k = size + ((k - (size + 1)) + 1) /\ k - 1 = size + (k - (size + 1))
        BY <1>1, <1>2, <2>2
      <4> QED BY <4>1, <4>2
    <3>2. F[k] = f[m + 1]
      <4>1. k - size = m + 1 BY <1>1, <3>1
      <4> QED BY <2>1, <2>2, <4>1
    <3>3. F[k - 1] = f[m]
      <4>1. k - 1 \in 0..MaxSize BY <1>1, <1>2, <3>1
      <4>2. CASE m = 0
        <5>1. k - 1 <= size BY <1>1, <3>1, <4>2
        <5>2. F[k - 1] = s BY <2>1, <4>1, <5>1
        <5> QED BY <1>6, <4>2, <5>2
      <4>3. CASE m # 0
        <5>1. ~(k - 1 <= size) /\ (k - 1) - size = m BY <1>1, <3>1, <4>3
        <5> QED BY <2>1, <4>1, <5>1
      <4> QED BY <4>2, <4>3
    <3>4. f[m].total_size = size + m /\ f[m] \in Stores /\ size + m < MaxSize
      BY <1>1, <1>2, <1>6, <1>7, <3>1
    <3>5. f[m + 1] = Emplaced(f[m], Default) BY <1>4, <1>6, <3>4
    <3> QED BY <3>2, <3>3, <3>5
  <2>3. \A k \in 0..MaxSize : F[k] = IF k <= size THEN s ELSE Emplaced(F[k - 1], Default)
    BY <2>1, <2>2
  <2>4. F = [k \in 0..MaxSize |-> F[k]] BY <2>1
  <2>5. Solves(F) BY <1>1, <2>3, <2>4
  <2> QED BY <2>5
<1>9. PICK g : g = CHOOSE x : Solves(x) OBVIOUS
<1>10. Solves(g) BY <1>8, <1>9
<1>11. t = g[n] BY <1>9 DEF Grown
<1>12. \A k \in 0..MaxSize : g[k] = IF k <= size THEN s ELSE Emplaced(g[k - 1], Default)
  BY <1>1, <1>10
<1> DEFINE Good(u, k) == /\ u \in Stores /\ u.total_size = k
                         /\ Keeps(s, u) /\ Adds(s, u, {Default})
           A == {m \in Nat : size + m <= MaxSize => Good(g[size + m], size + m)}
<1>13. 0 \in A
  <2>1. g[size + 0] = s BY <1>1, <1>2, <1>12
  <2> QED BY <1>1, <2>1, KeepsNothing
<1>14. \A m \in Nat : m \in A => m + 1 \in A
  <2> TAKE m \in Nat
  <2> HAVE m \in A
  <2> SUFFICES ASSUME size + (m + 1) <= MaxSize
               PROVE  Good(g[size + (m + 1)], size + (m + 1))
    OBVIOUS
  <2>1. PICK k \in 0..MaxSize : k = size + (m + 1) /\ k - 1 = size + m
    BY <1>1, <1>2
  <2>2. PICK u, w : u = g[k - 1] /\ w = g[k] OBVIOUS
  <2>3. Good(u, k - 1) BY <1>1, <1>2, <2>1, <2>2
  <2>4. w = Emplaced(u, Default) BY <1>1, <1>12, <2>1, <2>2
  <2>5. /\ w \in Stores /\ w.total_size = (k - 1) + 1 /\ Keeps(u, w) /\ Adds(u, w, {Default})
    <3>1. k - 1 < MaxSize BY <1>2
    <3>2. u \in Stores /\ u.total_size = k - 1 BY <2>3
    <3>3. u.total_size < MaxSize BY <3>1, <3>2
    <3> QED BY <1>3, <2>4, <3>2, <3>3
  <2>6. /\ s.total_size <= u.total_size /\ u.total_size <= w.total_size
        /\ w.total_size = k
    BY <1>1, <2>1, <2>3, <2>5
  <2>7. Keeps(s, w) BY <2>3, <2>5, <2>6, KeepsTwice
  <2>8. Adds(s, w, {Default}) BY <2>3, <2>5, AddsTwice
  <2> QED BY <2>1, <2>2, <2>5, <2>6, <2>7, <2>8
<1> HIDE DEF A
<1>15. \A m \in Nat : m \in A BY <1>13, <1>14, SetInduction
<1>16. n <= size => g[n] = s BY <1>12
<1>17. size <= n => Good(g[n], n)
  <2> SUFFICES ASSUME size <= n PROVE Good(g[n], n) OBVIOUS
  <2>1. n - size \in Nat /\ size + (n - size) = n /\ n <= MaxSize BY <1>1, <1>2
  <2>2. n - size \in A BY <1>15, <2>1
  <2> QED BY <2>1, <2>2 DEF A
<1> QED BY <1>1, <1>11, <1>16, <1>17

(* The second loop. *)
LEMMA ShrunkIsStore ==
  ASSUME NEW s \in Stores, NEW n \in 0..MaxSize, NEW t, t = Shrunk(s, n)
  PROVE  /\ s.total_size <= n => t = s
         /\ n <= s.total_size => t \in Stores /\ t.total_size = n /\ Keeps(s, t)
<1> DEFINE Solves(g) == g = [k \in 0..MaxSize |->
                               IF k >= s.total_size THEN s ELSE Popped(g[k + 1])]
<1>1. PICK size \in Nat : size = s.total_size /\ size <= MaxSize
  BY StoreFacts, VectorAssumption
<1>2. MaxSize \in Nat BY VectorAssumption
<1>3. \A u \in Stores : u.total_size > 0 =>
        /\ Popped(u) \in Stores /\ Popped(u).total_size = u.total_size - 1
        /\ Keeps(u, Popped(u))
  BY PoppedIsStore
<1>4. PICK step : step = [u \in Stores |-> IF u.total_size > 0 THEN Popped(u) ELSE u]
  OBVIOUS
<1>5. step \in [Stores -> Stores] BY <1>3, <1>4
<1>6a. PICK f : Iterates(f, Stores, s, step) BY <1>5, Iteration
<1>6. f \in [Nat -> Stores] /\ f[0] = s /\ \A m \in Nat : f[m + 1] = step[f[m]]
  BY <1>6a DEF Iterates
<1>7. \A m \in Nat : m <= size => f[m].total_size = size - m
  <2> DEFINE A == {m \in Nat : m <= size => f[m].total_size = size - m}
  <2>1. 0 \in A BY <1>1, <1>6
  <2>2. \A m \in Nat : m \in A => m + 1 \in A
    <3> TAKE m \in Nat
    <3> HAVE m \in A
    <3> SUFFICES ASSUME m + 1 <= size PROVE f[m + 1].total_size = size - (m + 1)
      OBVIOUS
    <3>1. m <= size /\ size - m > 0 BY <1>1
    <3>2. f[m].total_size = size - m /\ f[m] \in Stores BY <1>6, <3>1
    <3>3. f[m + 1] = Popped(f[m]) BY <1>4, <1>6, <3>1, <3>2
    <3>4. f[m + 1].total_size = (size - m) - 1 BY <1>3, <3>1, <3>2, <3>3
    <3> QED BY <1>1, <3>4
  <2> HIDE DEF A
  <2>3. \A m \in Nat : m \in A BY <2>1, <2>2, SetInduction
  <2> QED BY <2>3 DEF A
<1>8. \E g : Solves(g)
  <2>1. PICK F : F = [k \in 0..MaxSize |-> IF k >= size THEN s ELSE f[size - k]] OBVIOUS
  <2>2. ASSUME NEW k \in 0..MaxSize, ~(k >= size) PROVE F[k] = Popped(F[k + 1])
    <3>1. PICK m \in Nat : size - k = m + 1 /\ size - (k + 1) = m
      <4>1. size - (k + 1) \in Nat /\ size - k = (size - (k + 1)) + 1
        BY <1>1, <1>2, <2>2
      <4> QED BY <4>1
    <3>2. F[k] = f[m + 1] BY <2>1, <2>2, <3>1
    <3>3. F[k + 1] = f[m]
      <4>1. k + 1 \in 0..MaxSize BY <1>1, <1>2, <2>2
      <4>2. CASE m = 0
        <5>1. k + 1 >= size BY <1>1, <3>1, <4>1, <4>2
        <5>2. F[k + 1] = s BY <2>1, <4>1, <5>1
        <5> QED BY <1>6, <4>2, <5>2
      <4>3. CASE m # 0
        <5>1. ~(k + 1 >= size) BY <1>1, <3>1, <4>1, <4>3
        <5> QED BY <2>1, <3>1, <4>1, <5>1
      <4> QED BY <4>2, <4>3
    <3>4. m <= size /\ size - m > 0 BY <1>1, <1>2, <3>1
    <3>5. f[m].total_size = size - m /\ f[m] \in Stores BY <1>6, <1>7, <3>4
    <3>6. f[m + 1] = Popped(f[m]) BY <1>4, <1>6, <3>4, <3>5
    <3> QED BY <3>2, <3>3, <3>6
  <2>3. \A k \in 0..MaxSize : F[k] = IF k >= size THEN s ELSE Popped(F[k + 1])
    BY <2>1, <2>2
  <2>4. F = [k \in 0..MaxSize |-> F[k]] BY <2>1
  <2>5. Solves(F) BY <1>1, <2>3, <2>4
  <2> QED BY <2>5
<1>9. PICK g : g = CHOOSE x : Solves(x) OBVIOUS
<1>10. Solves(g) BY <1>8, <1>9
<1>11. t = g[n] BY <1>9 DEF Shrunk
<1>12. \A k \in 0..MaxSize : g[k] = IF k >= size THEN s ELSE Popped(g[k + 1])
  BY <1>1, <1>10
<1> DEFINE Good(u, k) == u \in Stores /\ u.total_size = k /\ Keeps(s, u)
           A == {m \in Nat : m <= size => Good(g[size - m], size - m)}
<1>13. 0 \in A
  <2>1. g[size - 0] = s BY <1>1, <1>2, <1>12
  <2> QED BY <1>1, <2>1, KeepsNothing
<1>14. \A m \in Nat : m \in A => m + 1 \in A
  <2> TAKE m \in Nat
  <2> HAVE m \in A
  <2> SUFFICES ASSUME m + 1 <= size PROVE Good(g[size - (m + 1)], size - (m + 1))
    OBVIOUS
  <2>1. PICK k \in 0..MaxSize : k = size - (m + 1) /\ k + 1 = size - m
    BY <1>1, <1>2
  <2>2. PICK u, w : u = g[k + 1] /\ w = g[k] OBVIOUS
  <2>3. Good(u, k + 1) BY <1>1, <1>2, <2>1, <2>2
  <2>4. w = Popped(u) BY <1>1, <1>12, <2>1, <2>2
  <2>5. w \in Stores /\ w.total_size = (k + 1) - 1 /\ Keeps(u, w)
    <3>1. k + 1 > 0 BY <1>2
    <3>2. u \in Stores /\ u.total_size = k + 1 BY <2>3
    <3>3. u.total_size > 0 BY <3>1, <3>2
    <3> QED BY <1>3, <2>4, <3>2, <3>3
  <2>6. /\ s.total_size >= u.total_size /\ u.total_size >= w.total_size
        /\ w.total_size = k
    BY <1>1, <2>1, <2>3, <2>5
  <2>7. Keeps(s, w) BY <2>3, <2>5, <2>6, KeepsTwice
  <2> QED BY <2>1, <2>2, <2>5, <2>6, <2>7
<1> HIDE DEF A
<1>15. \A m \in Nat : m \in A BY <1>13, <1>14, SetInduction
<1>16. size <= n => g[n] = s BY <1>1, <1>12
<1>17. n <= size => Good(g[n], n)
  <2> SUFFICES ASSUME n <= size PROVE Good(g[n], n) OBVIOUS
  <2>1. size - n \in Nat /\ size - (size - n) = n /\ size - n <= size BY <1>1, <1>2
  <2>2. size - n \in A BY <1>15, <2>1
  <2> QED BY <2>1, <2>2 DEF A
<1> QED BY <1>1, <1>11, <1>16, <1>17

(* resize: one of its loops runs. *)
LEMMA ResizedIsStore ==
  ASSUME NEW s \in Stores, NEW n \in 0..MaxSize, NEW t, t = Resized(s, n)
  PROVE  /\ t \in Stores /\ t.total_size = n /\ Keeps(s, t)
         /\ s.total_size <= n => Adds(s, t, {Default})
<1>1. s.total_size \in Nat /\ n \in Nat BY StoreFacts
<1>2. PICK u : u = Grown(s, n) OBVIOUS
<1>3. t = Shrunk(u, n) BY <1>2 DEF Resized
<1>4. CASE s.total_size <= n
  <2>1. u \in Stores /\ u.total_size = n /\ Keeps(s, u) /\ Adds(s, u, {Default})
    BY <1>2, <1>4, GrownIsStore
  <2>2. t = u BY <1>1, <1>3, <2>1, ShrunkIsStore
  <2> QED BY <2>1, <2>2
<1>5. CASE n < s.total_size
  <2>1. u = s BY <1>1, <1>2, <1>5, GrownIsStore
  <2> QED BY <1>1, <1>3, <1>5, <2>1, ShrunkIsStore
<1> QED BY <1>1, <1>4, <1>5

-----------------------------------------------------------------------------
(* The inductive invariant.  A vector that was moved from has whatever     *)
(* blocks the other one had, beside a size that need not fit them, but     *)
(* they are still its own and without gaps.                                *)
OneOwner(ent) ==
  \A v, w \in Vectors : \A i \in Indexes :
    ent[v][i] # NoBlock /\ ent[v][i] = ent[w][i] => v = w
AllOwned(ent, h) == \A b \in DOMAIN h : \E v \in Vectors : b \in Owned(ent[v])
NoGaps(e) ==
  \A i \in Indexes, k \in Indexes : k < i /\ e[i] # NoBlock => e[k] # NoBlock

VectorInv ==
  /\ status \in [Vectors -> {"dead", "alive", "moved"}]
  /\ entities \in [Vectors -> [Indexes -> Blocks \cup {NoBlock}]]
  /\ total_size \in [Vectors -> 0..MaxSize]
  /\ heap \in Heaps
  /\ OneOwner(entities)
  /\ AllOwned(entities, heap)
  /\ \A v \in Vectors : BlocksFit(entities[v], heap) /\ NoGaps(entities[v])
  /\ \A v \in Vectors : status[v] = "dead" =>
       entities[v] = [i \in Indexes |-> NoBlock] /\ total_size[v] = 0
  /\ \A v \in Vectors : status[v] = "alive" => Store(v) \in Stores
  /\ "alive" \notin lost

(* A vector in use has no gaps. *)
LEMMA StoreHasNoGaps == ASSUME NEW s \in Stores PROVE NoGaps(s.entities)
<1> SUFFICES ASSUME NEW i \in Indexes, NEW k \in Indexes, k < i, s.entities[i] # NoBlock
             PROVE  s.entities[k] # NoBlock
  BY DEF NoGaps
<1>1. /\ i \in Nat /\ k \in Nat /\ s.total_size \in Nat /\ i - 1 \in Nat
      /\ (i - 1) + 1 = i
  BY StoreFacts, MaxIndexFacts
<1>2. 2^(i - 1) <= s.total_size BY <1>1, StoreFacts DEF BlocksAreNeeded
<1>3. 2^k \in Nat /\ 2^(k + 1) = 2 * 2^k /\ 2^(i - 1) \in Nat
  BY <1>1, PowerIsPositive, PowerDoubles
<1>4. 2^k <= 2^(i - 1)
  <2>1. CASE k = i - 1 BY <1>3, <2>1
  <2>2. CASE k < i - 1
    <3>1. 2^(k + 1) <= 2^(i - 1) BY <1>1, <2>2, PowerGrows
    <3> QED BY <1>3, <3>1
  <2> QED BY <1>1, <2>1, <2>2
<1>5. 2^k <= s.total_size BY <1>1, <1>2, <1>3, <1>4
<1> QED BY <1>5, StoreFacts DEF BlocksSuffice

(* The blocks of two vectors. *)
LEMMA OwnersAreApart ==
  ASSUME VectorInv, NEW v \in Vectors, NEW w \in Vectors, v # w, NEW i \in Indexes,
         entities[w][i] # NoBlock
  PROVE  entities[w][i] \in DOMAIN heap \ Owned(entities[v])
<1>1. entities[w][i] \in DOMAIN heap /\ entities[w][i][1] = i
  BY DEF VectorInv, BlocksFit
<1>2. ASSUME NEW l \in Indexes, entities[v][l] # NoBlock PROVE entities[v][l] # entities[w][i]
  <2>1. entities[v][l][1] = l BY <1>2 DEF VectorInv, BlocksFit
  <2>2. CASE l = i BY <2>2 DEF VectorInv, OneOwner
  <2> QED BY <1>1, <2>1, <2>2
<1> QED BY <1>1, <1>2 DEF Owned

(* A vector whose blocks are as they were is as it was. *)
LEMMA UntouchedIsStore ==
  ASSUME NEW s \in Stores, NEW h \in Heaps,
         \A i \in Indexes : s.entities[i] # NoBlock =>
           s.entities[i] \in DOMAIN h /\ h[s.entities[i]] = s.heap[s.entities[i]]
  PROVE  [entities |-> s.entities, total_size |-> s.total_size, heap |-> h] \in Stores
<1>1. BlocksFit(s.entities, h) BY StoreFacts DEF BlocksFit
<1>2. CellsAreFull(s.entities, s.total_size, h) BY StoreFacts DEF CellsAreFull
<1> QED BY <1>1, <1>2, StoreFacts DEF Stores

(* Removing blocks leaves a heap. *)
LEMMA FreedIsHeap ==
  ASSUME NEW h \in Heaps, NEW B, NEW g, g = Freed(h, B)
  PROVE  g \in Heaps /\ DOMAIN g = DOMAIN h \ B
<1>1. /\ DOMAIN h \subseteq Blocks /\ IsFiniteSet(DOMAIN h)
      /\ \A b \in DOMAIN h : h[b] \in Cells(b[1])
  BY HeapFacts
<1>2. PICK D : D = DOMAIN h \ B OBVIOUS
<1>3. /\ DOMAIN g = D /\ g = [b \in D |-> g[b]] /\ \A b \in D : g[b] = h[b]
  BY <1>2 DEF Freed
<1>4. D \in SUBSET Blocks /\ \A b \in D : g[b] \in Cells(b[1]) BY <1>1, <1>2, <1>3
<1>5. IsFiniteSet(D) BY <1>1, <1>2, FS_Subset
<1>6. g \in Heaps BY <1>3, <1>4, <1>5, IsHeap
<1> QED BY <1>2, <1>3, <1>6

-----------------------------------------------------------------------------
(* emplace_back, pop_back and resize. *)
LEMMA ChangeKeeps ==
  ASSUME VectorInv, NEW v \in Vectors, status[v] = "alive", NEW t \in Stores,
         Keeps(Store(v), t), Changes(v, t), UNCHANGED <<status, lost>>
  PROVE  VectorInv'
<1>1. /\ status \in [Vectors -> {"dead", "alive", "moved"}]
      /\ entities \in [Vectors -> [Indexes -> Blocks \cup {NoBlock}]]
      /\ total_size \in [Vectors -> 0..MaxSize] /\ heap \in Heaps
  BY DEF VectorInv
<1>2. /\ t = [entities |-> t.entities, total_size |-> t.total_size, heap |-> t.heap]
      /\ t.entities \in [Indexes -> Blocks \cup {NoBlock}] /\ t.total_size \in 0..MaxSize
      /\ t.heap \in Heaps /\ BlocksFit(t.entities, t.heap)
  BY StoreFacts
<1>3. /\ heap' = t.heap /\ entities'[v] = t.entities /\ total_size'[v] = t.total_size
      /\ entities' \in [Vectors -> [Indexes -> Blocks \cup {NoBlock}]]
      /\ total_size' \in [Vectors -> 0..MaxSize]
      /\ \A w \in Vectors : w # v => entities'[w] = entities[w] /\ total_size'[w] = total_size[w]
  BY <1>1, <1>2 DEF Changes
<1>4. ASSUME NEW w \in Vectors, w # v, NEW i \in Indexes, entities[w][i] # NoBlock
      PROVE  /\ entities[w][i] \in DOMAIN t.heap \ Owned(t.entities)
             /\ t.heap[entities[w][i]] = heap[entities[w][i]]
  <2>1. entities[w][i] \in DOMAIN heap \ Owned(entities[v]) BY <1>4, OwnersAreApart
  <2> QED BY <2>1 DEF Keeps, Store
<1>5. OneOwner(entities')
  <2> SUFFICES ASSUME NEW u \in Vectors, NEW w \in Vectors, NEW i \in Indexes,
                      entities'[u][i] # NoBlock, entities'[u][i] = entities'[w][i], u # w
               PROVE  FALSE
    BY DEF OneOwner
  <2>1. CASE u # v /\ w # v BY <1>3, <2>1 DEF VectorInv, OneOwner
  <2>2. CASE u = v
    <3>1. entities[w][i] \notin Owned(t.entities) BY <1>3, <1>4, <2>2
    <3> QED BY <1>3, <2>2, <3>1 DEF Owned
  <2>3. CASE w = v
    <3>1. entities[u][i] \notin Owned(t.entities) BY <1>3, <1>4, <2>3
    <3> QED BY <1>3, <2>3, <3>1 DEF Owned
  <2> QED BY <2>1, <2>2, <2>3
<1>6. AllOwned(entities', heap')
  <2> SUFFICES ASSUME NEW b \in DOMAIN t.heap
               PROVE  \E w \in Vectors : b \in Owned(entities'[w])
    BY <1>3 DEF AllOwned
  <2>1. CASE b \in Owned(t.entities) BY <1>3, <2>1
  <2>2. CASE b \notin Owned(t.entities)
    <3>1. b \in DOMAIN heap \ Owned(entities[v]) BY <2>2 DEF Keeps, Store
    <3>2. PICK w \in Vectors : b \in Owned(entities[w]) BY <3>1 DEF VectorInv, AllOwned
    <3> QED BY <1>3, <3>1, <3>2
  <2> QED BY <2>1, <2>2
<1>7. ASSUME NEW w \in Vectors
      PROVE  BlocksFit(entities'[w], heap') /\ NoGaps(entities'[w])
  <2>1. CASE w = v BY <1>2, <1>3, <2>1, StoreHasNoGaps
  <2>2. CASE w # v
    <3>1. BlocksFit(entities[w], heap) /\ NoGaps(entities[w]) BY DEF VectorInv
    <3>2. BlocksFit(entities[w], t.heap) BY <1>4, <2>2, <3>1 DEF BlocksFit
    <3> QED BY <1>3, <2>2, <3>1, <3>2
  <2> QED BY <2>1, <2>2
<1>8. ASSUME NEW w \in Vectors, status[w] = "alive" PROVE Store(w)' \in Stores
  <2>1. CASE w = v BY <1>2, <1>3, <2>1 DEF Store
  <2>2. CASE w # v
    <3>1. PICK s : s = Store(w) OBVIOUS
    <3>2. s \in Stores /\ s.entities = entities[w] /\ s.total_size = total_size[w]
          /\ s.heap = heap
      BY <1>8, <3>1 DEF VectorInv, Store
    <3>3. [entities |-> s.entities, total_size |-> s.total_size, heap |-> t.heap] \in Stores
      BY <1>2, <1>4, <2>2, <3>2, UntouchedIsStore
    <3> QED BY <1>3, <2>2, <3>2, <3>3 DEF Store
  <2> QED BY <2>1, <2>2
<1>9. ASSUME NEW w \in Vectors, status[w] = "dead"
      PROVE  entities'[w] = [i \in Indexes |-> NoBlock] /\ total_size'[w] = 0
  BY <1>3, <1>9 DEF VectorInv
<1>10. status' = status /\ lost' = lost OBVIOUS
<1> QED BY <1>1, <1>2, <1>3, <1>5, <1>6, <1>7, <1>8, <1>9, <1>10 DEF VectorInv

(* Moves. *)
LEMMA MoveKeeps ==
  ASSUME VectorInv, NEW v \in Vectors, NEW w \in Vectors, v # w, status[w] = "alive",
         SwapEntities(v, w), UNCHANGED <<heap, lost>>,
         status' = [status EXCEPT ![v] = "alive", ![w] = "moved"],
         total_size' \in [Vectors -> 0..MaxSize], total_size'[v] = total_size[w],
         \A u \in Vectors : u # v /\ u # w => total_size'[u] = total_size[u]
  PROVE  VectorInv'
<1>1. /\ status \in [Vectors -> {"dead", "alive", "moved"}]
      /\ entities \in [Vectors -> [Indexes -> Blocks \cup {NoBlock}]] /\ heap \in Heaps
  BY DEF VectorInv
<1>2. /\ entities' \in [Vectors -> [Indexes -> Blocks \cup {NoBlock}]]
      /\ entities'[v] = entities[w] /\ entities'[w] = entities[v]
      /\ \A u \in Vectors : u # v /\ u # w => entities'[u] = entities[u]
  BY <1>1 DEF SwapEntities
<1>3. /\ status' \in [Vectors -> {"dead", "alive", "moved"}]
      /\ status'[v] = "alive" /\ status'[w] = "moved"
      /\ \A u \in Vectors : u # v /\ u # w => status'[u] = status[u]
  BY <1>1
<1>4. OneOwner(entities')
  <2> SUFFICES ASSUME NEW x \in Vectors, NEW y \in Vectors, NEW i \in Indexes,
                      entities'[x][i] # NoBlock, entities'[x][i] = entities'[y][i]
               PROVE  x = y
    BY DEF OneOwner
  <2> DEFINE from(u) == IF u = v THEN w ELSE IF u = w THEN v ELSE u
  <2>1. \A u \in Vectors : from(u) \in Vectors /\ entities'[u] = entities[from(u)]
    BY <1>2
  <2>2. from(x) = from(y)
    <3> HIDE DEF from
    <3> QED BY <2>1 DEF VectorInv, OneOwner
  <2> QED BY <2>2
<1>5. AllOwned(entities', heap')
  <2> SUFFICES ASSUME NEW b \in DOMAIN heap
               PROVE  \E u \in Vectors : b \in Owned(entities'[u])
    BY DEF AllOwned
  <2>1. PICK u \in Vectors : b \in Owned(entities[u]) BY DEF VectorInv, AllOwned
  <2>2. CASE u = v BY <1>2, <2>1, <2>2
  <2>3. CASE u = w BY <1>2, <2>1, <2>3
  <2>4. CASE u # v /\ u # w BY <1>2, <2>1, <2>4
  <2> QED BY <2>2, <2>3, <2>4
<1>6. \A u \in Vectors : BlocksFit(entities'[u], heap') /\ NoGaps(entities'[u])
  BY <1>2 DEF VectorInv
<1>7. ASSUME NEW u \in Vectors, status'[u] = "dead"
      PROVE  entities'[u] = [i \in Indexes |-> NoBlock] /\ total_size'[u] = 0
  <2>1. u # v /\ u # w BY <1>3, <1>7
  <2> QED BY <1>2, <1>3, <1>7, <2>1 DEF VectorInv
<1>8. ASSUME NEW u \in Vectors, status'[u] = "alive" PROVE Store(u)' \in Stores
  <2>1. CASE u = v
    <3>1. Store(w) \in Stores BY DEF VectorInv
    <3>2. Store(u)' = Store(w) BY <1>2, <2>1 DEF Store
    <3> QED BY <3>1, <3>2
  <2>2. CASE u # v
    <3>1. u # w /\ status[u] = "alive" BY <1>3, <1>8, <2>2
    <3>2. Store(u)' = Store(u) BY <1>2, <2>2, <3>1 DEF Store
    <3> QED BY <3>1, <3>2 DEF VectorInv
  <2> QED BY <2>1, <2>2
<1>9. heap' = heap /\ lost' = lost OBVIOUS
<1>10. heap' \in Heaps /\ "alive" \notin lost' BY <1>9 DEF VectorInv
<1> QED BY <1>2, <1>3, <1>4, <1>5, <1>6, <1>7, <1>8, <1>10 DEF VectorInv

(* The destructor reaches all blocks. *)
LEMMA AllAreReached ==
  ASSUME VectorInv, NEW v \in Vectors
  PROVE  /\ Reached(v) = {i \in Indexes : entities[v][i] # NoBlock}
         /\ {entities[v][i] : i \in Reached(v)} = Owned(entities[v])
<1>1. NoGaps(entities[v]) BY DEF VectorInv
<1>2. \A i \in Indexes : i \in 0..i /\ \A k \in 0..i : k \in Indexes /\ (k < i \/ k = i)
  BY MaxIndexFacts
<1>3. Reached(v) = {i \in Indexes : entities[v][i] # NoBlock}
  BY <1>1, <1>2 DEF Reached, NoGaps
<1> QED BY <1>3 DEF Owned

(* The destructor of a vector in use destroys all elements. *)
LEMMA NothingIsLost ==
  ASSUME VectorInv, NEW v \in Vectors, status[v] = "alive", Destroy(v)
  PROVE  lost' = lost
<1>1. Store(v) \in Stores /\ total_size[v] \in Nat
  BY VectorAssumption DEF VectorInv
<1>2. CellsAreFull(entities[v], total_size[v], heap) BY <1>1, StoreFacts DEF Store
<1>3. ASSUME NEW i \in Reached(v), NEW j \in 0..(2^i - 1), heap[entities[v][i]][j] # Raw
      PROVE  j \in DestroyedCells(v, i)
  <2>1. i \in Indexes /\ entities[v][i] # NoBlock BY AllAreReached
  <2>2. i \in Nat /\ 2^i \in Nat BY <2>1, MaxIndexFacts, PowerIsPositive
  <2>3. j + 2^i <= total_size[v] BY <1>2, <1>3, <2>1 DEF CellsAreFull
  <2> QED BY <1>1, <2>2, <2>3 DEF DestroyedCells
<1> QED BY <1>3 DEF Destroy

(* The destructor frees the blocks of its vector and of no other. *)
LEMMA DestroyKeeps ==
  ASSUME VectorInv, NEW v \in Vectors, Destroy(v)
  PROVE  VectorInv'
<1>1. /\ status \in [Vectors -> {"dead", "alive", "moved"}]
      /\ entities \in [Vectors -> [Indexes -> Blocks \cup {NoBlock}]]
      /\ total_size \in [Vectors -> 0..MaxSize] /\ heap \in Heaps /\ MaxSize \in Nat
  BY VectorAssumption DEF VectorInv
<1>2. heap' = Freed(heap, Owned(entities[v])) BY AllAreReached DEF Destroy
<1>3. /\ heap' \in Heaps /\ DOMAIN heap' = DOMAIN heap \ Owned(entities[v])
      /\ \A b \in DOMAIN heap' : heap'[b] = heap[b]
  <2>1. PICK B, g : B = Owned(entities[v]) /\ g = Freed(heap, B) OBVIOUS
  <2>2. g \in Heaps BY <1>1, <2>1, FreedIsHeap
  <2>3. DOMAIN g = DOMAIN heap \ B BY <1>1, <2>1, FreedIsHeap
  <2>4. \A b \in DOMAIN g : g[b] = heap[b] BY <2>1, <2>3 DEF Freed
  <2> QED BY <1>2, <2>1, <2>2, <2>3, <2>4
<1>4. /\ entities' \in [Vectors -> [Indexes -> Blocks \cup {NoBlock}]]
      /\ entities'[v] = [i \in Indexes |-> NoBlock]
      /\ \A u \in Vectors : u # v => entities'[u] = entities[u]
  BY <1>1 DEF Destroy
<1>5. /\ total_size' \in [Vectors -> 0..MaxSize] /\ total_size'[v] = 0
      /\ \A u \in Vectors : u # v => total_size'[u] = total_size[u]
      /\ status' \in [Vectors -> {"dead", "alive", "moved"}] /\ status'[v] = "dead"
      /\ \A u \in Vectors : u # v => status'[u] = status[u]
  BY <1>1 DEF Destroy
<1>6. \A i \in Indexes : entities'[v][i] = NoBlock BY <1>4
<1>7. ASSUME NEW u \in Vectors, u # v, NEW i \in Indexes, entities[u][i] # NoBlock
      PROVE  entities[u][i] \in DOMAIN heap' /\ heap'[entities[u][i]] = heap[entities[u][i]]
  <2>1. entities[u][i] \in DOMAIN heap \ Owned(entities[v]) BY <1>7, OwnersAreApart
  <2> QED BY <1>3, <2>1
<1>8. OneOwner(entities')
  <2> SUFFICES ASSUME NEW x \in Vectors, NEW y \in Vectors, NEW i \in Indexes,
                      entities'[x][i] # NoBlock, entities'[x][i] = entities'[y][i]
               PROVE  x = y
    BY DEF OneOwner
  <2>1. x # v /\ y # v BY <1>6
  <2> QED BY <1>4, <2>1 DEF VectorInv, OneOwner
<1>9. AllOwned(entities', heap')
  <2> SUFFICES ASSUME NEW b \in DOMAIN heap'
               PROVE  \E u \in Vectors : b \in Owned(entities'[u])
    BY DEF AllOwned
  <2>1. b \in DOMAIN heap /\ b \notin Owned(entities[v]) BY <1>3
  <2>2. PICK u \in Vectors : b \in Owned(entities[u]) BY <2>1 DEF VectorInv, AllOwned
  <2> QED BY <1>4, <2>1, <2>2
<1>10. ASSUME NEW u \in Vectors
       PROVE  BlocksFit(entities'[u], heap') /\ NoGaps(entities'[u])
  <2>1. CASE u = v BY <1>6, <2>1 DEF BlocksFit, NoGaps
  <2>2. CASE u # v
    <3>1. BlocksFit(entities[u], heap) /\ NoGaps(entities[u]) BY DEF VectorInv
    <3>2. BlocksFit(entities[u], heap') BY <1>7, <2>2, <3>1 DEF BlocksFit
    <3> QED BY <1>4, <2>2, <3>1, <3>2
  <2> QED BY <2>1, <2>2
<1>11. ASSUME NEW u \in Vectors, status'[u] = "dead"
       PROVE  entities'[u] = [i \in Indexes |-> NoBlock] /\ total_size'[u] = 0
  <2>1. CASE u = v BY <1>4, <1>5, <2>1
  <2>2. CASE u # v
    <3>1. /\ entities[u] = [i \in Indexes |-> NoBlock] /\ total_size[u] = 0
      BY <1>5, <1>11, <2>2 DEF VectorInv
    <3> QED BY <1>4, <1>5, <2>2, <3>1
  <2> QED BY <2>1, <2>2
<1>12. ASSUME NEW u \in Vectors, status'[u] = "alive" PROVE Store(u)' \in Stores
  <2>1. u # v /\ status[u] = "alive" BY <1>5, <1>12
  <2>2. PICK s : s = Store(u) OBVIOUS
  <2>3. s \in Stores /\ s.entities = entities[u] /\ s.total_size = total_size[u]
        /\ s.heap = heap
    BY <2>1, <2>2 DEF VectorInv, Store
  <2>4. PICK h : h = heap' OBVIOUS
  <2>5. [entities |-> s.entities, total_size |-> s.total_size, heap |-> h] \in Stores
    BY <1>3, <1>7, <2>1, <2>3, <2>4, UntouchedIsStore
  <2> QED BY <1>4, <1>5, <2>1, <2>3, <2>4, <2>5 DEF Store
<1>13. "alive" \notin lost'
  <2>1. "alive" \notin lost BY DEF VectorInv
  <2>2. CASE status[v] = "alive" BY <2>1, <2>2, NothingIsLost
  <2>3. CASE status[v] # "alive" BY <2>1, <2>3 DEF Destroy
  <2> QED BY <2>2, <2>3
<1> QED BY <1>3, <1>4, <1>5, <1>8, <1>9, <1>10, <1>11, <1>12, <1>13 DEF VectorInv

(* A constructor. *)
LEMMA EmptyIsStore ==
  ASSUME NEW h \in Heaps
  PROVE  [entities |-> [i \in Indexes |-> NoBlock], total_size |-> 0, heap |-> h] \in Stores
<1>1. PICK e : e = [i \in Indexes |-> NoBlock] OBVIOUS
<1>2. e \in [Indexes -> Blocks \cup {NoBlock}] /\ \A i \in Indexes : e[i] = NoBlock BY <1>1
<1>3. BlocksSuffice(e, 0) BY MaxIndexFacts, PowerIsPositive DEF BlocksSuffice
<1>4. BlocksFit(e, h) /\ BlocksAreNeeded(e, 0) /\ CellsAreFull(e, 0, h)
  BY <1>2 DEF BlocksFit, BlocksAreNeeded, CellsAreFull
<1>5. 0 \in 0..MaxSize BY VectorAssumption
<1> QED BY <1>1, <1>2, <1>3, <1>4, <1>5 DEF Stores

(* A new vector is empty and has no block. *)
LEMMA ConstructKeeps ==
  ASSUME VectorInv, NEW v \in Vectors, Construct(v)
  PROVE  VectorInv'
<1>1. /\ status' = [status EXCEPT ![v] = "alive"] /\ status[v] = "dead"
      /\ UNCHANGED <<entities, total_size, heap, lost>>
  BY DEF Construct
<1>2. /\ status' \in [Vectors -> {"dead", "alive", "moved"}] /\ status'[v] = "alive"
      /\ \A u \in Vectors : u # v => status'[u] = status[u]
  BY <1>1 DEF VectorInv
<1>3. ASSUME NEW u \in Vectors, status'[u] = "alive" PROVE Store(u)' \in Stores
  <2>1. Store(u)' = Store(u) BY <1>1 DEF Store
  <2>2. CASE u = v
    <3>1. entities[v] = [i \in Indexes |-> NoBlock] /\ total_size[v] = 0 /\ heap \in Heaps
      BY <1>1 DEF VectorInv
    <3> QED BY <2>1, <2>2, <3>1, EmptyIsStore DEF Store
  <2>3. CASE u # v BY <1>2, <1>3, <2>1, <2>3 DEF VectorInv
  <2> QED BY <2>2, <2>3
<1>4. ASSUME NEW u \in Vectors, status'[u] = "dead"
      PROVE  entities'[u] = [i \in Indexes |-> NoBlock] /\ total_size'[u] = 0
  BY <1>1, <1>2, <1>4 DEF VectorInv
<1> QED BY <1>1, <1>2, <1>3, <1>4 DEF VectorInv

(* There are no vectors and no blocks at first. *)
LEMMA InitHolds == Init => VectorInv
<1> SUFFICES ASSUME Init PROVE VectorInv OBVIOUS
<1>1. /\ \A v \in Vectors : /\ status[v] = "dead" /\ total_size[v] = 0
                            /\ entities[v] = [i \in Indexes |-> NoBlock]
      /\ heap = << >> /\ lost = {}
  BY DEF Init
<1>2. \A v \in Vectors, i \in Indexes : entities[v][i] = NoBlock BY <1>1
<1>3. heap \in Heaps /\ DOMAIN heap = {} BY <1>1, EmptyHeap
<1>4. /\ status \in [Vectors -> {"dead", "alive", "moved"}]
      /\ entities \in [Vectors -> [Indexes -> Blocks \cup {NoBlock}]]
      /\ total_size \in [Vectors -> 0..MaxSize]
  BY VectorAssumption DEF Init
<1>5. OneOwner(entities) /\ AllOwned(entities, heap)
  BY <1>2, <1>3 DEF OneOwner, AllOwned
<1>6. \A v \in Vectors : BlocksFit(entities[v], heap) /\ NoGaps(entities[v])
  BY <1>2 DEF BlocksFit, NoGaps
<1> QED BY <1>1, <1>3, <1>4, <1>5, <1>6 DEF VectorInv

(* What the operations that change one vector make of it. *)
LEMMA OperationsAreChanges ==
  ASSUME VectorInv, NEW v \in Vectors, status[v] = "alive", NEW s, s = Store(v)
  PROVE  /\ \A x \in Values : EmplaceBack(v, x) =>
              \E t \in Stores : /\ Changes(v, t) /\ UNCHANGED <<status, lost>>
                                /\ Keeps(s, t) /\ Adds(s, t, {x})
                                /\ t.total_size = s.total_size + 1
                                /\ s.total_size < MaxSize
         /\ PopBack(v) =>
              \E t \in Stores : /\ Changes(v, t) /\ UNCHANGED <<status, lost>>
                                /\ Keeps(s, t) /\ t.total_size = s.total_size - 1
                                /\ s.total_size > 0
         /\ \A n \in 0..MaxSize : Resize(v, n) =>
              \E t \in Stores : /\ Changes(v, t) /\ UNCHANGED <<status, lost>>
                                /\ Keeps(s, t) /\ t.total_size = n
                                /\ s.total_size <= n => Adds(s, t, {Default})
<1>1. s \in Stores /\ s.total_size = total_size[v] BY DEF VectorInv, Store
<1>2. ASSUME NEW x \in Values, EmplaceBack(v, x)
      PROVE  \E t \in Stores : /\ Changes(v, t) /\ UNCHANGED <<status, lost>>
                               /\ Keeps(s, t) /\ Adds(s, t, {x})
                               /\ t.total_size = s.total_size + 1
                               /\ s.total_size < MaxSize
  <2>1. PICK t : t = Emplaced(s, x) OBVIOUS
  <2>2. Changes(v, t) /\ UNCHANGED <<status, lost>> /\ s.total_size < MaxSize
    BY <1>1, <1>2, <2>1 DEF EmplaceBack
  <2> QED BY <1>1, <2>1, <2>2, EmplacedIsStore
<1>3. ASSUME PopBack(v)
      PROVE  \E t \in Stores : /\ Changes(v, t) /\ UNCHANGED <<status, lost>>
                               /\ Keeps(s, t) /\ t.total_size = s.total_size - 1
                               /\ s.total_size > 0
  <2>1. PICK t : t = Popped(s) OBVIOUS
  <2>2. Changes(v, t) /\ UNCHANGED <<status, lost>> /\ s.total_size > 0
    BY <1>1, <1>3, <2>1 DEF PopBack
  <2> QED BY <1>1, <2>1, <2>2, PoppedIsStore
<1>4. ASSUME NEW n \in 0..MaxSize, Resize(v, n)
      PROVE  \E t \in Stores : /\ Changes(v, t) /\ UNCHANGED <<status, lost>>
                               /\ Keeps(s, t) /\ t.total_size = n
                               /\ s.total_size <= n => Adds(s, t, {Default})
  <2>1. PICK t : t = Resized(s, n) OBVIOUS
  <2>2. Changes(v, t) /\ UNCHANGED <<status, lost>> BY <1>4, <2>1 DEF Resize
  <2> QED BY <1>1, <2>1, <2>2, ResizedIsStore
<1> QED BY <1>2, <1>3, <1>4

(* Every operation keeps the invariant. *)
LEMMA NextKeeps == VectorInv /\ [Next]_vars => VectorInv'
<1> SUFFICES ASSUME VectorInv, [Next]_vars PROVE VectorInv' OBVIOUS
<1>1. CASE UNCHANGED vars BY <1>1 DEF vars, VectorInv, Store
<1>2. ASSUME NEW v \in Vectors, Construct(v) PROVE VectorInv' BY <1>2, ConstructKeeps
<1>3. ASSUME NEW v \in Vectors, Destroy(v) PROVE VectorInv' BY <1>3, DestroyKeeps
<1>4. ASSUME NEW v \in Vectors, PopBack(v) PROVE VectorInv'
  <2>1. status[v] = "alive" BY <1>4 DEF PopBack
  <2> QED BY <1>4, <2>1, OperationsAreChanges, ChangeKeeps
<1>5. ASSUME NEW v \in Vectors, NEW x \in Values, EmplaceBack(v, x) PROVE VectorInv'
  <2>1. status[v] = "alive" BY <1>5 DEF EmplaceBack
  <2> QED BY <1>5, <2>1, OperationsAreChanges, ChangeKeeps
<1>6. ASSUME NEW v \in Vectors, NEW n \in 0..MaxSize, Resize(v, n) PROVE VectorInv'
  <2>1. status[v] = "alive" BY <1>6 DEF Resize
  <2> QED BY <1>6, <2>1, OperationsAreChanges, ChangeKeeps
<1>7. ASSUME NEW v \in Vectors, NEW w \in Vectors, MoveConstruct(v, w) PROVE VectorInv'
  <2>1. v # w /\ status[w] = "alive" BY <1>7 DEF MoveConstruct
  <2>2. /\ total_size' \in [Vectors -> 0..MaxSize] /\ total_size'[v] = total_size[w]
        /\ \A u \in Vectors : u # v /\ u # w => total_size'[u] = total_size[u]
    BY <1>7 DEF MoveConstruct, VectorInv
  <2> QED BY <1>7, <2>1, <2>2, MoveKeeps DEF MoveConstruct
<1>8. ASSUME NEW v \in Vectors, NEW w \in Vectors, MoveAssign(v, w) PROVE VectorInv'
  <2>1. v # w /\ status[w] = "alive" BY <1>8 DEF MoveAssign
  <2>2. /\ total_size' \in [Vectors -> 0..MaxSize] /\ total_size'[v] = total_size[w]
        /\ \A u \in Vectors : u # v /\ u # w => total_size'[u] = total_size[u]
    BY <1>8, <2>1, VectorAssumption DEF MoveAssign, VectorInv
  <2> QED BY <1>8, <2>1, <2>2, MoveKeeps DEF MoveAssign
<1> QED BY <1>1, <1>2, <1>3, <1>4, <1>5, <1>6, <1>7, <1>8 DEF Next

(* The invariant holds in every state. *)
LEMMA InvariantHolds == Spec => []VectorInv
BY InitHolds, NextKeeps, PTL DEF Spec

-----------------------------------------------------------------------------
(* An element of a vector in use is in a block of the vector, and no other *)
(* element of the vector is there.                                         *)
LEMMA ElementIsThere ==
  ASSUME NEW s \in Stores, NEW k \in 1..MaxSize, k <= s.total_size,
         NEW i, i = Index(k), NEW j, j = InternalIndex(k)
  PROVE  /\ i \in Indexes /\ j \in 0..(2^i - 1) /\ j + 2^i = k
         /\ s.entities[i] # NoBlock /\ s.entities[i] \in DOMAIN s.heap
         /\ s.entities[i][1] = i /\ s.heap[s.entities[i]][j] # Raw
<1>1. /\ s.total_size \in Nat /\ BlocksSuffice(s.entities, s.total_size)
      /\ BlocksFit(s.entities, s.heap) /\ CellsAreFull(s.entities, s.total_size, s.heap)
  BY StoreFacts
<1>2. /\ i \in Indexes /\ j \in 0..(2^i - 1) /\ j + 2^i = k /\ 2^i <= k /\ 2^i \in Nat
      /\ k \in Nat
  BY IndexFacts, MaxIndexFacts, PowerIsPositive
<1>3. 2^i <= s.total_size BY <1>1, <1>2
<1>4. s.entities[i] # NoBlock BY <1>1, <1>2, <1>3 DEF BlocksSuffice
<1>5. s.entities[i] \in DOMAIN s.heap /\ s.entities[i][1] = i
  BY <1>1, <1>2, <1>4 DEF BlocksFit
<1>6. s.heap[s.entities[i]][j] # Raw BY <1>1, <1>2, <1>4 DEF CellsAreFull
<1> QED BY <1>2, <1>4, <1>5, <1>6

(* A cell holds one element: equal blocks have equal indexes. *)
LEMMA SameCellSameElement ==
  ASSUME NEW k \in 1..MaxSize, NEW m \in 1..MaxSize, Index(k) = Index(m),
         InternalIndex(k) = InternalIndex(m)
  PROVE  k = m
<1>1. InternalIndex(k) + 2^Index(k) = k /\ InternalIndex(m) + 2^Index(m) = m
  BY IndexFacts
<1> QED BY <1>1

(* Where an element of a vector is. *)
LEMMA ElementFacts ==
  ASSUME VectorInv, NEW v \in Vectors, NEW n \in 0..(MaxSize - 1), status[v] = "alive",
         n < total_size[v], NEW k, k = n + 1, NEW i, i = Index(k),
         NEW j, j = InternalIndex(k)
  PROVE  /\ k \in 1..MaxSize /\ k <= total_size[v] /\ i \in Indexes
         /\ Address(v, n) = <<entities[v][i], j>>
         /\ entities[v][i] # NoBlock /\ entities[v][i] \in DOMAIN heap
         /\ entities[v][i][1] = i /\ At(v, n) # Raw
<1>1. PICK s : s = Store(v) OBVIOUS
<1>2. /\ s \in Stores /\ s.entities = entities[v] /\ s.heap = heap
      /\ s.total_size = total_size[v]
  BY <1>1 DEF VectorInv, Store
<1>3. total_size[v] \in Nat /\ MaxSize \in Nat BY VectorAssumption DEF VectorInv
<1>4. k \in 1..MaxSize /\ k <= total_size[v] BY <1>3
<1>5. /\ i \in Indexes /\ s.entities[i] # NoBlock /\ s.entities[i] \in DOMAIN s.heap
      /\ s.entities[i][1] = i /\ s.heap[s.entities[i]][j] # Raw
  BY <1>2, <1>4, ElementIsThere
<1>6. Address(v, n) = <<entities[v][i], j>> /\ At(v, n) = heap[entities[v][i]][j]
  BY DEF Address, At
<1> QED BY <1>2, <1>4, <1>5, <1>6

(* Every element is constructed in an allocated block, and no two share a  *)
(* cell, for any number of vectors that grow, shrink and take over each    *)
(* other's blocks.                                                         *)
THEOREM CellsAreNotShared == Spec => []ElementsAreApart
<1>1. ASSUME VectorInv PROVE ElementsAreApart
  <2>1. ASSUME NEW e \in Elements
        PROVE  /\ e[1] \in Vectors /\ e[2] \in 0..(MaxSize - 1) /\ e = <<e[1], e[2]>>
               /\ status[e[1]] = "alive" /\ e[2] < total_size[e[1]]
    BY <2>1 DEF Elements
  <2>2. ASSUME NEW e \in Elements
        PROVE  AddressOf(e)[1] \in DOMAIN heap /\ At(e[1], e[2]) # Raw
    BY <1>1, <2>1, ElementFacts DEF AddressOf
  <2>3. ASSUME NEW e \in Elements, NEW f \in Elements, AddressOf(e) = AddressOf(f)
        PROVE  e = f
    <3>1. PICK v, w, k, m : v = e[1] /\ w = f[1] /\ k = e[2] + 1 /\ m = f[2] + 1
      OBVIOUS
    <3>2. /\ k \in 1..MaxSize /\ Index(k) \in Indexes
          /\ AddressOf(e) = <<entities[v][Index(k)], InternalIndex(k)>>
          /\ entities[v][Index(k)] # NoBlock /\ entities[v][Index(k)][1] = Index(k)
      BY <1>1, <2>1, <3>1, ElementFacts DEF AddressOf
    <3>3. /\ m \in 1..MaxSize
          /\ AddressOf(f) = <<entities[w][Index(m)], InternalIndex(m)>>
          /\ entities[w][Index(m)][1] = Index(m)
      BY <1>1, <2>1, <3>1, ElementFacts DEF AddressOf
    <3>4. /\ entities[v][Index(k)] = entities[w][Index(m)]
          /\ InternalIndex(k) = InternalIndex(m)
      <4>1. PICK b, c, i, j : /\ b = entities[v][Index(k)] /\ c = entities[w][Index(m)]
                              /\ i = InternalIndex(k) /\ j = InternalIndex(m)
        OBVIOUS
      <4>2. <<b, i>> = <<c, j>> BY <2>3, <3>2, <3>3, <4>1
      <4> QED BY <4>1, <4>2
    <3>5. Index(k) = Index(m) BY <3>2, <3>3, <3>4
    <3>6. k = m BY <3>2, <3>3, <3>4, <3>5, SameCellSameElement
    <3>7. v = w BY <1>1, <2>1, <3>1, <3>2, <3>4, <3>5 DEF VectorInv, OneOwner
    <3>8. e[2] = f[2] BY <2>1, <3>1, <3>6
    <3> QED BY <2>1, <3>1, <3>7, <3>8
  <2> QED BY <2>2, <2>3 DEF ElementsAreApart
<1> QED BY <1>1, InvariantHolds, PTL

(* No memory leaks and none is freed twice: every block has one owner,     *)
(* whose destructor reaches it although it stops at the first null block.  *)
THEOREM MemoryIsOwned == Spec => []BlocksAreReached
<1>1. ASSUME VectorInv PROVE BlocksAreReached
  <2>1. ASSUME NEW v \in Vectors, NEW i \in Indexes, entities[v][i] # NoBlock
        PROVE  DOMAIN heap[entities[v][i]] = 0..(2^i - 1)
    <3>1. entities[v][i] \in DOMAIN heap /\ entities[v][i][1] = i /\ heap \in Heaps
      BY <1>1, <2>1 DEF VectorInv, BlocksFit
    <3>2. heap[entities[v][i]] \in Cells(i) BY <3>1, HeapFacts
    <3> QED BY <3>2 DEF Cells
  <2>2. ASSUME NEW b \in DOMAIN heap
        PROVE  Cardinality({o \in Vectors \X Indexes : /\ entities[o[1]][o[2]] = b
                                                       /\ o[2] \in Reached(o[1])}) = 1
    <3>1. PICK v \in Vectors : b \in Owned(entities[v])
      BY <1>1 DEF VectorInv, AllOwned
    <3>2. PICK i \in Indexes : entities[v][i] = b /\ b # NoBlock BY <3>1 DEF Owned
    <3>3. \A o \in Vectors \X Indexes :
            entities[o[1]][o[2]] = b /\ o[2] \in Reached(o[1]) <=> o = <<v, i>>
      <4> TAKE o \in Vectors \X Indexes
      <4>1. PICK w \in Vectors, l \in Indexes : o = <<w, l>> OBVIOUS
      <4>2. o[1] = w /\ o[2] = l BY <4>1
      <4>3. i \in Reached(v) BY <1>1, <3>2, AllAreReached
      <4>4. ASSUME entities[w][l] = b PROVE w = v /\ l = i
        <5>1. b[1] = l /\ b[1] = i
          BY <1>1, <3>2, <4>4 DEF VectorInv, BlocksFit
        <5> QED BY <1>1, <3>2, <4>4, <5>1 DEF VectorInv, OneOwner
      <4> QED BY <3>2, <4>1, <4>2, <4>3, <4>4
    <3>4. <<v, i>> \in Vectors \X Indexes OBVIOUS
    <3>5. {o \in Vectors \X Indexes : /\ entities[o[1]][o[2]] = b
                                      /\ o[2] \in Reached(o[1])} = {<<v, i>>}
      BY <3>3, <3>4, Zenon
    <3> QED BY <3>5, FS_Singleton
  <2> QED BY <2>1, <2>2 DEF BlocksAreReached
<1> QED BY <1>1, InvariantHolds, PTL

(* pop_back frees enough: a vector in use has at most one block more than  *)
(* its elements need.                                                      *)
THEOREM AtMostOneSpare == Spec => []OneSpareBlock
<1>1. ASSUME VectorInv PROVE OneSpareBlock
  <2> SUFFICES ASSUME NEW v \in Vectors, NEW i \in Indexes, status[v] = "alive",
                      entities[v][i] # NoBlock
               PROVE  i <= (IF total_size[v] = 0 THEN 0 ELSE Index(total_size[v]) + 1)
    BY DEF OneSpareBlock
  <2>1. PICK n : n = total_size[v] OBVIOUS
  <2>2. n \in 0..MaxSize /\ n \in Nat /\ MaxSize \in Nat /\ i \in Nat
    BY <1>1, <2>1, VectorAssumption, MaxIndexFacts DEF VectorInv
  <2>3. BlocksAreNeeded(entities[v], n)
    <3>1. Store(v) \in Stores BY <1>1 DEF VectorInv
    <3> QED BY <2>1, <3>1, StoreFacts DEF Store
  <2>4. i = 0 \/ 2^(i - 1) <= n BY <2>3 DEF BlocksAreNeeded
  <2>5. CASE i = 0
    <3>1. n # 0 => Index(n) + 1 \in Nat BY <2>2, IndexFacts, MaxIndexFacts
    <3> QED BY <2>1, <2>2, <2>5, <3>1
  <2>6. CASE i # 0
    <3>1. i - 1 \in Nat /\ 2^(i - 1) \in Nat \ {0} BY <2>2, <2>6, PowerIsPositive
    <3>2. n \in 1..MaxSize BY <2>2, <2>4, <2>6, <3>1
    <3>3. Index(n) \in Nat /\ n < 2^(Index(n) + 1) /\ 2^(Index(n) + 1) \in Nat
      BY <3>2, IndexFacts, MaxIndexFacts, PowerIsPositive
    <3>4. ~(Index(n) < i - 1)
      <4> SUFFICES ASSUME Index(n) < i - 1 PROVE FALSE OBVIOUS
      <4>1. 2^(Index(n) + 1) <= 2^(i - 1) BY <3>1, <3>3, PowerGrows
      <4> QED BY <2>2, <2>4, <2>6, <3>1, <3>3, <4>1
    <3> QED BY <2>1, <2>2, <3>1, <3>2, <3>3, <3>4
  <2> QED BY <2>5, <2>6
<1> QED BY <1>1, InvariantHolds, PTL

(* The cells of a vector in use hold elements exactly up to its size, and  *)
(* its destructor destroys them all.                                       *)
THEOREM NoElementIsLost == Spec => []ElementsAreDestroyed
<1>1. ASSUME VectorInv PROVE ElementsAreDestroyed
  <2>1. ASSUME NEW v \in Vectors, NEW i \in Indexes, status[v] = "alive",
               entities[v][i] # NoBlock, NEW j \in 0..(2^i - 1)
        PROVE  (heap[entities[v][i]][j] # Raw) = (j + 2^i <= total_size[v])
    <3>1. Store(v) \in Stores BY <1>1, <2>1 DEF VectorInv
    <3>2. CellsAreFull(entities[v], total_size[v], heap) BY <3>1, StoreFacts DEF Store
    <3> QED BY <2>1, <3>2 DEF CellsAreFull
  <2> QED BY <1>1, <2>1 DEF VectorInv, ElementsAreDestroyed
<1> QED BY <1>1, InvariantHolds, PTL

-----------------------------------------------------------------------------
(* The refinement: the sequence a vector and the heap stand for. *)
ItemsOf(s) ==
  [k \in 1..s.total_size |-> [at |-> Where(s, k), value |-> What(s, k)]]

(* The length of a function on 1..n. *)
LEMMA LengthOf ==
  ASSUME NEW n \in Nat, NEW f, DOMAIN f = 1..n, f = [k \in 1..n |-> f[k]]
  PROVE  Len(f) = n
<1>1. PICK S : S = {f[k] : k \in 1..n} OBVIOUS
<1>2. f \in [1..n -> S] BY <1>1
<1>3. f \in Seq(S) BY <1>2, SeqDef
<1>4. Len(f) \in Nat /\ DOMAIN f = 1..Len(f) BY <1>3, LenProperties
<1>5. 1..Len(f) = 1..n BY <1>4
<1>6. CASE n = 0 BY <1>4, <1>5, <1>6
<1>7. CASE n # 0
  <2>1. n \in 1..Len(f) BY <1>5, <1>7
  <2>2. Len(f) \in 1..n BY <1>4, <1>5, <2>1
  <2> QED BY <1>4, <2>1, <2>2
<1> QED BY <1>6, <1>7

(* The items of a vector in use. *)
LEMMA ItemFacts ==
  ASSUME NEW s \in Stores, NEW f, f = ItemsOf(s)
  PROVE  /\ Len(f) = s.total_size /\ DOMAIN f = 1..s.total_size
         /\ \A k \in 1..s.total_size :
              /\ k \in 1..MaxSize /\ f[k] = [at |-> Where(s, k), value |-> What(s, k)]
              /\ f[k].at = Where(s, k) /\ f[k].value = What(s, k)
<1>1. PICK n : n = s.total_size OBVIOUS
<1>2. n \in Nat /\ n \in 0..MaxSize /\ MaxSize \in Nat BY <1>1, StoreFacts, VectorAssumption
<1>3. /\ DOMAIN f = 1..n /\ f = [k \in 1..n |-> f[k]]
      /\ \A k \in 1..n : f[k] = [at |-> Where(s, k), value |-> What(s, k)]
  BY <1>1 DEF ItemsOf
<1>4. Len(f) = n BY <1>2, <1>3, LengthOf
<1>5. \A a, x : [at |-> a, value |-> x].at = a /\ [at |-> a, value |-> x].value = x
  OBVIOUS
<1>6. ASSUME NEW k \in 1..n PROVE f[k].at = Where(s, k) /\ f[k].value = What(s, k)
  <2>1. PICK a, x : a = Where(s, k) /\ x = What(s, k) OBVIOUS
  <2>2. f[k] = [at |-> a, value |-> x] BY <1>3, <2>1
  <2> QED BY <1>5, <2>1, <2>2
<1> QED BY <1>1, <1>2, <1>3, <1>4, <1>6

(* Items, in terms of the vector and the heap, before and after a step. *)
LEMMA ItemsNow ==
  ASSUME NEW v \in Vectors
  PROVE  /\ status[v] = "alive" => Items(v) = ItemsOf(Store(v))
         /\ status[v] # "alive" => Items(v) = << >>
         /\ status'[v] = "alive" => Items(v)' = ItemsOf(Store(v)')
         /\ status'[v] # "alive" => Items(v)' = << >>
<1>1. \A k \in Int : (k - 1) + 1 = k OBVIOUS
<1>2. ASSUME status[v] = "alive" PROVE Items(v) = ItemsOf(Store(v))
  <2>1. Items(v) = [k \in 1..total_size[v] |-> [at |-> Address(v, k - 1), value |-> At(v, k - 1)]]
    BY <1>2 DEF Items
  <2>2. \A k \in 1..total_size[v] : /\ Address(v, k - 1) = Where(Store(v), k)
                                    /\ At(v, k - 1) = What(Store(v), k)
    BY <1>1 DEF Address, At, Where, What, Store
  <2>3. Store(v).total_size = total_size[v] BY DEF Store
  <2> QED BY <2>1, <2>2, <2>3 DEF ItemsOf
<1>3. ASSUME status'[v] = "alive" PROVE Items(v)' = ItemsOf(Store(v)')
  <2>1. Items(v)' = [k \in 1..total_size'[v] |->
                       [at |-> Address(v, k - 1)', value |-> At(v, k - 1)']]
    BY <1>3 DEF Items
  <2>2. \A k \in 1..total_size'[v] : /\ Address(v, k - 1)' = Where(Store(v)', k)
                                     /\ At(v, k - 1)' = What(Store(v)', k)
    BY <1>1 DEF Address, At, Where, What, Store
  <2>3. Store(v)'.total_size = total_size'[v] BY DEF Store
  <2> QED BY <2>1, <2>2, <2>3 DEF ItemsOf
<1> QED BY <1>2, <1>3 DEF Items

(* What a vector stands for depends only on its size and its blocks. *)
LEMMA SameItems ==
  ASSUME NEW s \in Stores, NEW r, r.entities = s.entities, r.total_size = s.total_size,
         \A i \in Indexes : s.entities[i] # NoBlock =>
           r.heap[s.entities[i]] = s.heap[s.entities[i]]
  PROVE  ItemsOf(r) = ItemsOf(s)
<1>1. ASSUME NEW k \in 1..s.total_size PROVE Where(r, k) = Where(s, k) /\ What(r, k) = What(s, k)
  <2>1. k \in 1..MaxSize /\ k <= s.total_size BY StoreFacts, VectorAssumption
  <2>2. Index(k) \in Indexes /\ s.entities[Index(k)] # NoBlock BY <2>1, ElementIsThere
  <2> QED BY <2>2 DEF Where, What
<1> QED BY <1>1 DEF ItemsOf

(* Elements in the same place have the same index. *)
LEMMA SamePlace ==
  ASSUME NEW s \in Stores, NEW t \in Stores, NEW k \in 1..MaxSize, NEW m \in 1..MaxSize,
         k <= s.total_size, m <= t.total_size, Where(s, k) = Where(t, m)
  PROVE  k = m /\ s.entities[Index(k)] = t.entities[Index(k)]
<1>1. /\ s.entities[Index(k)][1] = Index(k) /\ t.entities[Index(m)][1] = Index(m)
  BY ElementIsThere
<1>2. PICK b, c, i, j : /\ b = s.entities[Index(k)] /\ c = t.entities[Index(m)]
                        /\ i = InternalIndex(k) /\ j = InternalIndex(m)
  OBVIOUS
<1>3. <<b, i>> = <<c, j>> BY <1>2 DEF Where
<1>4. b = c /\ i = j BY <1>3
<1>5. Index(k) = Index(m) BY <1>1, <1>2, <1>4
<1>6. k = m BY <1>2, <1>4, <1>5, SameCellSameElement
<1> QED BY <1>2, <1>4, <1>6

(* A vector that changes leaves the other ones as they are. *)
LEMMA OthersAreKept ==
  ASSUME VectorInv, NEW v \in Vectors, NEW w \in Vectors, w # v,
         status'[w] = status[w], entities'[w] = entities[w],
         total_size'[w] = total_size[w],
         \A b \in DOMAIN heap \ Owned(entities[v]) : heap'[b] = heap[b]
  PROVE  Items(w)' = Items(w)
<1>1. CASE status[w] # "alive" BY <1>1, ItemsNow
<1>2. CASE status[w] = "alive"
  <2>1. PICK s, r : s = Store(w) /\ r = Store(w)' OBVIOUS
  <2>2. /\ s \in Stores /\ s.entities = entities[w] /\ s.total_size = total_size[w]
        /\ s.heap = heap
        /\ r.entities = entities'[w] /\ r.total_size = total_size'[w] /\ r.heap = heap'
    BY <1>2, <2>1 DEF Store, VectorInv
  <2>3. \A i \in Indexes : s.entities[i] # NoBlock =>
          r.heap[s.entities[i]] = s.heap[s.entities[i]]
    BY <2>2, OwnersAreApart
  <2>4. ItemsOf(r) = ItemsOf(s) BY <2>2, <2>3, SameItems
  <2> QED BY <1>2, <2>1, <2>4, ItemsNow
<1> QED BY <1>1, <1>2

(* emplace_back, pop_back and resize change the end of the sequence. *)
LEMMA ChangeBecomes ==
  ASSUME VectorInv, NEW v \in Vectors, status[v] = "alive", NEW s, s = Store(v),
         NEW t \in Stores, Keeps(s, t), Changes(v, t), UNCHANGED <<status, lost>>,
         NEW V, s.total_size < t.total_size => Adds(s, t, V)
  PROVE  /\ Abstract!Becomes(v, t.total_size, V)
         /\ Len(Items(v)) = s.total_size
<1>1. /\ s \in Stores /\ s.entities = entities[v] /\ s.heap = heap
      /\ s.total_size = total_size[v]
      /\ s.total_size \in Nat /\ t.total_size \in Nat
  BY StoreFacts DEF VectorInv, Store
<1>2. /\ heap' = t.heap /\ entities'[v] = t.entities /\ total_size'[v] = t.total_size
      /\ \A w \in Vectors : w # v => entities'[w] = entities[w] /\ total_size'[w] = total_size[w]
      /\ status' = status
  BY StoreFacts DEF Changes, VectorInv
<1>3. t = Store(v)' BY <1>2, StoreFacts DEF Store
<1>4. PICK f, g : f = ItemsOf(s) /\ g = ItemsOf(t) OBVIOUS
<1>5. Items(v) = f /\ Items(v)' = g BY <1>2, <1>3, <1>4, ItemsNow
<1>6. /\ Len(f) = s.total_size
      /\ \A k \in 1..s.total_size :
           /\ k \in 1..MaxSize /\ f[k] = [at |-> Where(s, k), value |-> What(s, k)]
           /\ f[k].at = Where(s, k) /\ f[k].value = What(s, k)
  BY <1>1, <1>4, ItemFacts
<1>7. /\ Len(g) = t.total_size
      /\ \A k \in 1..t.total_size :
           /\ k \in 1..MaxSize /\ g[k] = [at |-> Where(t, k), value |-> What(t, k)]
           /\ g[k].at = Where(t, k) /\ g[k].value = What(t, k)
  BY <1>4, ItemFacts
<1>8. ASSUME NEW w \in Vectors, w # v PROVE Items(w)' = Items(w)
  <2>1. \A b \in DOMAIN heap \ Owned(entities[v]) : heap'[b] = heap[b]
    BY <1>1, <1>2 DEF Keeps
  <2> QED BY <1>2, <1>8, <2>1, OthersAreKept
<1>9. ASSUME NEW k \in 1..t.total_size, k <= s.total_size PROVE g[k] = f[k]
  <2>1. k \in 1..s.total_size /\ k <= t.total_size BY <1>1, <1>9
  <2>2. Where(t, k) = Where(s, k) /\ What(t, k) = What(s, k)
    BY <1>6, <1>9, <2>1 DEF Keeps
  <2> QED BY <1>6, <1>7, <2>1, <2>2
<1>10. ASSUME NEW k \in 1..t.total_size, s.total_size < k
       PROVE  /\ g[k].value \in V
              /\ \A w \in Vectors : \A m \in DOMAIN Items(w) : Items(w)[m].at # g[k].at
              /\ \A m \in 1..(k - 1) : g[m].at # g[k].at
  <2>1. k \in 1..MaxSize /\ k <= t.total_size /\ g[k].at = Where(t, k)
        /\ g[k].value = What(t, k)
    <3>1. k <= t.total_size BY <1>1, <1>10
    <3>2. g[k].at = Where(t, k) BY <1>7, <1>10
    <3>3. g[k].value = What(t, k) BY <1>7, <1>10
    <3>4. k \in 1..MaxSize BY <1>7, <1>10
    <3> QED BY <3>1, <3>2, <3>3, <3>4
  <2>2. What(t, k) \in V
    <3>1. Adds(s, t, V) BY <1>1, <1>10, <2>1
    <3> QED BY <1>10, <2>1, <3>1 DEF Adds
  <2>3. ASSUME NEW w \in Vectors, NEW m \in DOMAIN Items(w), Items(w)[m].at = g[k].at
        PROVE  FALSE
    <3>1. status[w] = "alive" BY <2>3, ItemsNow
    <3>2. PICK r : r = Store(w) OBVIOUS
    <3>3. /\ r \in Stores /\ r.entities = entities[w] /\ r.total_size = total_size[w]
      BY <3>1, <3>2 DEF VectorInv, Store
    <3>4. Items(w) = ItemsOf(r) BY <3>1, <3>2, ItemsNow
    <3>5. m \in 1..r.total_size /\ m \in 1..MaxSize /\ Items(w)[m].at = Where(r, m)
      <4>1. PICK p : p = Items(w) OBVIOUS
      <4>2. /\ DOMAIN p = 1..r.total_size
            /\ \A l \in 1..r.total_size : l \in 1..MaxSize /\ p[l].at = Where(r, l)
        BY <3>3, <3>4, <4>1, ItemFacts
      <4> QED BY <2>3, <4>1, <4>2
    <3>6. m <= r.total_size BY <3>3, <3>5, StoreFacts
    <3>7. k = m /\ t.entities[Index(k)] = entities[w][Index(k)]
      <4>1. Where(t, k) = Where(r, m) BY <2>1, <2>3, <3>5
      <4>2. k = m /\ t.entities[Index(k)] = r.entities[Index(k)]
        BY <2>1, <3>3, <3>5, <3>6, <4>1, SamePlace
      <4> QED BY <3>3, <4>2
    <3>8. CASE w = v BY <1>1, <1>10, <3>3, <3>5, <3>6, <3>7, <3>8
    <3>9. CASE w # v
      <4>1. Index(k) \in Indexes /\ t.entities[Index(k)] # NoBlock BY <2>1, ElementIsThere
      <4>2. entities[w][Index(k)] \in DOMAIN heap \ Owned(entities[v])
        BY <3>7, <3>9, <4>1, OwnersAreApart
      <4>3. entities[w][Index(k)] \notin Owned(t.entities) BY <1>1, <4>2 DEF Keeps
      <4> QED BY <3>7, <4>1, <4>3 DEF Owned
    <3> QED BY <3>8, <3>9
  <2>4. ASSUME NEW m \in 1..(k - 1), g[m].at = g[k].at PROVE FALSE
    <3>1. m \in 1..t.total_size /\ m <= t.total_size /\ m # k BY <1>1, <2>1, <2>4
    <3>2. m \in 1..MaxSize /\ Where(t, m) = Where(t, k) BY <1>7, <2>1, <2>4, <3>1
    <3> QED BY <2>1, <3>1, <3>2, SamePlace
  <2> QED BY <2>1, <2>2, <2>3, <2>4
<1>11. PICK it, jt : /\ it = [w \in Vectors |-> Items(w)]
                     /\ jt = [w \in Vectors |-> Items(w)']
  OBVIOUS
<1>12. /\ it[v] = f /\ jt[v] = g
       /\ \A w \in Vectors : it[w] = Items(w) /\ jt[w] = Items(w)'
  BY <1>5, <1>11
<1>13. ASSUME NEW k \in 1..t.total_size, ~(k <= s.total_size)
       PROVE  g[k].at \notin UNION {{it[w][m].at : m \in DOMAIN it[w]} : w \in Vectors}
  BY <1>1, <1>10, <1>12, <1>13
<1>14. ASSUME NEW k \in 1..t.total_size
       PROVE  IF k <= Len(it[v]) THEN jt[v][k] = it[v][k]
              ELSE /\ jt[v][k].value \in V
                   /\ jt[v][k].at \notin UNION {{it[w][m].at : m \in DOMAIN it[w]} : w \in Vectors}
                   /\ \A m \in 1..(k - 1) : jt[v][m].at # jt[v][k].at
  <2>1. CASE k <= s.total_size BY <1>6, <1>9, <1>12, <2>1
  <2>2. CASE ~(k <= s.total_size)
    <3>1. s.total_size < k BY <1>1, <2>2
    <3> QED BY <1>6, <1>10, <1>12, <1>13, <2>2, <3>1
  <2> QED BY <2>1, <2>2
<1>15. /\ Len(jt[v]) = t.total_size /\ \A w \in Vectors \ {v} : jt[w] = it[w]
  BY <1>7, <1>8, <1>12
<1>16. Abstract!Becomes(v, t.total_size, V)
  BY <1>2, <1>11, <1>14, <1>15 DEF Abstract!Becomes, Abstract!InUse
<1> QED BY <1>5, <1>6, <1>16

(* A step maps to a step of the sequences with the same name. *)
LEMMA ConstructMaps ==
  ASSUME VectorInv, NEW v \in Vectors, Construct(v)
  PROVE  Abstract!Constructs(v)
<1>1. /\ status[v] = "dead" /\ status' = [status EXCEPT ![v] = "alive"]
      /\ status \in [Vectors -> {"dead", "alive", "moved"}]
      /\ entities' = entities /\ total_size' = total_size /\ heap' = heap
  BY DEF Construct, VectorInv
<1>2. \A w \in Vectors : Store(w)' = Store(w) BY <1>1 DEF Store
<1>3. Items(v)' = Items(v)
  <2>1. Items(v)' = ItemsOf(Store(v)) /\ Items(v) = << >> BY <1>1, <1>2, ItemsNow
  <2>2. Store(v).total_size = 0 BY <1>1 DEF Store, VectorInv
  <2>3. ItemsOf(Store(v)) = << >> BY <2>2 DEF ItemsOf
  <2> QED BY <2>1, <2>3
<1>4. ASSUME NEW w \in Vectors PROVE Items(w)' = Items(w)
  <2>1. CASE w = v BY <1>3, <2>1
  <2>2. CASE w # v
    <3>1. status'[w] = status[w] BY <1>1, <2>2
    <3>2. CASE status[w] = "alive"
      <4>1. Items(w)' = ItemsOf(Store(w)') /\ Items(w) = ItemsOf(Store(w))
        BY <3>1, <3>2, ItemsNow
      <4> QED BY <1>2, <4>1
    <3>3. CASE status[w] # "alive" BY <3>1, <3>3, ItemsNow
    <3> QED BY <3>2, <3>3
  <2> QED BY <2>1, <2>2
<1> QED BY <1>1, <1>4 DEF Abstract!Constructs

(* The destructor: the elements of the other vectors stay. *)
LEMMA DestroyMaps ==
  ASSUME VectorInv, NEW v \in Vectors, Destroy(v)
  PROVE  Abstract!Destroys(v)
<1>1. /\ status[v] # "dead" /\ status' = [status EXCEPT ![v] = "dead"]
      /\ status \in [Vectors -> {"dead", "alive", "moved"}]
      /\ heap' = Freed(heap, Owned(entities[v]))
      /\ \A w \in Vectors : w # v => /\ entities'[w] = entities[w]
                                     /\ total_size'[w] = total_size[w]
  BY AllAreReached DEF Destroy, VectorInv
<1>2. status'[v] = "dead" /\ \A w \in Vectors : w # v => status'[w] = status[w] BY <1>1
<1>3. \A b \in DOMAIN heap \ Owned(entities[v]) : heap'[b] = heap[b] BY <1>1 DEF Freed
<1>4. \A w \in Vectors : w # v => Items(w)' = Items(w)
  BY <1>1, <1>2, <1>3, OthersAreKept
<1>5. Items(v)' = << >> BY <1>2, ItemsNow
<1> QED BY <1>1, <1>4, <1>5 DEF Abstract!Destroys

(* Moves: the elements go with their blocks. *)
LEMMA MoveMaps ==
  ASSUME VectorInv, NEW v \in Vectors, NEW w \in Vectors, v # w, status[w] = "alive",
         SwapEntities(v, w), UNCHANGED heap,
         status' = [status EXCEPT ![v] = "alive", ![w] = "moved"],
         total_size'[v] = total_size[w],
         \A u \in Vectors : u # v /\ u # w => total_size'[u] = total_size[u]
  PROVE  Abstract!TakesOver(v, w)
<1>1. /\ status \in [Vectors -> {"dead", "alive", "moved"}]
      /\ entities \in [Vectors -> [Indexes -> Blocks \cup {NoBlock}]]
  BY DEF VectorInv
<1>2. /\ status'[v] = "alive" /\ status'[w] = "moved"
      /\ \A u \in Vectors : u # v /\ u # w => status'[u] = status[u]
  BY <1>1
<1>3. /\ entities'[v] = entities[w]
      /\ \A u \in Vectors : u # v /\ u # w => entities'[u] = entities[u]
  BY <1>1 DEF SwapEntities
<1>4. Items(v)' = Items(w)
  <2>1. Store(v)' = Store(w) BY <1>3 DEF Store
  <2>2. Items(v)' = ItemsOf(Store(v)') /\ Items(w) = ItemsOf(Store(w)) BY <1>2, ItemsNow
  <2> QED BY <2>1, <2>2
<1>5. Items(w)' = << >> BY <1>2, ItemsNow
<1>6. ASSUME NEW u \in Vectors, u # v, u # w PROVE Items(u)' = Items(u)
  BY <1>2, <1>3, <1>6, OthersAreKept
<1> QED BY <1>4, <1>5, <1>6 DEF Abstract!TakesOver

(* Every step of the vectors is one of the sequences, or none. *)
LEMMA NextMaps ==
  VectorInv /\ [Next]_vars => [Abstract!SpecNext]_(Abstract!specVars)
<1> SUFFICES ASSUME VectorInv, [Next]_vars
             PROVE  [Abstract!SpecNext]_(Abstract!specVars)
  OBVIOUS
<1>1. CASE UNCHANGED vars
  <2>1. \A v \in Vectors : Items(v)' = Items(v)
    BY <1>1 DEF vars, Items, Address, At
  <2> QED BY <1>1, <2>1 DEF vars, Abstract!specVars
<1>2. ASSUME NEW v \in Vectors, Construct(v) PROVE Abstract!SpecNext
  BY <1>2, ConstructMaps DEF Abstract!SpecNext
<1>3. ASSUME NEW v \in Vectors, Destroy(v) PROVE Abstract!SpecNext
  BY <1>3, DestroyMaps DEF Abstract!SpecNext
<1>4. ASSUME NEW v \in Vectors, PopBack(v) PROVE Abstract!SpecNext
  <2>1. status[v] = "alive" BY <1>4 DEF PopBack
  <2>2. PICK s : s = Store(v) OBVIOUS
  <2>3. s.total_size \in Nat BY <2>1, <2>2, StoreFacts DEF VectorInv
  <2>4. PICK t \in Stores : /\ Changes(v, t) /\ UNCHANGED <<status, lost>>
                            /\ Keeps(s, t) /\ t.total_size = s.total_size - 1
                            /\ s.total_size > 0
    BY <1>4, <2>1, <2>2, OperationsAreChanges
  <2>5. ~(s.total_size < t.total_size) BY <2>3, <2>4
  <2>6. Abstract!Becomes(v, t.total_size, {}) /\ Len(Items(v)) = s.total_size
    BY <2>1, <2>2, <2>4, <2>5, ChangeBecomes
  <2>7. Abstract!RemovesLast(v)
    <3>1. Items(v) # << >> BY <2>3, <2>4, <2>6
    <3> QED BY <2>4, <2>6, <3>1 DEF Abstract!RemovesLast
  <2> QED BY <2>7 DEF Abstract!SpecNext
<1>5. ASSUME NEW v \in Vectors, NEW x \in Values, EmplaceBack(v, x)
      PROVE  Abstract!SpecNext
  <2>1. status[v] = "alive" BY <1>5 DEF EmplaceBack
  <2>2. PICK s : s = Store(v) OBVIOUS
  <2>3. PICK t \in Stores : /\ Changes(v, t) /\ UNCHANGED <<status, lost>>
                            /\ Keeps(s, t) /\ Adds(s, t, {x})
                            /\ t.total_size = s.total_size + 1 /\ s.total_size < MaxSize
    BY <1>5, <2>1, <2>2, OperationsAreChanges
  <2>4. Adds(s, t, Values) BY <2>3 DEF Adds
  <2>5. Abstract!Becomes(v, t.total_size, Values) /\ Len(Items(v)) = s.total_size
    BY <2>1, <2>2, <2>3, <2>4, ChangeBecomes
  <2>6. Abstract!Appends(v) BY <2>3, <2>5 DEF Abstract!Appends
  <2> QED BY <2>6 DEF Abstract!SpecNext
<1>6. ASSUME NEW v \in Vectors, NEW n \in 0..MaxSize, Resize(v, n)
      PROVE  Abstract!SpecNext
  <2>1. status[v] = "alive" BY <1>6 DEF Resize
  <2>2. PICK s : s = Store(v) OBVIOUS
  <2>3. s.total_size \in Nat BY <2>1, <2>2, StoreFacts DEF VectorInv
  <2>4. PICK t \in Stores : /\ Changes(v, t) /\ UNCHANGED <<status, lost>>
                            /\ Keeps(s, t) /\ t.total_size = n
                            /\ s.total_size <= n => Adds(s, t, {Default})
    BY <1>6, <2>1, <2>2, OperationsAreChanges
  <2>5. s.total_size < t.total_size => Adds(s, t, {Default}) BY <2>3, <2>4
  <2>6. Abstract!Becomes(v, t.total_size, {Default})
    BY <2>1, <2>2, <2>4, <2>5, ChangeBecomes
  <2>7. Abstract!Resizes(v, n) BY <2>4, <2>6 DEF Abstract!Resizes
  <2> QED BY <2>7 DEF Abstract!SpecNext
<1>7. ASSUME NEW v \in Vectors, NEW w \in Vectors, MoveConstruct(v, w)
      PROVE  Abstract!SpecNext
  <2>1. v # w /\ status[w] = "alive" BY <1>7 DEF MoveConstruct
  <2>2. /\ total_size'[v] = total_size[w]
        /\ \A u \in Vectors : u # v /\ u # w => total_size'[u] = total_size[u]
    BY <1>7 DEF MoveConstruct, VectorInv
  <2>3. Abstract!TakesOver(v, w) BY <1>7, <2>1, <2>2, MoveMaps DEF MoveConstruct
  <2> QED BY <2>3 DEF Abstract!SpecNext
<1>8. ASSUME NEW v \in Vectors, NEW w \in Vectors, MoveAssign(v, w)
      PROVE  Abstract!SpecNext
  <2>1. v # w /\ status[w] = "alive" BY <1>8 DEF MoveAssign
  <2>2. /\ total_size'[v] = total_size[w]
        /\ \A u \in Vectors : u # v /\ u # w => total_size'[u] = total_size[u]
    BY <1>8, <2>1 DEF MoveAssign, VectorInv
  <2>3. Abstract!TakesOver(v, w) BY <1>8, <2>1, <2>2, MoveMaps DEF MoveAssign
  <2> QED BY <2>3 DEF Abstract!SpecNext
<1> QED BY <1>1, <1>2, <1>3, <1>4, <1>5, <1>6, <1>7, <1>8 DEF Next

(* The vectors implement sequences whose elements stay where they are, so  *)
(* a reference to a task that a history keeps is good until the task is    *)
(* popped, whatever is emplaced, popped, resized or moved meanwhile.       *)
THEOREM VectorsAreSequences == Spec => ImplementsSequences
<1>1. Init => Abstract!SpecInit
  <2> SUFFICES ASSUME Init PROVE Abstract!SpecInit OBVIOUS
  <2>1. status = [v \in Vectors |-> "dead"] BY DEF Init
  <2>2. \A v \in Vectors : Items(v) = << >> BY <2>1, ItemsNow
  <2> QED BY <2>1, <2>2 DEF Abstract!SpecInit
<1> QED BY <1>1, InvariantHolds, NextMaps, PTL
        DEF Spec, ImplementsSequences, Abstract!VectorsSpec
=============================================================================
