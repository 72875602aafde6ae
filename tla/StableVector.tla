---------------------------- MODULE StableVector -----------------------------
(***************************************************************************)
(* StableVector (runtime/include/stable_vector.h), the vector the queues   *)
(* of tasks are kept in: histories hold references to its elements, so an  *)
(* element never moves.  Element i is in block log2(i + 1), of a size that *)
(* is a power of two; pop_back keeps one empty block.                      *)
(*                                                                         *)
(* The client does what the runtime does and the language allows: it reads *)
(* and pops what is there, and only assigns to a vector it has moved from  *)
(* or destroys it.                                                         *)
(***************************************************************************)
EXTENDS Integers, Sequences, FiniteSets

CONSTANTS
  Vectors,      \* objects of type StableVector<T>
  Values,       \* of T
  Default,      \* T()
  Slots,        \* length of the array of blocks, 31 in the code
  MaxSize       \* bound on the size

ASSUME VectorAssumption ==
  /\ Default \in Values
  /\ Slots \in Nat \ {0}
  /\ MaxSize \in Nat \ {0}
  /\ MaxSize < 2^(Slots - 1)   \* pop_back reads the slot behind the last block

VARIABLES
  status,       \* of every object: "dead", "alive" or "moved"
  entities,     \* of every object, its blocks or NoBlock, nullptr
  total_size,
  heap,         \* the allocated blocks and their cells
  lost          \* the status of vectors whose destructor freed the memory of
                \* elements it had not destroyed; no code keeps it

vars == <<status, entities, total_size, heap, lost>>

Indexes == 0..(Slots - 1)
NoBlock == << >>
Raw == "raw"    \* a cell without an element

ASSUME RawAssumption == Raw \notin Values

Init ==
  /\ status = [v \in Vectors |-> "dead"]
  /\ entities = [v \in Vectors |-> [i \in Indexes |-> NoBlock]]
  /\ total_size = [v \in Vectors |-> 0]
  /\ heap = << >>
  /\ lost = {}

(* 63 - __builtin_clzll(n), n ^ (1 << index) and (n & (n - 1)) == 0. *)
Index(n) == CHOOSE i \in Indexes : 2^i <= n /\ n < 2^(i + 1)

(* Mutant: the second cell is taken for the first. *)
InternalIndexEarly(n) == IF n = 2^Index(n) THEN 0 ELSE n - 2^Index(n) - 1

InternalIndex(n) == n - 2^Index(n)
IsPowerOfTwo(n) == InternalIndex(n) = 0

(* operator[], for i from 0. *)
Address(v, i) == <<entities[v][Index(i + 1)], InternalIndex(i + 1)>>
At(v, i) == heap[Address(v, i)[1]][Address(v, i)[2]]

-----------------------------------------------------------------------------
(* emplace_back and pop_back work on a vector and the heap. *)
Store(v) == [entities |-> entities[v], total_size |-> total_size[v], heap |-> heap]

Changes(v, s) ==
  /\ entities' = [entities EXCEPT ![v] = s.entities]
  /\ total_size' = [total_size EXCEPT ![v] = s.total_size]
  /\ heap' = s.heap

(* operator new.  A block is named by its index and a number. *)
NewBlock(h, i) ==
  LET used == {b[2] : b \in {c \in DOMAIN h : c[1] = i}}
  IN <<i, CHOOSE n \in 1..(Cardinality(used) + 1) : n \notin used>>

Allocated(h, b, i) ==
  [c \in DOMAIN h \cup {b} |-> IF c = b THEN [j \in 0..(2^i - 1) |-> Raw] ELSE h[c]]

Freed(h, blocks) == [c \in DOMAIN h \ blocks |-> h[c]]

(* Mutant: a block is allocated although there is one. *)
NeedsBlockAlways(s) == IsPowerOfTwo(s.total_size + 1)

NeedsBlock(s) ==
  IsPowerOfTwo(s.total_size + 1) /\ s.entities[Index(s.total_size + 1)] = NoBlock

Emplaced(s, x) ==
  LET n == s.total_size + 1
      index == Index(n)
      b == IF NeedsBlock(s) THEN NewBlock(s.heap, index) ELSE s.entities[index]
      h == IF NeedsBlock(s) THEN Allocated(s.heap, b, index) ELSE s.heap
  IN [entities |-> [s.entities EXCEPT ![index] = b], total_size |-> n,
      heap |-> [h EXCEPT ![b][InternalIndex(n)] = x]]

(* Mutant: no block is ever freed. *)
SpareIndexNone(s) == Slots - 1

(* The block pop_back frees when the last one gets empty. *)
SpareIndex(s) == Index(s.total_size) + 1

Popped(s) ==
  LET n == s.total_size
      spare == s.entities[SpareIndex(s)]
      frees == IsPowerOfTwo(n) /\ spare # NoBlock
      h == [s.heap EXCEPT ![s.entities[Index(n)]][InternalIndex(n)] = Raw]
  IN [entities |-> IF frees THEN [s.entities EXCEPT ![SpareIndex(s)] = NoBlock]
                   ELSE s.entities,
      total_size |-> n - 1,
      heap |-> IF frees THEN Freed(h, {spare}) ELSE h]

EmplaceBack(v, x) ==
  /\ status[v] = "alive" /\ total_size[v] < MaxSize
  /\ Changes(v, Emplaced(Store(v), x))
  /\ UNCHANGED <<status, lost>>

PopBack(v) ==
  /\ status[v] = "alive" /\ total_size[v] > 0
  /\ Changes(v, Popped(Store(v)))
  /\ UNCHANGED <<status, lost>>

Grown(s, n) ==
  LET grown[k \in 0..MaxSize] ==
        IF k <= s.total_size THEN s ELSE Emplaced(grown[k - 1], Default)
  IN grown[n]

Shrunk(s, n) ==
  LET shrunk[k \in 0..MaxSize] ==
        IF k >= s.total_size THEN s ELSE Popped(shrunk[k + 1])
  IN shrunk[n]

(* Mutant: the vector is cleared first. *)
ResizedAnew(s, n) == Grown(Shrunk(s, 0), n)

(* The two loops of resize. *)
Resized(s, n) == Shrunk(Grown(s, n), n)

Resize(v, new_size) ==
  /\ status[v] = "alive"
  /\ Changes(v, Resized(Store(v), new_size))
  /\ UNCHANGED <<status, lost>>

-----------------------------------------------------------------------------
Construct(v) ==
  /\ status[v] = "dead"
  /\ status' = [status EXCEPT ![v] = "alive"]
  /\ UNCHANGED <<entities, total_size, heap, lost>>

SwapEntities(v, w) ==
  entities' = [entities EXCEPT ![v] = entities[w], ![w] = entities[v]]

(* StableVector(StableVector&& rhs): rhs keeps its size. *)
MoveConstruct(v, w) ==
  /\ status[v] = "dead" /\ status[w] = "alive"
  /\ total_size' = [total_size EXCEPT ![v] = total_size[w]]
  /\ SwapEntities(v, w)
  /\ status' = [status EXCEPT ![v] = "alive", ![w] = "moved"]
  /\ UNCHANGED <<heap, lost>>

(* operator=(StableVector&& rhs): what v had is left to rhs, whose size is *)
(* then 0.                                                                 *)
MoveAssign(v, w) ==
  /\ v # w /\ status[v] # "dead" /\ status[w] = "alive"
  /\ total_size' = [total_size EXCEPT ![v] = total_size[w], ![w] = 0]
  /\ SwapEntities(v, w)
  /\ status' = [status EXCEPT ![v] = "alive", ![w] = "moved"]
  /\ UNCHANGED <<heap, lost>>

(* Mutant: the last element is not destroyed. *)
DestroyedCellsButLast(v, i) ==
  {j \in 0..(2^i - 1) : j + 2^i < total_size[v]}

(* The cells of block i in which the destructor destroys an element. *)
DestroyedCells(v, i) == {j \in 0..(2^i - 1) : j + 2^i < total_size[v] + 1}

(* The blocks up to the first nullptr. *)
Reached(v) == {i \in Indexes : \A k \in 0..i : entities[v][k] # NoBlock}

Destroy(v) ==
  /\ status[v] # "dead"
  /\ lost' = IF \A i \in Reached(v) : \A j \in 0..(2^i - 1) :
                  heap[entities[v][i]][j] # Raw => j \in DestroyedCells(v, i)
             THEN lost ELSE lost \cup {status[v]}
  /\ heap' = Freed(heap, {entities[v][i] : i \in Reached(v)})
  /\ status' = [status EXCEPT ![v] = "dead"]
  /\ entities' = [entities EXCEPT ![v] = [i \in Indexes |-> NoBlock]]
  /\ total_size' = [total_size EXCEPT ![v] = 0]

Next ==
  \E v \in Vectors :
    \/ Construct(v) \/ Destroy(v) \/ PopBack(v)
    \/ \E x \in Values : EmplaceBack(v, x)
    \/ \E n \in 0..MaxSize : Resize(v, n)
    \/ \E w \in Vectors : MoveConstruct(v, w) \/ MoveAssign(v, w)

Spec == Init /\ [][Next]_vars
-----------------------------------------------------------------------------
Elements == {e \in Vectors \X (0..(MaxSize - 1)) :
               status[e[1]] = "alive" /\ e[2] < total_size[e[1]]}
AddressOf(e) == Address(e[1], e[2])

(* The elements of all vectors are constructed, in blocks that are         *)
(* allocated, and no two of them share a cell, also after the size went up *)
(* and down across a power of two and vectors took over each other's       *)
(* blocks.                                                                 *)
ElementsAreApart ==
  /\ \A e \in Elements : AddressOf(e)[1] \in DOMAIN heap /\ At(e[1], e[2]) # Raw
  /\ \A e, f \in Elements : AddressOf(e) = AddressOf(f) => e = f

(* Every pointer leads to a block of the size its index says, every block  *)
(* has one owner, and the owner's destructor, which stops at the first     *)
(* null block, will reach it.                                              *)
BlocksAreReached ==
  /\ \A v \in Vectors : \A i \in Indexes :
       entities[v][i] = NoBlock \/ DOMAIN heap[entities[v][i]] = 0..(2^i - 1)
  /\ \A b \in DOMAIN heap :
       Cardinality({o \in Vectors \X Indexes : /\ entities[o[1]][o[2]] = b
                                               /\ o[2] \in Reached(o[1])}) = 1

(* A vector in use keeps at most one block more than its elements need. *)
OneSpareBlock ==
  \A v \in Vectors : \A i \in Indexes :
    status[v] = "alive" /\ entities[v][i] # NoBlock =>
      i <= (IF total_size[v] = 0 THEN 0 ELSE Index(total_size[v]) + 1)

(* An element is constructed once and destroyed once: the cells of a       *)
(* vector in use hold elements up to its size and nothing behind, and its  *)
(* destructor destroys them all.  Elements are lost only with a vector     *)
(* that was moved from: what an assignment replaces is never destroyed, so *)
(* PctStrategy pops all tasks before thread = StableVector<Task>().        *)
ElementsAreDestroyed ==
  /\ "alive" \notin lost
  /\ \A v \in Vectors : \A i \in Indexes :
       status[v] = "alive" /\ entities[v][i] # NoBlock =>
         \A j \in 0..(2^i - 1) :
           (heap[entities[v][i]][j] # Raw) = (j + 2^i <= total_size[v])

(* The sequence a vector stands for. *)
Items(v) == IF status[v] = "alive" THEN [k \in 1..total_size[v] |->
                                           [at |-> Address(v, k - 1), value |-> At(v, k - 1)]]
            ELSE << >>

Abstract == INSTANCE VectorSpec WITH items <- [v \in Vectors |-> Items(v)]

(* The vectors behave like sequences whose elements stay where they are    *)
(* ("In histories we store references, so there's no need to update it",   *)
(* scheduler.h:560): every operation has its effect on its own vector and  *)
(* on no other element, whatever blocks are kept, freed or handed over.    *)
ImplementsSequences == Abstract!VectorsSpec
=============================================================================
