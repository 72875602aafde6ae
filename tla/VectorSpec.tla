----------------------------- MODULE VectorSpec ------------------------------
(***************************************************************************)
(* What a StableVector promises: a sequence that is changed at its end and *)
(* handed over as a whole, and whose elements stay at their address.  A    *)
(* vector that was moved from is only assigned to or destroyed.            *)
(***************************************************************************)
EXTENDS Naturals, Sequences

CONSTANTS Vectors, Values, Default, MaxSize

VARIABLES
  status,    \* "dead", "alive" or "moved"
  items      \* of every vector, a sequence of values with their addresses

specVars == <<status, items>>

SpecInit ==
  /\ status = [v \in Vectors |-> "dead"]
  /\ items = [v \in Vectors |-> << >>]

InUse == UNION {{items[v][k].at : k \in DOMAIN items[v]} : v \in Vectors}

(* The sequence of v gets n elements: those it had stay, and new ones are  *)
(* values of V, each at an address of its own.                             *)
Becomes(v, n, V) ==
  /\ status[v] = "alive"
  /\ UNCHANGED status
  /\ Len(items'[v]) = n
  /\ \A k \in 1..n :
       IF k <= Len(items[v]) THEN items'[v][k] = items[v][k]
       ELSE /\ items'[v][k].value \in V
            /\ items'[v][k].at \notin InUse
            /\ \A m \in 1..(k - 1) : items'[v][m].at # items'[v][k].at
  /\ \A w \in Vectors \ {v} : items'[w] = items[w]

Constructs(v) ==
  /\ status[v] = "dead"
  /\ status' = [status EXCEPT ![v] = "alive"]
  /\ UNCHANGED items

Destroys(v) ==
  /\ status[v] # "dead"
  /\ status' = [status EXCEPT ![v] = "dead"]
  /\ items' = [items EXCEPT ![v] = << >>]

Appends(v)     == Len(items[v]) < MaxSize /\ Becomes(v, Len(items[v]) + 1, Values)
RemovesLast(v) == items[v] # << >> /\ Becomes(v, Len(items[v]) - 1, {})
Resizes(v, n)  == Becomes(v, n, {Default})

(* Construction and assignment alike: v takes what w has. *)
TakesOver(v, w) ==
  /\ v # w /\ status[w] = "alive"
  /\ status' = [status EXCEPT ![v] = "alive", ![w] = "moved"]
  /\ items' = [items EXCEPT ![v] = items[w], ![w] = << >>]

SpecNext ==
  \E v \in Vectors :
    \/ Constructs(v) \/ Destroys(v) \/ Appends(v) \/ RemovesLast(v)
    \/ \E n \in 0..MaxSize : Resizes(v, n)
    \/ \E w \in Vectors : TakesOver(v, w)

VectorsSpec == SpecInit /\ [][SpecNext]_specVars
=============================================================================
