----------------------- MODULE StrategySchedulerProofs -----------------------
(***************************************************************************)
(* Proofs about StrategyScheduler::RunRound for every strategy, every      *)
(* number of threads, tasks and rounds and every target: the history of a  *)
(* round is sequential in every thread and tells how far the tasks are.    *)
(*                                                                         *)
(* Nothing is assumed of the target: Body, Word, Verify, OnFinished, Check *)
(* and the rest stay arbitrary operators.                                  *)
(***************************************************************************)
EXTENDS StrategyScheduler, FiniteSetTheorems, SequenceTheorems,
        WellFoundedInduction, TLAPS

(* The positions of the events of a thread, and of the responses. *)
InThread(h, i) == {q \in DOMAIN h : h[q].thread = i}
ResponsesIn(h) == {q \in DOMAIN h : h[q].type = "response"}

(* What relates a history h to the queues of a round.  ids[i] are the ids  *)
(* of the tasks of thread i, and in the threads `open` the last one has    *)
(* not returned.                                                           *)
IdsAreDistinct(ids) ==
  \A i, j \in Threads : \A k \in 1..Len(ids[i]), m \in 1..Len(ids[j]) :
    ids[i][k] = ids[j][m] => i = j /\ k = m
EventsAreTyped(h) ==
  \A p \in DOMAIN h : h[p].type \in {"invoke", "response"} /\ h[p].thread \in Threads

(* A thread has two events for each of its tasks, one for an open one. *)
ThreadsAreCounted(h, ids, open) ==
  \A i \in Threads :
    Cardinality(InThread(h, i)) = 2 * Len(ids[i]) - (IF i \in open THEN 1 ELSE 0)

(* The earlier events of its thread say which event of which task it is. *)
EventBelongs(h, ids, p) ==
  \E k \in 1..Len(ids[h[p].thread]) :
    /\ ids[h[p].thread][k] = h[p].id
    /\ Cardinality(EarlierInThread(h, p))
         = 2 * k - (IF h[p].type = "invoke" THEN 2 ELSE 1)

(* Every task was invoked, and answered unless it is open. *)
TaskIsRecorded(h, ids, open, i, k) ==
  /\ \E p \in DOMAIN h : h[p].type = "invoke" /\ h[p].id = ids[i][k]
  /\ (\E p \in ResponsesIn(h) : h[p].id = ids[i][k])
       <=> ~(i \in open /\ k = Len(ids[i]))

ResponseFollows(h, p) ==
  \E q \in 1..(p - 1) : h[q].type = "invoke" /\ h[q].id = h[p].id

Linked(h, ids, open) ==
  /\ \A i \in open : Len(ids[i]) > 0
  /\ IdsAreDistinct(ids)
  /\ EventsAreTyped(h)
  /\ ThreadsAreCounted(h, ids, open)
  /\ \A p \in DOMAIN h : EventBelongs(h, ids, p)
  /\ \A i \in Threads : \A k \in 1..Len(ids[i]) : TaskIsRecorded(h, ids, open, i, k)
  /\ \A p \in ResponsesIn(h) : ResponseFollows(h, p)

(* The ids after a task was added to thread i. *)
IdAdded(new_ids, ids, i, id) == new_ids = [ids EXCEPT ![i] = Append(ids[i], id)]

(* g is the history h with the event e added at its end, and its counts. *)
Extended(g, h, e) ==
  /\ Len(h) \in Nat /\ DOMAIN h = 1..Len(h) /\ DOMAIN g = 1..(Len(h) + 1)
  /\ \A p \in DOMAIN h : g[p] = h[p]
  /\ g[Len(h) + 1] = e
  /\ \A p \in DOMAIN h : EarlierInThread(g, p) = EarlierInThread(h, p)
  /\ EarlierInThread(g, Len(h) + 1) = InThread(h, e.thread)
  /\ \A i : /\ Cardinality(InThread(h, i)) \in Nat
            /\ Cardinality(InThread(g, i)) =
                 Cardinality(InThread(h, i)) + (IF i = e.thread THEN 1 ELSE 0)
  /\ Cardinality(ResponsesIn(h)) \in Nat
  /\ Cardinality(ResponsesIn(g)) =
       Cardinality(ResponsesIn(h)) + (IF e.type = "response" THEN 1 ELSE 0)

-----------------------------------------------------------------------------
(* Appending an event extends a history. *)
LEMMA AppendExtends ==
  ASSUME NEW S, NEW h \in Seq(S), NEW e \in S, NEW g, g = Append(h, e)
  PROVE  Extended(g, h, e)
<1> DEFINE n == Len(h)
<1>1. /\ g \in Seq(S) /\ Len(g) = n + 1
      /\ n \in Nat /\ DOMAIN h = 1..n /\ DOMAIN g = 1..(n + 1)
      /\ \A p \in DOMAIN h : g[p] = h[p]
      /\ g[n + 1] = e
  BY AppendProperties, LenProperties
<1>2. \A p \in DOMAIN h : EarlierInThread(g, p) = EarlierInThread(h, p)
  BY <1>1 DEF EarlierInThread
<1>3. EarlierInThread(g, n + 1) = InThread(h, e.thread)
  BY <1>1 DEF EarlierInThread, InThread
<1>4. \A T \in SUBSET (1..n) : IsFiniteSet(T) /\ Cardinality(T) \in Nat
  <2>1. 1 \in Int /\ n \in Int BY <1>1
  <2>2. IsFiniteSet(1..n) BY <2>1, FS_Interval
  <2> QED BY <2>2, FS_Subset, FS_CardinalityType
<1>5. ASSUME NEW i
      PROVE  /\ Cardinality(InThread(h, i)) \in Nat
             /\ Cardinality(InThread(g, i)) =
                  Cardinality(InThread(h, i)) + (IF i = e.thread THEN 1 ELSE 0)
  <2>1. InThread(h, i) \in SUBSET (1..n) BY <1>1 DEF InThread
  <2>2. InThread(g, i) = IF i = e.thread THEN InThread(h, i) \cup {n + 1}
                         ELSE InThread(h, i)
    BY <1>1 DEF InThread
  <2>3. n + 1 \notin InThread(h, i) BY <1>1, <2>1
  <2>4. Cardinality(InThread(h, i) \cup {n + 1}) = Cardinality(InThread(h, i)) + 1
    BY <1>4, <2>1, <2>3, FS_AddElement
  <2> QED BY <1>4, <2>1, <2>2, <2>4
<1>6. /\ Cardinality(ResponsesIn(h)) \in Nat
      /\ Cardinality(ResponsesIn(g)) =
           Cardinality(ResponsesIn(h)) + (IF e.type = "response" THEN 1 ELSE 0)
  <2>1. ResponsesIn(h) \in SUBSET (1..n) BY <1>1 DEF ResponsesIn
  <2>2. ResponsesIn(g) = IF e.type = "response" THEN ResponsesIn(h) \cup {n + 1}
                         ELSE ResponsesIn(h)
    BY <1>1 DEF ResponsesIn
  <2>3. n + 1 \notin ResponsesIn(h) BY <1>1, <2>1
  <2>4. Cardinality(ResponsesIn(h) \cup {n + 1}) = Cardinality(ResponsesIn(h)) + 1
    BY <1>4, <2>1, <2>3, FS_AddElement
  <2> QED BY <1>4, <2>1, <2>2, <2>4
<1> QED BY <1>1, <1>2, <1>3, <1>5, <1>6 DEF Extended

(* The history h becomes g by the invoke of a new task in a thread whose   *)
(* last task has returned.                                                 *)
Invoked(g, h, e, new_ids, ids, open, i, id) ==
  /\ Linked(h, ids, open) /\ Extended(g, h, e)
  /\ ids \in [Threads -> Seq(Nat)] /\ open \in SUBSET Threads
  /\ i \in Threads \ open /\ id \in Nat
  /\ e.type = "invoke" /\ e.id = id /\ e.thread = i
  /\ \A j \in Threads : \A k \in 1..Len(ids[j]) : ids[j][k] # id
  /\ IdAdded(new_ids, ids, i, id)

(* The new task is linked to its invoke. *)
LEMMA AddInvoke ==
  ASSUME NEW h, NEW g, NEW e, NEW new_ids, NEW ids, NEW open, NEW i, NEW id,
         Invoked(g, h, e, new_ids, ids, open, i, id)
  PROVE  Linked(g, new_ids, open \cup {i})
<1> DEFINE n == Len(h)  l == Len(ids[i])
<1>a. /\ i \in Threads /\ i \notin open /\ open \subseteq Threads /\ id \in Nat
      /\ e.type = "invoke" /\ e.id = id /\ e.thread = i
      /\ Linked(h, ids, open)
  BY DEF Invoked
<1>1. /\ n \in Nat /\ DOMAIN h = 1..n /\ DOMAIN g = 1..(n + 1)
      /\ \A p \in 1..n : g[p] = h[p]
      /\ g[n + 1] = e
      /\ \A p \in 1..n : EarlierInThread(g, p) = EarlierInThread(h, p)
      /\ EarlierInThread(g, n + 1) = InThread(h, i)
      /\ \A j : Cardinality(InThread(g, j)) =
                  Cardinality(InThread(h, j)) + (IF j = i THEN 1 ELSE 0)
      /\ Cardinality(InThread(h, i)) = 2 * l
  <2>1. ThreadsAreCounted(h, ids, open) BY <1>a DEF Linked
  <2>2. ids[i] \in Seq(Nat) BY DEF Invoked
  <2>3. l \in Nat BY <2>2, LenProperties
  <2>4. Cardinality(InThread(h, i)) = 2 * l - (IF i \in open THEN 1 ELSE 0)
    BY <1>a, <2>1, Zenon DEF ThreadsAreCounted
  <2>5. Cardinality(InThread(h, i)) = 2 * l
    BY <1>a, <2>3, <2>4
  <2> QED BY <1>a, <2>5 DEF Extended, Invoked
<1>2. /\ \A j \in Threads : Len(ids[j]) \in Nat
      /\ Len(new_ids[i]) = l + 1 /\ new_ids[i][l + 1] = id
      /\ \A k \in 1..l : new_ids[i][k] = ids[i][k]
      /\ \A j \in Threads : j # i => new_ids[j] = ids[j]
  <2>1. ids \in [Threads -> Seq(Nat)] /\ IdAdded(new_ids, ids, i, id) BY DEF Invoked
  <2>2. PICK s : s = ids[i] OBVIOUS
  <2>3. PICK u : u = Append(s, id) OBVIOUS
  <2>4. s \in Seq(Nat) BY <1>a, <2>1, <2>2
  <2>5. Len(u) = Len(s) + 1 /\ u[Len(s) + 1] = id
    BY <1>a, <2>3, <2>4, AppendProperties
  <2>6. \A k \in 1..Len(s) : u[k] = s[k]
    BY <1>a, <2>3, <2>4, AppendProperties
  <2>7. new_ids[i] = u /\ \A j \in Threads : j # i => new_ids[j] = ids[j]
    BY <1>a, <2>1, <2>2, <2>3 DEF IdAdded
  <2>8. \A j \in Threads : Len(ids[j]) \in Nat BY <2>1, LenProperties
  <2> QED BY <2>2, <2>5, <2>6, <2>7, <2>8
<1>b. \A j \in Threads : \A k \in 1..Len(ids[j]) : ids[j][k] # id
  BY DEF Invoked
<1>3. \A j \in open \cup {i} : Len(new_ids[j]) > 0
  BY <1>a, <1>2 DEF Linked
<1>4. IdsAreDistinct(new_ids)
  <2>1. \A j \in Threads : \A k \in 1..Len(new_ids[j]) :
          \/ k \in 1..Len(ids[j]) /\ new_ids[j][k] = ids[j][k]
          \/ j = i /\ k = l + 1 /\ new_ids[j][k] = id
    BY <1>a, <1>2
  <2>2. IdsAreDistinct(ids) BY <1>a DEF Linked
  <2>3. l + 1 \notin 1..l BY <1>a, <1>2
  <2>4. ASSUME NEW j \in Threads, NEW m \in Threads,
               NEW k \in 1..Len(new_ids[j]), NEW q \in 1..Len(new_ids[m]),
               new_ids[j][k] = new_ids[m][q]
        PROVE  j = m /\ k = q
    <3>1. \/ k \in 1..Len(ids[j]) /\ new_ids[j][k] = ids[j][k]
          \/ j = i /\ k = l + 1 /\ new_ids[j][k] = id
      BY <2>1
    <3>2. \/ q \in 1..Len(ids[m]) /\ new_ids[m][q] = ids[m][q]
          \/ m = i /\ q = l + 1 /\ new_ids[m][q] = id
      BY <2>1
    <3>3. CASE k \in 1..Len(ids[j]) /\ q \in 1..Len(ids[m]) /\ ids[j][k] = ids[m][q]
      BY <2>2, <3>3, Zenon DEF IdsAreDistinct
    <3>4. CASE j = i /\ k = l + 1 /\ m = i /\ q = l + 1
      BY <3>4
    <3>5. (k \in 1..Len(ids[j]) => ids[j][k] # id) /\ (q \in 1..Len(ids[m]) => ids[m][q] # id)
      BY <1>b
    <3> QED BY <2>4, <3>1, <3>2, <3>3, <3>4, <3>5, Zenon
  <2> QED BY <2>4 DEF IdsAreDistinct
<1>5. EventsAreTyped(g)
  BY <1>a, <1>1 DEF Linked, EventsAreTyped
<1>6. ThreadsAreCounted(g, new_ids, open \cup {i})
  <2>1. ThreadsAreCounted(h, ids, open) BY <1>a DEF Linked
  <2>2. ASSUME NEW j \in Threads
        PROVE  Cardinality(InThread(g, j))
                 = 2 * Len(new_ids[j]) - (IF j \in open \cup {i} THEN 1 ELSE 0)
    <3>1. CASE j = i
      <4>1. l \in Nat BY <1>a, <1>2
      <4>2. Cardinality(InThread(g, i)) = 2 * l + 1 BY <1>1
      <4>3. 2 * l + 1 = 2 * (l + 1) - 1 BY <4>1
      <4>4. Len(new_ids[i]) = l + 1 BY <1>2
      <4> QED BY <3>1, <4>2, <4>3, <4>4
    <3>2. CASE j # i
      <4>1. Cardinality(InThread(h, j)) = 2 * Len(ids[j]) - (IF j \in open THEN 1 ELSE 0)
        BY <2>1 DEF ThreadsAreCounted
      <4>2. Cardinality(InThread(g, j)) = Cardinality(InThread(h, j)) + 0
        BY <1>1, <3>2
      <4>3. Len(ids[j]) \in Nat /\ new_ids[j] = ids[j] BY <1>2, <3>2
      <4>4. PICK c : c = 2 * Len(ids[j]) - (IF j \in open THEN 1 ELSE 0) OBVIOUS
      <4>5. c \in Int BY <4>3, <4>4
      <4>6. Cardinality(InThread(g, j)) = c BY <4>1, <4>2, <4>4, <4>5
      <4>7. j \in open \cup {i} <=> j \in open BY <3>2
      <4> QED BY <4>3, <4>4, <4>6, <4>7, Zenon
    <3> QED BY <3>1, <3>2
  <2> QED BY <2>2 DEF ThreadsAreCounted
<1>7. ASSUME NEW p \in DOMAIN g
      PROVE  EventBelongs(g, new_ids, p)
  <2>1. CASE p \in 1..n
    <3>1. h[p].thread \in Threads BY <1>a, <1>1, <2>1 DEF Linked, EventsAreTyped
    <3>2. EventBelongs(h, ids, p) BY <1>a, <1>1, <2>1 DEF Linked
    <3>3. \A k \in 1..Len(ids[h[p].thread]) :
            k \in 1..Len(new_ids[h[p].thread])
            /\ new_ids[h[p].thread][k] = ids[h[p].thread][k]
      BY <1>a, <1>2, <3>1
    <3> QED BY <1>1, <2>1, <3>2, <3>3 DEF EventBelongs
  <2>2. CASE p = n + 1
    <3>1. l + 1 \in 1..Len(new_ids[i]) /\ new_ids[i][l + 1] = id BY <1>2
    <3>2. Cardinality(EarlierInThread(g, p)) = 2 * (l + 1) - 2
      BY <1>1, <1>2, <2>2
    <3> QED BY <1>a, <1>1, <2>2, <3>1, <3>2 DEF EventBelongs
  <2>3. p \in 1..n \/ p = n + 1 BY <1>1
  <2> QED BY <2>1, <2>2, <2>3
<1>8. ASSUME NEW j \in Threads, NEW k \in 1..Len(new_ids[j])
      PROVE  TaskIsRecorded(g, new_ids, open \cup {i}, j, k)
  <2>1. \A p : p \in ResponsesIn(g) <=> p \in ResponsesIn(h)
    BY <1>a, <1>1 DEF ResponsesIn
  <2>2. \A p \in ResponsesIn(h) : p \in 1..n /\ g[p].id = h[p].id
    BY <1>a, <1>1 DEF ResponsesIn
  <2>3. CASE k \in 1..Len(ids[j])
    <3>1. new_ids[j][k] = ids[j][k] BY <1>a, <1>2, <2>3
    <3>2. TaskIsRecorded(h, ids, open, j, k) BY <1>a, <2>3 DEF Linked
    <3>3. (j \in open /\ k = Len(ids[j]))
            <=> (j \in open \cup {i} /\ k = Len(new_ids[j]))
      BY <1>a, <1>2, <2>3
    <3>4. \E p \in DOMAIN g : g[p].type = "invoke" /\ g[p].id = new_ids[j][k]
      BY <1>1, <3>1, <3>2 DEF TaskIsRecorded
    <3>5. (\E p \in ResponsesIn(g) : g[p].id = new_ids[j][k])
            <=> (\E p \in ResponsesIn(h) : h[p].id = ids[j][k])
      BY <2>1, <2>2, <3>1
    <3> QED BY <3>2, <3>3, <3>4, <3>5 DEF TaskIsRecorded
  <2>4. CASE k \notin 1..Len(ids[j])
    <3>1. j = i /\ k = l + 1 /\ new_ids[j][k] = id BY <1>a, <1>2, <2>4
    <3>2. ASSUME NEW p \in ResponsesIn(h) PROVE h[p].id # id
      <4>1. p \in DOMAIN h BY DEF ResponsesIn
      <4>2. EventBelongs(h, ids, p) BY <1>a, <4>1 DEF Linked
      <4>3. h[p].thread \in Threads BY <1>a, <4>1 DEF Linked, EventsAreTyped
      <4> QED BY <1>b, <4>2, <4>3 DEF EventBelongs
    <3>3. k = Len(new_ids[j]) BY <1>2, <3>1
    <3>4. ~ \E p \in ResponsesIn(g) : g[p].id = new_ids[j][k]
      BY <2>1, <2>2, <3>1, <3>2
    <3>5. n + 1 \in DOMAIN g /\ g[n + 1].type = "invoke" /\ g[n + 1].id = new_ids[j][k]
      BY <1>a, <1>1, <3>1
    <3> QED BY <3>1, <3>3, <3>4, <3>5 DEF TaskIsRecorded
  <2> QED BY <2>3, <2>4
<1>9. ASSUME NEW p \in ResponsesIn(g)
      PROVE  ResponseFollows(g, p)
  <2>1. p \in 1..n /\ p \in ResponsesIn(h) BY <1>a, <1>1 DEF ResponsesIn
  <2>2. ResponseFollows(h, p) BY <1>a, <2>1 DEF Linked
  <2>3. \A q \in 1..(p - 1) : q \in 1..n BY <1>1, <2>1
  <2> QED BY <1>1, <2>1, <2>2, <2>3 DEF ResponseFollows
<1> QED BY <1>3, <1>4, <1>5, <1>6, <1>7, <1>8, <1>9 DEF Linked

(* The response of the task that is open in a thread. *)
LEMMA AddResponse ==
  ASSUME NEW h, NEW g, NEW e, Extended(g, h, e),
         NEW ids \in [Threads -> Seq(Nat)], NEW open \in SUBSET Threads,
         NEW i \in open,
         e.type = "response", e.id = ids[i][Len(ids[i])], e.thread = i,
         Linked(h, ids, open)
  PROVE  Linked(g, ids, open \ {i})
<1> DEFINE n == Len(h)  l == Len(ids[i])
<1>1. /\ i \in Threads
      /\ \A j \in Threads : Len(ids[j]) \in Nat
      /\ l > 0
  <2>1. i \in Threads /\ \A j \in Threads : ids[j] \in Seq(Nat) OBVIOUS
  <2> QED BY <2>1, LenProperties DEF Linked
<1>2. /\ n \in Nat /\ DOMAIN h = 1..n /\ DOMAIN g = 1..(n + 1)
      /\ \A p \in 1..n : g[p] = h[p]
      /\ g[n + 1] = e
      /\ \A p \in 1..n : EarlierInThread(g, p) = EarlierInThread(h, p)
      /\ EarlierInThread(g, n + 1) = InThread(h, i)
      /\ \A j : Cardinality(InThread(g, j)) =
                  Cardinality(InThread(h, j)) + (IF j = i THEN 1 ELSE 0)
      /\ Cardinality(InThread(h, i)) = 2 * l - 1
  <2>1. ThreadsAreCounted(h, ids, open) BY DEF Linked
  <2>2. Cardinality(InThread(h, i)) = 2 * l - 1
    BY <1>1, <2>1, Zenon DEF ThreadsAreCounted
  <2> QED BY <2>2 DEF Extended
<1>3. /\ \A j \in open \ {i} : Len(ids[j]) > 0
      /\ IdsAreDistinct(ids)
  BY DEF Linked
<1>4. EventsAreTyped(g)
  BY <1>1, <1>2 DEF Linked, EventsAreTyped
<1>5. ThreadsAreCounted(g, ids, open \ {i})
  <2>1. ThreadsAreCounted(h, ids, open) BY DEF Linked
  <2>2. ASSUME NEW j \in Threads
        PROVE  Cardinality(InThread(g, j))
                 = 2 * Len(ids[j]) - (IF j \in open \ {i} THEN 1 ELSE 0)
    <3>1. CASE j = i BY <1>1, <1>2, <3>1
    <3>2. CASE j # i
      <4>1. Cardinality(InThread(h, j)) = 2 * Len(ids[j]) - (IF j \in open THEN 1 ELSE 0)
        BY <2>1, Zenon DEF ThreadsAreCounted
      <4>2. Cardinality(InThread(g, j)) = Cardinality(InThread(h, j)) + 0
        BY <1>2, <3>2
      <4> QED BY <1>1, <3>2, <4>1, <4>2
    <3> QED BY <3>1, <3>2
  <2> QED BY <2>2 DEF ThreadsAreCounted
<1>6. ASSUME NEW p \in DOMAIN g
      PROVE  EventBelongs(g, ids, p)
  <2>1. CASE p \in 1..n
    <3>1. EventBelongs(h, ids, p) BY <1>2, <2>1 DEF Linked
    <3> QED BY <1>2, <2>1, <3>1 DEF EventBelongs
  <2>2. CASE p = n + 1
    <3>1. l \in 1..Len(ids[i]) BY <1>1
    <3>2. Cardinality(EarlierInThread(g, p)) = 2 * l - 1 BY <1>2, <2>2
    <3> QED BY <1>2, <2>2, <3>1, <3>2 DEF EventBelongs
  <2>3. p \in 1..n \/ p = n + 1 BY <1>2
  <2> QED BY <2>1, <2>2, <2>3
<1>7. ASSUME NEW j \in Threads, NEW k \in 1..Len(ids[j])
      PROVE  TaskIsRecorded(g, ids, open \ {i}, j, k)
  <2>1. TaskIsRecorded(h, ids, open, j, k) BY DEF Linked
  <2>2. \E p \in DOMAIN g : g[p].type = "invoke" /\ g[p].id = ids[j][k]
    BY <1>2, <2>1 DEF TaskIsRecorded
  <2>3. n + 1 \in ResponsesIn(g) /\ g[n + 1].id = ids[i][l]
    BY <1>2 DEF ResponsesIn
  <2>4. \A p \in 1..n : /\ p \in ResponsesIn(g) <=> p \in ResponsesIn(h)
                        /\ g[p].id = h[p].id
    BY <1>2 DEF ResponsesIn
  <2>5. /\ \A p \in ResponsesIn(g) : p \in 1..n \/ p = n + 1
        /\ \A p \in ResponsesIn(h) : p \in 1..n
    BY <1>2 DEF ResponsesIn
  <2>6. CASE j = i /\ k = l
    BY <2>2, <2>3, <2>6 DEF TaskIsRecorded
  <2>7. CASE ~(j = i /\ k = l)
    <3>1. l \in 1..Len(ids[i]) BY <1>1
    <3>2. ids[j][k] # ids[i][l] BY <1>1, <1>3, <2>7, <3>1 DEF IdsAreDistinct
    <3>3. (\E p \in ResponsesIn(g) : g[p].id = ids[j][k])
            <=> (\E p \in ResponsesIn(h) : h[p].id = ids[j][k])
      BY <2>3, <2>4, <2>5, <3>2
    <3>4. (j \in open /\ k = Len(ids[j])) <=> (j \in open \ {i} /\ k = Len(ids[j]))
      BY <2>7
    <3> QED BY <2>1, <2>2, <3>3, <3>4 DEF TaskIsRecorded
  <2> QED BY <2>6, <2>7
<1>8. ASSUME NEW p \in ResponsesIn(g)
      PROVE  ResponseFollows(g, p)
  <2>1. CASE p \in 1..n
    <3>1. p \in ResponsesIn(h) BY <1>2, <2>1 DEF ResponsesIn
    <3>2. ResponseFollows(h, p) BY <3>1 DEF Linked
    <3>3. \A q \in 1..(p - 1) : q \in 1..n BY <1>2, <2>1
    <3> QED BY <1>2, <2>1, <3>2, <3>3 DEF ResponseFollows
  <2>2. CASE p = n + 1
    <3>1. l \in 1..Len(ids[i]) BY <1>1
    <3>2. TaskIsRecorded(h, ids, open, i, l) BY <1>1, <3>1 DEF Linked
    <3>3. PICK q \in DOMAIN h : h[q].type = "invoke" /\ h[q].id = ids[i][l]
      BY <3>2 DEF TaskIsRecorded
    <3>4. q \in 1..(p - 1) /\ g[q] = h[q] BY <1>2, <2>2, <3>3
    <3> QED BY <1>2, <2>2, <3>3, <3>4 DEF ResponseFollows
  <2>3. p \in 1..n \/ p = n + 1 BY <1>2 DEF ResponsesIn
  <2> QED BY <2>1, <2>2, <2>3
<1> QED BY <1>3, <1>4, <1>5, <1>6, <1>7, <1>8 DEF Linked

-----------------------------------------------------------------------------
(* Sequences whose elements can be anything: what a task returns and where *)
(* it goes on is up to the target.                                         *)
IsSeq(s) == s \in Seq(Range(s))

(* u is s with e added at its end, or with e at position m. *)
Appended(u, s, e) ==
  /\ IsSeq(u) /\ Len(s) \in Nat /\ Len(u) = Len(s) + 1
  /\ \A k \in 1..Len(s) : u[k] = s[k]
  /\ u[Len(s) + 1] = e
Replaced(u, s, m, e) ==
  /\ IsSeq(u) /\ Len(s) \in Nat /\ Len(u) = Len(s)
  /\ \A k \in 1..Len(s) : u[k] = IF k = m THEN e ELSE s[k]

(* A sequence over some set is one. *)
LEMMA SeqIsSeq ==
  ASSUME NEW S, NEW s \in Seq(S)
  PROVE  IsSeq(s)
BY SeqOfRange DEF IsSeq

(* The positions of such a sequence. *)
LEMMA SeqDomain ==
  ASSUME NEW s, IsSeq(s)
  PROVE  Len(s) \in Nat /\ DOMAIN s = 1..Len(s)
BY LenProperties DEF IsSeq

(* Append, for such sequences. *)
LEMMA AppendIsSeq ==
  ASSUME NEW s, IsSeq(s), NEW e, NEW u, u = Append(s, e)
  PROVE  Appended(u, s, e)
<1> DEFINE S == Range(s) \cup {e}
<1>1. s \in Seq(S)
  <2>1. s \in Seq(Range(s)) /\ Range(s) \subseteq S BY DEF IsSeq
  <2> QED BY <2>1, SeqMonotonic
<1>2. e \in S OBVIOUS
<1>3. /\ u \in Seq(S) /\ Len(u) = Len(s) + 1
      /\ \A k \in 1..Len(s) : u[k] = s[k]
      /\ u[Len(s) + 1] = e
  BY <1>1, <1>2, AppendProperties
<1>4. Len(s) \in Nat BY <1>1, LenProperties
<1>5. IsSeq(u) BY <1>3, SeqIsSeq
<1> QED BY <1>3, <1>4, <1>5 DEF Appended

(* What the code appends can be taken away again. *)
LEMMA FrontOfAppend ==
  ASSUME NEW s, IsSeq(s), NEW e
  PROVE  Front(Append(s, e)) = s /\ Append(s, e) = s \o <<e>>
<1> DEFINE S == Range(s) \cup {e}
<1>1. s \in Seq(S)
  <2>1. s \in Seq(Range(s)) /\ Range(s) \subseteq S BY DEF IsSeq
  <2> QED BY <2>1, SeqMonotonic
<1>2. e \in S OBVIOUS
<1>3. Append(s, e) = s \o <<e>> BY <1>1, <1>2, AppendIsConcat
<1>4. PICK u : u = Append(s, e) OBVIOUS
<1>5. /\ Len(u) = Len(s) + 1 /\ Len(s) \in Nat
      /\ \A k \in 1..Len(s) : u[k] = s[k]
  BY <1>1, <1>2, <1>4, AppendProperties, LenProperties
<1>6. SubSeq(u, 1, Len(s)) = s
  <2>1. 1 \in Int /\ Len(s) \in Int /\ \A k \in 1..Len(s) : u[k] \in S
    BY <1>1, <1>5, ElementOfSeq
  <2>2. /\ SubSeq(u, 1, Len(s)) \in Seq(S)
        /\ Len(SubSeq(u, 1, Len(s)))
             = IF 1 <= Len(s) THEN Len(s) - 1 + 1 ELSE 0
        /\ \A k \in 1..(Len(s) - 1 + 1) :
             SubSeq(u, 1, Len(s))[k] = u[1 + k - 1]
    BY <2>1, SubSeqProperties
  <2>3. \A k \in 1..Len(s) : 1 + k - 1 = k BY <1>5
  <2>4. Len(s) - 1 + 1 = Len(s) BY <1>5
  <2>5. /\ Len(SubSeq(u, 1, Len(s))) = Len(s)
        /\ \A k \in 1..Len(s) : SubSeq(u, 1, Len(s))[k] = s[k]
    BY <1>5, <2>2, <2>3, <2>4
  <2> QED BY <1>1, <2>2, <2>5, SeqEqual
<1>7. Len(u) - 1 = Len(s) BY <1>5
<1> QED BY <1>3, <1>4, <1>6, <1>7 DEF Front

(* All but the last element. *)
LEMMA FrontIsSeq ==
  ASSUME NEW s, IsSeq(s), NEW n \in Nat, Len(s) = n + 1
  PROVE  /\ IsSeq(Front(s)) /\ Len(Front(s)) = n
         /\ \A k \in 1..n : Front(s)[k] = s[k]
<1>1. s \in Seq(Range(s)) BY DEF IsSeq
<1>2. 1 \in Int /\ n \in Int /\ \A k \in 1..n : s[k] \in Range(s)
  BY <1>1, ElementOfSeq
<1>3. /\ SubSeq(s, 1, n) \in Seq(Range(s))
      /\ Len(SubSeq(s, 1, n)) = IF 1 <= n THEN n - 1 + 1 ELSE 0
      /\ \A k \in 1..(n - 1 + 1) : SubSeq(s, 1, n)[k] = s[1 + k - 1]
  BY <1>2, SubSeqProperties
<1>4. \A k \in 1..n : 1 + k - 1 = k OBVIOUS
<1>5. n - 1 + 1 = n /\ Len(s) - 1 = n /\ (~(1 <= n) => n = 0) OBVIOUS
<1>6. Front(s) = SubSeq(s, 1, n) BY <1>5 DEF Front
<1>7. IsSeq(SubSeq(s, 1, n)) BY <1>3, SeqIsSeq
<1> QED BY <1>3, <1>4, <1>5, <1>6, <1>7

(* Replacing the last element. *)
LEMMA ReplaceLast ==
  ASSUME NEW s, IsSeq(s), NEW n \in Nat, Len(s) = n + 1, NEW e, NEW u,
         u = Append(Front(s), e)
  PROVE  Replaced(u, s, n + 1, e)
<1>1. /\ IsSeq(Front(s)) /\ Len(Front(s)) = n
      /\ \A k \in 1..n : Front(s)[k] = s[k]
  BY FrontIsSeq
<1>2. Appended(u, Front(s), e)
  BY <1>1, AppendIsSeq
<1>3. IsSeq(u) /\ Len(u) = n + 1 /\ u[n + 1] = e
  BY <1>1, <1>2 DEF Appended
<1>4. \A k \in 1..n : u[k] = s[k]
  BY <1>1, <1>2 DEF Appended
<1>5. \A k \in 1..(n + 1) : u[k] = IF k = n + 1 THEN e ELSE s[k]
  BY <1>3, <1>4
<1> QED BY <1>3, <1>5 DEF Replaced

(* Replacing any element. *)
LEMMA ReplaceOne ==
  ASSUME NEW s, IsSeq(s), NEW m \in 1..Len(s), NEW e, NEW u,
         u = [s EXCEPT ![m] = e]
  PROVE  Replaced(u, s, m, e)
<1> DEFINE S == Range(s) \cup {e}
<1>1. s \in Seq(S)
  <2>1. s \in Seq(Range(s)) /\ Range(s) \subseteq S BY DEF IsSeq
  <2> QED BY <2>1, SeqMonotonic
<1>2. e \in S OBVIOUS
<1>3. /\ u \in Seq(S) /\ Len(u) = Len(s)
      /\ \A k \in 1..Len(s) : u[k] = IF k = m THEN e ELSE s[k]
  BY <1>1, <1>2, ExceptSeq
<1>4. IsSeq(u) BY <1>3, SeqIsSeq
<1>5. Len(s) \in Nat BY <1>1, LenProperties
<1> QED BY <1>3, <1>4, <1>5 DEF Replaced

-----------------------------------------------------------------------------
(* A task is a record with the fields New gives it. *)
Fields == {"id", "call", "thread", "loc", "returned", "ret", "fstate"}
IsTask(t) == DOMAIN t = Fields /\ t.id \in Nat
IsQueue(q) == IsSeq(q) /\ \A k \in 1..Len(q) : IsTask(q[k])
AreQueues(th) == DOMAIN th = Threads /\ \A i \in Threads : IsQueue(th[i])

(* What the history reflects of queues. *)
IdsOf(th) == [i \in Threads |-> [k \in 1..Len(th[i]) |-> th[i][k].id]]
IsOpen(q) == Len(q) > 0 /\ ~IsReturned(q[Len(q)])
OpenOf(th) == {i \in Threads : IsOpen(th[i])}

(* What of a task IsBlocked leaves alone. *)
Alike(t, v) ==
  /\ IsTask(v)
  /\ v.id = t.id /\ v.call = t.call /\ v.thread = t.thread /\ v.loc = t.loc
  /\ v.returned = t.returned /\ v.ret = t.ret
AlikeQueues(tg, th) ==
  /\ AreQueues(tg)
  /\ \A i \in Threads : Len(tg[i]) = Len(th[i])
  /\ \A i \in Threads : \A k \in 1..Len(th[i]) : Alike(th[i][k], tg[i][k])

(* tg are the queues th with the task r at the end of thread i, or at      *)
(* position k of it.                                                       *)
TaskAdded(tg, th, i, r) ==
  /\ DOMAIN tg = Threads
  /\ Appended(tg[i], th[i], r)
  /\ \A j \in Threads : j # i => tg[j] = th[j]
TaskChanged(tg, th, i, k, r) ==
  /\ DOMAIN tg = Threads
  /\ Replaced(tg[i], th[i], k, r)
  /\ \A j \in Threads : j # i => tg[j] = th[j]

(* A new task, and what a resume and a look at it leave alone. *)
LEMMA TasksStayTasks ==
  /\ \A id \in Nat : \A c, i : /\ IsTask(New(id, c, i)) /\ New(id, c, i).id = id
                               /\ New(id, c, i).call = c
  /\ \A t, obj : IsTask(t) => /\ IsTask(Resumed(t, obj)) /\ Resumed(t, obj).id = t.id
                              /\ Resumed(t, obj).call = t.call
  /\ \A t, obj : IsTask(t) => Alike(t, AfterIsBlocked(t, obj))
<1>1. ASSUME NEW id \in Nat, NEW c, NEW i
      PROVE  /\ IsTask(New(id, c, i)) /\ New(id, c, i).id = id
             /\ New(id, c, i).call = c
  BY DEF IsTask, Fields, New
<1>2. ASSUME NEW t, NEW obj, IsTask(t)
      PROVE  /\ IsTask(Resumed(t, obj)) /\ Resumed(t, obj).id = t.id
             /\ Resumed(t, obj).call = t.call
  BY <1>2 DEF IsTask, Fields, Resumed
<1>3. ASSUME NEW t, NEW obj, IsTask(t)
      PROVE  Alike(t, AfterIsBlocked(t, obj))
  BY <1>3 DEF IsTask, Alike, Fields, AfterIsBlocked
<1> QED BY <1>1, <1>2, <1>3

(* A queue is empty exactly if its length is 0. *)
LEMMA EmptyQueue ==
  ASSUME NEW q, IsQueue(q)
  PROVE  Len(q) \in Nat /\ (q = << >> <=> Len(q) = 0)
<1>1. q \in Seq(Range(q)) BY DEF IsQueue, IsSeq
<1>2. Len(q) \in Nat BY <1>1, LenProperties
<1>3. q # << >> => Len(q) \in Nat \ {0} BY <1>1, EmptySeq
<1>4. q = << >> => Len(q) = 0 BY EmptySeq
<1> QED BY <1>2, <1>3, <1>4

(* Pick changes nothing of the queues that the history reflects. *)
LEMMA LookingKeepsTasks ==
  ASSUME AreQueues(threads), NEW S
  PROVE  AlikeQueues(AfterLooking(S), threads)
<1>1. ASSUME NEW i \in Threads
      PROVE  /\ IsQueue(AfterLooking(S)[i])
             /\ Len(AfterLooking(S)[i]) = Len(threads[i])
             /\ \A k \in 1..Len(threads[i]) :
                  Alike(threads[i][k], AfterLooking(S)[i][k])
  <2>1. PICK q : q = threads[i] OBVIOUS
  <2>2. PICK u : u = AfterLooking(S)[i] OBVIOUS
  <2>3. IsQueue(q) BY <2>1 DEF AreQueues
  <2>4. Len(q) \in Nat /\ (q = << >> <=> Len(q) = 0) BY <2>3, EmptyQueue
  <2>5. \A k \in 1..Len(q) : IsTask(q[k]) BY <2>3 DEF IsQueue
  <2>6. IsQueue(u) /\ Len(u) = Len(q) /\ \A k \in 1..Len(q) : Alike(q[k], u[k])
    <3>1. CASE i \in S /\ q # << >> /\ ~IsParked(Last(q), parked)
      <4>1. PICK e : e = AfterIsBlocked(q[Len(q)], state) OBVIOUS
      <4>2. u = [q EXCEPT ![Len(q)] = e]
        BY <2>1, <2>2, <3>1, <4>1 DEF AfterLooking
      <4>3. Len(q) \in 1..Len(q) BY <2>4, <3>1
      <4>4. IsSeq(q) BY <2>3 DEF IsQueue
      <4>5. Replaced(u, q, Len(q), e) BY <4>2, <4>3, <4>4, ReplaceOne
      <4>6. Alike(q[Len(q)], e) BY <2>5, <4>1, <4>3, TasksStayTasks
      <4>7. \A k \in 1..Len(q) : Alike(q[k], q[k])
        BY <2>5 DEF Alike
      <4>8. \A k \in 1..Len(q) : Alike(q[k], u[k])
        BY <4>5, <4>6, <4>7 DEF Replaced
      <4>9. IsSeq(u) /\ Len(u) = Len(q) BY <4>5 DEF Replaced
      <4>10. \A k \in 1..Len(u) : IsTask(u[k]) BY <4>8, <4>9 DEF Alike
      <4> QED BY <4>8, <4>9, <4>10 DEF IsQueue
    <3>2. CASE ~(i \in S /\ q # << >> /\ ~IsParked(Last(q), parked))
      <4>1. u = q BY <2>1, <2>2, <3>2 DEF AfterLooking
      <4> QED BY <2>3, <2>5, <4>1 DEF Alike
    <3> QED BY <3>1, <3>2
  <2> QED BY <2>1, <2>2, <2>6
<1>2. DOMAIN AfterLooking(S) = Threads BY DEF AfterLooking
<1> QED BY <1>1, <1>2 DEF AlikeQueues, AreQueues

(* Alike queues have the same ids and open threads. *)
LEMMA AlikeQueuesReflectTheSame ==
  ASSUME NEW th, AreQueues(th), NEW tg, AlikeQueues(tg, th)
  PROVE  IdsOf(tg) = IdsOf(th) /\ OpenOf(tg) = OpenOf(th)
<1>1. ASSUME NEW i \in Threads
      PROVE  /\ Len(th[i]) \in Nat
             /\ Len(tg[i]) = Len(th[i])
             /\ \A k \in 1..Len(th[i]) : tg[i][k].id = th[i][k].id
             /\ IsOpen(tg[i]) <=> IsOpen(th[i])
  <2>1. IsQueue(th[i]) BY DEF AreQueues
  <2>2. Len(th[i]) \in Nat BY <2>1, EmptyQueue
  <2>3. Len(tg[i]) = Len(th[i]) BY DEF AlikeQueues
  <2>4. \A k \in 1..Len(th[i]) :
          tg[i][k].id = th[i][k].id /\ tg[i][k].returned = th[i][k].returned
    BY DEF AlikeQueues, Alike
  <2>5. Len(th[i]) > 0 => Len(th[i]) \in 1..Len(th[i]) BY <2>2
  <2> QED BY <2>2, <2>3, <2>4, <2>5 DEF IsOpen, IsReturned
<1>2. IdsOf(tg) = IdsOf(th) BY <1>1 DEF IdsOf
<1>3. OpenOf(tg) = OpenOf(th) BY <1>1 DEF OpenOf
<1> QED BY <1>2, <1>3

(* The ids of queues are sequences of numbers. *)
LEMMA IdsAreTyped ==
  ASSUME NEW th, AreQueues(th)
  PROVE  /\ IdsOf(th) \in [Threads -> Seq(Nat)]
         /\ \A i \in Threads : Len(th[i]) \in Nat /\ Len(IdsOf(th)[i]) = Len(th[i])
<1>1. ASSUME NEW i \in Threads
      PROVE  /\ IdsOf(th)[i] \in Seq(Nat)
             /\ Len(th[i]) \in Nat /\ Len(IdsOf(th)[i]) = Len(th[i])
  <2>1. IsQueue(th[i]) BY DEF AreQueues
  <2>2. PICK n \in Nat : Len(th[i]) = n BY <2>1, EmptyQueue
  <2>3. PICK u : u = IdsOf(th)[i] OBVIOUS
  <2>4. u = [k \in 1..n |-> th[i][k].id] BY <2>2, <2>3 DEF IdsOf
  <2>5. \A k \in 1..n : th[i][k].id \in Nat BY <2>1, <2>2 DEF IsQueue, IsTask
  <2>6. u \in [1..n -> Nat] BY <2>4, <2>5
  <2>7. u \in Seq(Nat) BY <2>6, SeqDef
  <2>8. Len(u) = n BY <2>6, <2>7, LenProperties
  <2> QED BY <2>2, <2>3, <2>7, <2>8
<1>2. IdsOf(th) = [i \in Threads |-> IdsOf(th)[i]] BY DEF IdsOf
<1> QED BY <1>1, <1>2

(* A task was added to a thread. *)
LEMMA AddingReflects ==
  ASSUME NEW th, AreQueues(th), NEW tg, NEW i \in Threads, NEW r, IsTask(r),
         TaskAdded(tg, th, i, r)
  PROVE  /\ AreQueues(tg)
         /\ IdAdded(IdsOf(tg), IdsOf(th), i, r.id)
         /\ OpenOf(tg) = IF IsReturned(r) THEN OpenOf(th) \ {i} ELSE OpenOf(th) \cup {i}
<1>1. Appended(tg[i], th[i], r) /\ \A j \in Threads : j # i => tg[j] = th[j]
  BY DEF TaskAdded
<1>2. PICK n \in Nat : n = Len(th[i]) BY IdsAreTyped
<1>3. /\ IsSeq(tg[i]) /\ Len(tg[i]) = n + 1
      /\ \A k \in 1..n : tg[i][k] = th[i][k]
      /\ tg[i][n + 1] = r
  BY <1>1, <1>2 DEF Appended
<1>4. AreQueues(tg)
  <2>1. \A k \in 1..n : IsTask(th[i][k]) BY <1>2 DEF AreQueues, IsQueue
  <2>2. \A k \in 1..(n + 1) : IsTask(tg[i][k]) BY <1>3, <2>1
  <2>3. IsQueue(tg[i]) BY <1>3, <2>2 DEF IsQueue
  <2> QED BY <1>1, <2>3 DEF AreQueues, TaskAdded
<1>5. ASSUME NEW j \in Threads
      PROVE  IdsOf(tg)[j] = [IdsOf(th) EXCEPT ![i] = Append(IdsOf(th)[i], r.id)][j]
  <2>1. CASE j # i BY <1>1, <2>1 DEF IdsOf
  <2>2. CASE j = i
    <3>1. PICK a : a = IdsOf(th)[i] OBVIOUS
    <3>2. PICK b : b = IdsOf(tg)[i] OBVIOUS
    <3>3. a \in Seq(Nat) /\ Len(a) = n BY <1>2, <3>1, IdsAreTyped
    <3>4. b \in Seq(Nat) /\ Len(b) = n + 1 BY <1>3, <1>4, <3>2, IdsAreTyped
    <3>5. \A k \in 1..n : b[k] = a[k] BY <1>2, <1>3, <3>1, <3>2 DEF IdsOf
    <3>6. b[n + 1] = r.id BY <1>3, <3>2 DEF IdsOf
    <3>7. r.id \in Nat BY DEF IsTask
    <3>8. PICK u : u = Append(a, r.id) OBVIOUS
    <3>9. u \in Seq(Nat) /\ Len(u) = n + 1 /\ u[n + 1] = r.id
      BY <3>3, <3>7, <3>8, AppendProperties
    <3>10. \A k \in 1..n : u[k] = a[k] BY <3>3, <3>7, <3>8, AppendProperties
    <3>11. \A k \in 1..(n + 1) : u[k] = b[k]
      BY <3>5, <3>6, <3>9, <3>10
    <3>12. u = b BY <3>4, <3>9, <3>11, SeqEqual
    <3>13. [IdsOf(th) EXCEPT ![i] = Append(IdsOf(th)[i], r.id)][i] = u
      BY <3>1, <3>8 DEF IdsOf
    <3> QED BY <2>2, <3>2, <3>12, <3>13
  <2> QED BY <2>1, <2>2
<1>6. IdAdded(IdsOf(tg), IdsOf(th), i, r.id)
  <2>1. DOMAIN IdsOf(tg) = Threads /\ DOMAIN IdsOf(th) = Threads BY DEF IdsOf
  <2>2. IdsOf(tg) = [j \in Threads |-> IdsOf(tg)[j]] BY DEF IdsOf
  <2> QED BY <1>5, <2>1, <2>2 DEF IdAdded
<1>7. IsOpen(tg[i]) <=> ~IsReturned(r) BY <1>3 DEF IsOpen
<1>8. \A j \in Threads : j # i => (IsOpen(tg[j]) <=> IsOpen(th[j])) BY <1>1
<1>9. OpenOf(tg) = IF IsReturned(r) THEN OpenOf(th) \ {i} ELSE OpenOf(th) \cup {i}
  BY <1>7, <1>8 DEF OpenOf
<1> QED BY <1>4, <1>6, <1>9

(* A task was resumed: it keeps its id. *)
LEMMA ChangingReflects ==
  ASSUME NEW th, AreQueues(th), NEW tg, NEW i \in Threads,
         NEW m \in 1..Len(th[i]), NEW r, IsTask(r), r.id = th[i][m].id,
         TaskChanged(tg, th, i, m, r)
  PROVE  /\ AreQueues(tg)
         /\ IdsOf(tg) = IdsOf(th)
         /\ m = Len(th[i]) =>
              OpenOf(tg) = IF IsReturned(r) THEN OpenOf(th) \ {i}
                           ELSE OpenOf(th) \cup {i}
<1>1. Replaced(tg[i], th[i], m, r) /\ \A j \in Threads : j # i => tg[j] = th[j]
  BY DEF TaskChanged
<1>2. PICK n \in Nat : n = Len(th[i]) BY IdsAreTyped
<1>3. /\ IsSeq(tg[i]) /\ Len(tg[i]) = n
      /\ \A k \in 1..n : tg[i][k] = IF k = m THEN r ELSE th[i][k]
  BY <1>1, <1>2 DEF Replaced
<1>4. AreQueues(tg)
  <2>1. \A k \in 1..n : IsTask(th[i][k]) BY <1>2 DEF AreQueues, IsQueue
  <2>2. \A k \in 1..n : IsTask(tg[i][k]) BY <1>3, <2>1
  <2>3. IsQueue(tg[i]) BY <1>3, <2>2 DEF IsQueue
  <2> QED BY <1>1, <2>3 DEF AreQueues, TaskChanged
<1>5. IdsOf(tg) = IdsOf(th)
  <2>1. \A k \in 1..n : tg[i][k].id = th[i][k].id BY <1>3
  <2>2. \A j \in Threads : [k \in 1..Len(tg[j]) |-> tg[j][k].id]
                             = [k \in 1..Len(th[j]) |-> th[j][k].id]
    BY <1>1, <1>2, <1>3, <2>1
  <2> QED BY <2>2 DEF IdsOf
<1>6. ASSUME m = Len(th[i])
      PROVE  OpenOf(tg) = IF IsReturned(r) THEN OpenOf(th) \ {i}
                          ELSE OpenOf(th) \cup {i}
  <2>1. IsOpen(tg[i]) <=> ~IsReturned(r) BY <1>2, <1>3, <1>6 DEF IsOpen
  <2>2. \A j \in Threads : j # i => (IsOpen(tg[j]) <=> IsOpen(th[j])) BY <1>1
  <2> QED BY <2>1, <2>2 DEF OpenOf
<1> QED BY <1>4, <1>5, <1>6

-----------------------------------------------------------------------------
(* What holds in every phase. *)
StateInv ==
  /\ kind \in Kinds
  /\ AreQueues(threads)
  /\ new_task_id \in Nat
  /\ next_task \in Threads
  /\ thread_index \in 0..threads_count
  /\ task_indexes \in [Threads -> Nat \ {0}]
  /\ IsSeq(sequential_history)

(* What a strategy picks is a thread that it has looked at and whose last  *)
(* task neither is parked nor waits.                                       *)
PickOK(p) ==
  /\ p.thread \in Threads /\ p.next \in Threads
  /\ p.thread \in p.looked /\ ~Skipped(p.thread)

(* All strategies pick in this way. *)
LEMMA PicksAreThreads ==
  ASSUME StateInv
  PROVE  \A p \in Picks : PickOK(p)
<1>1. next_task \in Threads /\ threads_count \in Nat \ {0}
  BY ThreadsAssumption DEF StateInv
<1>2. \A p \in RandomPicks : PickOK(p)
  BY <1>1 DEF RandomPicks, PickOK
<1>3. \A p \in PctPicks : PickOK(p)
  BY <1>1 DEF PctPicks, HighestOf, PickOK
<1>4. \A a \in Nat : Attempt(a) \in Threads
  <2>1. \A x \in Nat : x % threads_count \in 0..(threads_count - 1) BY <1>1
  <2> QED BY <1>1, <2>1 DEF Attempt, Threads
<1>5. \A p \in RoundRobinPicks : PickOK(p)
  <2>1. ASSUME NEW p \in RoundRobinPicks
        PROVE  \E a \in Threads :
                 /\ p.thread = Attempt(a) /\ p.next = Attempt(a + 1)
                 /\ p.looked = {Attempt(b) : b \in 0..a} /\ ~Skipped(Attempt(a))
    BY DEF RoundRobinPicks
  <2>2. \A a \in Threads : a \in Nat /\ a + 1 \in Nat /\ a \in 0..a
    BY <1>1 DEF Threads
  <2> QED BY <1>4, <2>1, <2>2 DEF PickOK
<1>6. kind = "random" \/ kind = "rr" \/ kind = "pct"
  BY KindAssumption DEF StateInv
<1> QED BY <1>2, <1>3, <1>5, <1>6 DEF Picks

(* The thread of a pick needs a task exactly if its last one is not open. *)
LEMMA NeedsTaskIsClosed ==
  ASSUME StateInv, NEW i \in Threads
  PROVE  NeedsTask(i) <=> ~IsOpen(threads[i])
<1>1. IsQueue(threads[i]) BY DEF StateInv, AreQueues
<1>2. Len(threads[i]) \in Nat /\ (threads[i] = << >> <=> Len(threads[i]) = 0)
  BY <1>1, EmptyQueue
<1> QED BY <1>2 DEF NeedsTask, IsOpen, Last

(* The two steps of RunRound that resume a task: a look at the queues      *)
(* gives th, then the task r, new in thread i or resumed in it, is stored. *)
Starts(i, c, th, r) ==
  /\ ~Skipped(i) /\ \E S : i \in S /\ th = AfterLooking(S)
  /\ AlikeQueues(th, threads)
  /\ ~IsOpen(threads[i])
  /\ c \in Creates(i)
  /\ r = Resumed(New(new_task_id, c, i), state)
  /\ ~Fails(New(new_task_id, c, i), state)
  /\ state' = ObjAfter(New(new_task_id, c, i), state)
  /\ parked' = ParkedAfter(New(new_task_id, c, i), state, parked)
  /\ TaskAdded(threads', th, i, r)
  /\ Record(i, r, TRUE)
Resumes(i, th, r) ==
  /\ ~Skipped(i) /\ \E S : i \in S /\ th = AfterLooking(S)
  /\ AlikeQueues(th, threads)
  /\ IsOpen(threads[i])
  /\ r = Resumed(th[i][Len(th[i])], state)
  /\ ~Fails(th[i][Len(th[i])], state)
  /\ state' = ObjAfter(th[i][Len(th[i])], state)
  /\ parked' = ParkedAfter(th[i][Len(th[i])], state, parked)
  /\ TaskChanged(threads', th, i, Len(th[i]), r)
  /\ Record(i, r, FALSE)

(* Every start of a task has this shape. *)
LEMMA StartShape ==
  ASSUME StateInv, StartTask
  PROVE  /\ next_task' \in Threads
         /\ \E i \in Threads : \E c, th, r : Starts(i, c, th, r)
<1>1. PICK p \in Picks :
        /\ NeedsTask(p.thread)
        /\ \E c \in Creates(p.thread) :
             LET i  == p.thread
                 t  == New(new_task_id, c, i)
                 th == [AfterLooking(p.looked) EXCEPT ![i] = Append(@, t)]
             IN /\ ~Fails(t, state)
                /\ ResumeLast(th, i)
                /\ Record(i, Resumed(t, state), TRUE)
        /\ AfterPick(p)
  BY DEF StartTask
<1>2. p.thread \in Threads /\ next_task' \in Threads
  BY <1>1, PicksAreThreads DEF AfterPick, PickOK
<1>3. PICK i \in Threads : i = p.thread /\ ~Skipped(i) /\ i \in p.looked
  BY <1>1, <1>2, PicksAreThreads DEF PickOK
<1>4. PICK th : th = AfterLooking(p.looked) OBVIOUS
<1>5. PICK c \in Creates(i) :
        /\ ~Fails(New(new_task_id, c, i), state)
        /\ ResumeLast([th EXCEPT ![i] = Append(@, New(new_task_id, c, i))], i)
        /\ Record(i, Resumed(New(new_task_id, c, i), state), TRUE)
  BY <1>1, <1>3, <1>4
<1>6. AlikeQueues(th, threads)
  BY <1>4, LookingKeepsTasks DEF StateInv
<1>7. PICK t : t = New(new_task_id, c, i) OBVIOUS
<1>8. PICK r : r = Resumed(t, state) OBVIOUS
<1>9. /\ TaskAdded(threads', th, i, r)
      /\ state' = ObjAfter(t, state) /\ parked' = ParkedAfter(t, state, parked)
  <2>1. PICK u : u = Append(th[i], t) OBVIOUS
  <2>2. PICK tu : tu = [th EXCEPT ![i] = u] OBVIOUS
  <2>3. DOMAIN th = Threads /\ IsSeq(th[i])
    BY <1>6 DEF AlikeQueues, AreQueues, IsQueue
  <2>4. tu[i] = u /\ DOMAIN tu = Threads /\ \A j \in Threads : j # i => tu[j] = th[j]
    BY <2>2, <2>3
  <2>5. ResumeLast(tu, i) BY <1>5, <1>7, <2>1, <2>2
  <2>6. Appended(u, th[i], t) BY <2>1, <2>3, AppendIsSeq
  <2>7. u[Len(u)] = t BY <2>6 DEF Appended
  <2>8. threads' = [tu EXCEPT ![i] = Append(Front(u), r)]
    BY <1>8, <2>4, <2>5, <2>7 DEF ResumeLast, Last
  <2>9. Front(u) = th[i] BY <2>1, <2>3, FrontOfAppend
  <2>10. /\ threads'[i] = Append(th[i], r) /\ DOMAIN threads' = Threads
         /\ \A j \in Threads : j # i => threads'[j] = th[j]
    BY <2>4, <2>8, <2>9
  <2>11. Appended(threads'[i], th[i], r) BY <2>3, <2>10, AppendIsSeq
  <2>12. state' = ObjAfter(t, state) /\ parked' = ParkedAfter(t, state, parked)
    BY <2>4, <2>5, <2>7 DEF ResumeLast, Last
  <2> QED BY <2>10, <2>11, <2>12 DEF TaskAdded
<1>10. ~IsOpen(threads[i]) BY <1>1, <1>3, NeedsTaskIsClosed
<1>11. Starts(i, c, th, r)
  BY <1>3, <1>4, <1>5, <1>6, <1>7, <1>8, <1>9, <1>10 DEF Starts
<1> QED BY <1>2, <1>11

(* Every resume of a task has this shape. *)
LEMMA ResumeShape ==
  ASSUME StateInv, ResumeTask
  PROVE  /\ next_task' \in Threads
         /\ \E i \in Threads : \E th, r : Resumes(i, th, r)
<1>1. PICK p \in Picks :
        /\ ~NeedsTask(p.thread)
        /\ LET th == AfterLooking(p.looked)
               t  == Last(th[p.thread])
           IN /\ ~Fails(t, state)
              /\ ResumeLast(th, p.thread)
              /\ Record(p.thread, Resumed(t, state), FALSE)
        /\ AfterPick(p)
  BY DEF ResumeTask
<1>2. p.thread \in Threads /\ next_task' \in Threads
  BY <1>1, PicksAreThreads DEF AfterPick, PickOK
<1>3. PICK i \in Threads : i = p.thread /\ ~Skipped(i) /\ i \in p.looked
  BY <1>1, <1>2, PicksAreThreads DEF PickOK
<1>4. PICK th : th = AfterLooking(p.looked) OBVIOUS
<1>5. PICK t : t = th[i][Len(th[i])] OBVIOUS
<1>6. PICK r : r = Resumed(t, state) OBVIOUS
<1>7. ~Fails(t, state) /\ ResumeLast(th, i) /\ Record(i, r, FALSE)
  BY <1>1, <1>3, <1>4, <1>5, <1>6 DEF Last
<1>8. AlikeQueues(th, threads)
  BY <1>4, LookingKeepsTasks DEF StateInv
<1>9. IsOpen(threads[i]) BY <1>1, <1>3, NeedsTaskIsClosed
<1>10. /\ TaskChanged(threads', th, i, Len(th[i]), r)
       /\ state' = ObjAfter(t, state) /\ parked' = ParkedAfter(t, state, parked)
  <2>1. DOMAIN th = Threads /\ IsQueue(th[i]) /\ Len(th[i]) = Len(threads[i])
    BY <1>8 DEF AlikeQueues, AreQueues
  <2>2. Len(th[i]) \in Nat /\ IsSeq(th[i]) BY <2>1, EmptyQueue DEF IsQueue
  <2>3. PICK n \in Nat : Len(th[i]) = n + 1
    <3>1. Len(th[i]) - 1 \in Nat /\ Len(th[i]) = (Len(th[i]) - 1) + 1
      BY <1>9, <2>1, <2>2 DEF IsOpen
    <3> QED BY <3>1
  <2>4. threads' = [th EXCEPT ![i] = Append(Front(th[i]), r)]
    BY <1>5, <1>6, <1>7 DEF ResumeLast, Last
  <2>5. /\ threads'[i] = Append(Front(th[i]), r) /\ DOMAIN threads' = Threads
        /\ \A j \in Threads : j # i => threads'[j] = th[j]
    BY <2>1, <2>4
  <2>6. Replaced(threads'[i], th[i], n + 1, r)
    BY <2>2, <2>3, <2>5, ReplaceLast
  <2>7. state' = ObjAfter(t, state) /\ parked' = ParkedAfter(t, state, parked)
    BY <1>5, <1>7 DEF ResumeLast, Last
  <2> QED BY <2>3, <2>5, <2>6, <2>7 DEF TaskChanged
<1>11. Resumes(i, th, r)
  BY <1>3, <1>4, <1>5, <1>6, <1>7, <1>8, <1>9, <1>10 DEF Resumes
<1> QED BY <1>2, <1>11

(* Where TerminateTasks finds the next task of a thread. *)
LEMMA FirstUnreturnedIsTask ==
  ASSUME StateInv, NEW i \in Threads, NEW k, k = FirstUnreturned(i)
  PROVE  /\ k \in Nat \ {0}
         /\ k <= Len(threads[i]) => k \in 1..Len(threads[i]) /\ ~IsReturned(threads[i][k])
<1> DEFINE open == {m \in task_indexes[i]..Len(threads[i]) : ~IsReturned(threads[i][m])}
<1>1. Len(threads[i]) \in Nat /\ task_indexes[i] \in Nat \ {0}
  BY IdsAreTyped DEF StateInv
<1>2. open \subseteq Nat /\ \A m \in open : m \in 1..Len(threads[i]) BY <1>1
<1>3. CASE open = {}
  BY <1>1, <1>3 DEF FirstUnreturned
<1>4. CASE open # {}
  <2>1. PICK m \in open : \A x \in open : <<x, m>> \notin OpToRel(<, Nat)
    <3> HIDE DEF open
    <3> QED BY <1>2, <1>4, NatLessThanWellFounded, WFMin
  <2>2. \A x \in open : m <= x
    <3> HIDE DEF open
    <3>1. \A x \in open : ~(x < m) BY <1>2, <2>1, Zenon DEF OpToRel
    <3>2. m \in Nat /\ \A x \in open : x \in Nat BY <1>2
    <3> QED BY <3>1, <3>2
  <2>3. k = CHOOSE y \in open : \A x \in open : y <= x
    BY <1>4 DEF FirstUnreturned
  <2>4. k \in open BY <2>2, <2>3
  <2> QED BY <1>1, <1>2, <2>4
<1> QED BY <1>3, <1>4

(* One visit of TerminateTasks resumes at most one task. *)
LEMMA VisitShape ==
  ASSUME StateInv, thread_index \in Threads, VisitThread
  PROVE  /\ task_indexes' \in [Threads -> Nat \ {0}]
         /\ \/ UNCHANGED <<threads, state, parked, has_nonterminated_threads>>
            \/ \E m \in 1..Len(threads[thread_index]) : \E t, r :
                 /\ ~IsReturned(threads[thread_index][m])
                 /\ t = AfterIsBlocked(threads[thread_index][m], state)
                 /\ r = Resumed(t, state) /\ ~Fails(t, state)
                 /\ IsTask(r) /\ r.id = threads[thread_index][m].id
                 /\ TaskChanged(threads', threads, thread_index, m, r)
                 /\ state' = ObjAfter(t, state)
                 /\ parked' = ParkedAfter(t, state, parked)
                 /\ has_nonterminated_threads' = TRUE
<1>1. PICK i \in Threads : i = thread_index OBVIOUS
<1>2. PICK k : k = FirstUnreturned(i) OBVIOUS
<1>3. /\ k \in Nat \ {0}
      /\ k <= Len(threads[i]) => k \in 1..Len(threads[i]) /\ ~IsReturned(threads[i][k])
  BY <1>2, FirstUnreturnedIsTask
<1>4. task_indexes \in [Threads -> Nat \ {0}] /\ AreQueues(threads) BY DEF StateInv
<1>5. CASE /\ UNCHANGED <<threads, state, parked, has_nonterminated_threads>>
           /\ \/ task_indexes' = [task_indexes EXCEPT ![i] = k]
              \/ task_indexes' = [task_indexes EXCEPT ![i] = k + 1]
  BY <1>1, <1>3, <1>4, <1>5
<1>6. CASE /\ k <= Len(threads[i])
           /\ LET t == AfterIsBlocked(threads[i][k], state)
              IN /\ ~Fails(t, state)
                 /\ threads' = [threads EXCEPT ![i][k] = Resumed(t, state)]
                 /\ state' = ObjAfter(t, state)
                 /\ parked' = ParkedAfter(t, state, parked)
           /\ task_indexes' = [task_indexes EXCEPT ![i] = k]
           /\ has_nonterminated_threads' = TRUE
  <2>1. k \in 1..Len(threads[i]) /\ ~IsReturned(threads[i][k]) BY <1>3, <1>6
  <2>2. PICK t, r : /\ t = AfterIsBlocked(threads[i][k], state)
                    /\ r = Resumed(t, state)
    OBVIOUS
  <2>3. IsQueue(threads[i]) /\ DOMAIN threads = Threads BY <1>4 DEF AreQueues
  <2>4. IsTask(threads[i][k]) BY <2>1, <2>3 DEF IsQueue
  <2>5. Alike(threads[i][k], AfterIsBlocked(threads[i][k], state))
    BY <2>4, TasksStayTasks
  <2>6. IsTask(r) /\ r.id = threads[i][k].id
    BY <2>2, <2>5, TasksStayTasks DEF Alike
  <2>7. PICK u : u = [threads[i] EXCEPT ![k] = r] OBVIOUS
  <2>8. threads' = [threads EXCEPT ![i] = u]
    BY <1>6, <2>2, <2>7
  <2>9. Replaced(u, threads[i], k, r)
    BY <2>1, <2>3, <2>7, ReplaceOne DEF IsQueue
  <2>10. TaskChanged(threads', threads, i, k, r)
    BY <2>3, <2>8, <2>9 DEF TaskChanged
  <2>11. task_indexes' \in [Threads -> Nat \ {0}] BY <1>3, <1>4, <1>6
  <2>12. /\ ~Fails(t, state) /\ state' = ObjAfter(t, state)
         /\ parked' = ParkedAfter(t, state, parked) /\ has_nonterminated_threads' = TRUE
    BY <1>6, <2>2
  <2> QED BY <1>1, <2>1, <2>2, <2>6, <2>10, <2>11, <2>12
<1> QED BY <1>1, <1>2, <1>5, <1>6 DEF VisitThread

-----------------------------------------------------------------------------
(* The inductive invariant: while a round is run its history belongs to    *)
(* its queues, finished_tasks counts the responses, ids are not yet used   *)
(* from new_task_id on, and only the last task of a thread is unfinished.  *)
IdsAreOld(ids, id) == \A i \in Threads : \A k \in 1..Len(ids[i]) : ids[i][k] < id
OnlyLastIsOpen(th) ==
  \A i \in Threads : \A k \in 1..Len(th[i]) : k < Len(th[i]) => IsReturned(th[i][k])
HistoryInv ==
  phase = "run" =>
    /\ Linked(sequential_history, IdsOf(threads), OpenOf(threads))
    /\ finished_tasks = Cardinality(ResponsesIn(sequential_history))
    /\ IdsAreOld(IdsOf(threads), new_task_id)
    /\ OnlyLastIsOpen(threads)

(* How a history grows. *)
LEMMA HistoryGrows ==
  ASSUME NEW h, IsSeq(h), NEW e
  PROVE  /\ h \o << >> = h
         /\ h \o <<e>> = Append(h, e)
         /\ IsSeq(Append(h, e))
         /\ Extended(Append(h, e), h, e)
<1>1. h \in Seq(Range(h)) BY DEF IsSeq
<1>2. h \o << >> = h BY <1>1, ConcatEmptySeq
<1>3. h \o <<e>> = Append(h, e) BY FrontOfAppend
<1>4. IsSeq(Append(h, e)) BY AppendIsSeq DEF Appended
<1> DEFINE S == Range(h) \cup {e}
<1>5. h \in Seq(S) BY <1>1, SeqMonotonic
<1>6. Extended(Append(h, e), h, e) BY <1>5, AppendExtends
<1> QED BY <1>2, <1>3, <1>4, <1>6

(* An empty round. *)
LEMMA EmptyRound ==
  ASSUME NEW th, th = [i \in Threads |-> << >>]
  PROVE  /\ AreQueues(th)
         /\ IsSeq(<< >>)
         /\ Linked(<< >>, IdsOf(th), OpenOf(th))
         /\ Cardinality(ResponsesIn(<< >>)) = 0
         /\ IdsAreOld(IdsOf(th), 0)
         /\ OnlyLastIsOpen(th)
<1>1. IsSeq(<< >>) BY EmptySeq, SeqIsSeq
<1>2. Len(<< >>) = 0 BY EmptySeq
<1>3. \A i \in Threads : Len(th[i]) = 0 BY <1>2
<1>4. AreQueues(th) BY <1>1, <1>2 DEF AreQueues, IsQueue
<1>5. \A i \in Threads : Len(IdsOf(th)[i]) = 0 BY <1>3, <1>4, IdsAreTyped
<1>6. OpenOf(th) = {} BY <1>3 DEF OpenOf, IsOpen
<1>7. DOMAIN << >> = {} OBVIOUS
<1>8. /\ \A i : InThread(<< >>, i) = {}
      /\ ResponsesIn(<< >>) = {}
  BY <1>7 DEF InThread, ResponsesIn
<1>9. Cardinality({}) = 0 BY FS_EmptySet
<1>10. ThreadsAreCounted(<< >>, IdsOf(th), OpenOf(th))
  <2>1. \A i \in Threads : 2 * Len(IdsOf(th)[i]) - 0 = 0 BY <1>5
  <2>2. \A i \in Threads : (IF i \in OpenOf(th) THEN 1 ELSE 0) = 0 BY <1>6
  <2> QED BY <1>8, <1>9, <2>1, <2>2, Zenon DEF ThreadsAreCounted
<1>11. IdsAreDistinct(IdsOf(th)) BY <1>5 DEF IdsAreDistinct
<1>12. EventsAreTyped(<< >>) BY <1>7 DEF EventsAreTyped
<1>13. Linked(<< >>, IdsOf(th), OpenOf(th))
  BY <1>5, <1>6, <1>7, <1>8, <1>10, <1>11, <1>12 DEF Linked
<1>14. IdsAreOld(IdsOf(th), 0) BY <1>5 DEF IdsAreOld
<1>15. OnlyLastIsOpen(th) BY <1>3 DEF OnlyLastIsOpen
<1> QED BY <1>1, <1>4, <1>8, <1>9, <1>13, <1>14, <1>15

(* A task is started: the history gets its invoke, and its response if it  *)
(* returned at once.                                                       *)
LEMMA StartKeepsHistory ==
  ASSUME StateInv, HistoryInv, phase = "run", new_task_id' = new_task_id + 1,
         NEW i \in Threads, NEW c, NEW th, NEW r, Starts(i, c, th, r)
  PROVE  /\ AreQueues(threads') /\ IsSeq(sequential_history') /\ HistoryInv'
<1>0. PICK h, ids, open, tg, inv, res :
        /\ h = sequential_history /\ ids = IdsOf(threads) /\ open = OpenOf(threads)
        /\ tg = threads' /\ inv = InvokeOf(r, i) /\ res = ResponseOf(r, i)
  OBVIOUS
<1>1. /\ AreQueues(threads) /\ AreQueues(th) /\ IsSeq(h) /\ new_task_id \in Nat
      /\ AlikeQueues(th, threads) /\ TaskAdded(tg, th, i, r)
      /\ i \notin open
  BY <1>0 DEF StateInv, Starts, AlikeQueues, OpenOf
<1>2. IsTask(r) /\ r.id = new_task_id
  <2>1. r = Resumed(New(new_task_id, c, i), state) BY DEF Starts
  <2>2. IsTask(New(new_task_id, c, i)) /\ New(new_task_id, c, i).id = new_task_id
    BY <1>1, TasksStayTasks
  <2> QED BY <2>1, <2>2, TasksStayTasks
<1>3. IdsOf(th) = ids /\ OpenOf(th) = open
  BY <1>0, <1>1, AlikeQueuesReflectTheSame
<1>4. /\ AreQueues(tg)
      /\ IdAdded(IdsOf(tg), ids, i, r.id)
      /\ OpenOf(tg) = IF IsReturned(r) THEN open \ {i} ELSE open \cup {i}
  <2>1. /\ AreQueues(tg)
        /\ IdAdded(IdsOf(tg), IdsOf(th), i, r.id)
    BY <1>1, <1>2, AddingReflects
  <2>2. OpenOf(tg) = IF IsReturned(r) THEN OpenOf(th) \ {i} ELSE OpenOf(th) \cup {i}
    BY <1>1, <1>2, AddingReflects
  <2> QED BY <1>3, <2>1, <2>2
<1>5. /\ Linked(h, ids, open)
      /\ finished_tasks = Cardinality(ResponsesIn(h))
      /\ IdsAreOld(ids, new_task_id)
      /\ OnlyLastIsOpen(threads)
  BY <1>0 DEF HistoryInv
<1>6. ids \in [Threads -> Seq(Nat)] /\ open \in SUBSET Threads
  BY <1>0, <1>1, IdsAreTyped DEF OpenOf
<1>7. PICK g : g = Append(h, inv) OBVIOUS
<1>8. Extended(g, h, inv) /\ IsSeq(g) /\ g = h \o <<inv>> BY <1>1, <1>7, HistoryGrows
<1>9. Linked(g, IdsOf(tg), open \cup {i})
  <2>1. inv.type = "invoke" /\ inv.id = r.id /\ inv.thread = i BY <1>0 DEF InvokeOf
  <2>2. \A j \in Threads : \A k \in 1..Len(ids[j]) : ids[j][k] # r.id
    <3>1. \A j \in Threads : \A k \in 1..Len(ids[j]) : ids[j][k] \in Nat
      BY <1>6, ElementOfSeq
    <3>2. \A x \in Nat : x < new_task_id => x # new_task_id BY <1>1
    <3> QED BY <1>2, <1>5, <3>1, <3>2 DEF IdsAreOld
  <2>3. r.id \in Nat /\ i \in Threads \ open BY <1>1, <1>2
  <2>4. Invoked(g, h, inv, IdsOf(tg), ids, open, i, r.id)
    BY <1>4, <1>5, <1>6, <1>8, <2>1, <2>2, <2>3 DEF Invoked
  <2> QED BY <2>4, AddInvoke
<1>10. PICK f : f = Append(g, res) OBVIOUS
<1>11. Extended(f, g, res) /\ IsSeq(f) /\ f = g \o <<res>> /\ g \o << >> = g
  BY <1>8, <1>10, HistoryGrows
<1>12. /\ sequential_history' = IF IsReturned(r) THEN f ELSE g
       /\ finished_tasks' = finished_tasks + (IF IsReturned(r) THEN 1 ELSE 0)
  BY <1>0, <1>8, <1>11 DEF Starts, Record, FinishedNow
<1>13. Linked(sequential_history', IdsOf(tg), OpenOf(tg))
  <2>1. CASE ~IsReturned(r) BY <1>4, <1>9, <1>12, <2>1
  <2>2. CASE IsReturned(r)
    <3>1. res.type = "response" /\ res.id = r.id /\ res.thread = i BY <1>0 DEF ResponseOf
    <3>2. PICK ids2 : ids2 = IdsOf(tg) OBVIOUS
    <3>3. ids2 \in [Threads -> Seq(Nat)] BY <1>4, <3>2, IdsAreTyped
    <3>4. r.id = ids2[i][Len(ids2[i])]
      <4>1. ids2[i] = Append(ids[i], r.id) BY <1>4, <1>6, <3>2 DEF IdAdded
      <4>2. ids[i] \in Seq(Nat) /\ r.id \in Nat BY <1>1, <1>2, <1>6
      <4> QED BY <4>1, <4>2, AppendProperties
    <3>5. PICK open2 : open2 = open \cup {i} OBVIOUS
    <3>6. open2 \in SUBSET Threads /\ i \in open2 /\ open2 \ {i} = open \ {i}
      BY <1>6, <3>5
    <3>7. Linked(g, ids2, open2) BY <1>9, <3>2, <3>5
    <3>8. Linked(f, ids2, open2 \ {i})
      BY <1>11, <3>1, <3>3, <3>4, <3>6, <3>7, AddResponse
    <3> QED BY <1>4, <1>12, <2>2, <3>2, <3>6, <3>8
  <2> QED BY <2>1, <2>2
<1>14. finished_tasks' = Cardinality(ResponsesIn(sequential_history'))
  <2>1. inv.type # "response" /\ res.type = "response" BY <1>0 DEF InvokeOf, ResponseOf
  <2>2. /\ Cardinality(ResponsesIn(h)) \in Nat
        /\ Cardinality(ResponsesIn(g)) = Cardinality(ResponsesIn(h))
    BY <1>8, <2>1 DEF Extended
  <2>3. Cardinality(ResponsesIn(f)) = Cardinality(ResponsesIn(g)) + 1
    BY <1>11, <2>1 DEF Extended
  <2> QED BY <1>5, <1>12, <2>2, <2>3
<1>15. IdsAreOld(IdsOf(tg), new_task_id')
  <2>1. PICK ids2 : ids2 = IdsOf(tg) OBVIOUS
  <2>2. \A j \in Threads : j # i => ids2[j] = ids[j] BY <1>4, <1>6, <2>1 DEF IdAdded
  <2>3. ids2[i] = Append(ids[i], r.id) BY <1>4, <1>6, <2>1 DEF IdAdded
  <2>4. ids[i] \in Seq(Nat) /\ r.id \in Nat BY <1>1, <1>2, <1>6
  <2>5. \A k \in 1..Len(ids2[i]) : k \in 1..Len(ids[i]) \/ ids2[i][k] = r.id
    BY <2>3, <2>4, AppendProperties, LenProperties
  <2>6. \A k \in 1..Len(ids[i]) : ids2[i][k] = ids[i][k]
    BY <2>3, <2>4, AppendProperties
  <2>7. \A j \in Threads : \A k \in 1..Len(ids[j]) : ids[j][k] \in Nat
    BY <1>6, ElementOfSeq
  <2>8. \A x \in Nat : x < new_task_id => x < new_task_id' BY <1>1
  <2>9. r.id < new_task_id' BY <1>1, <1>2
  <2>10. \A j \in Threads : \A k \in 1..Len(ids[j]) : ids[j][k] < new_task_id'
    BY <1>5, <2>7, <2>8 DEF IdsAreOld
  <2> QED BY <2>1, <2>2, <2>5, <2>6, <2>9, <2>10 DEF IdsAreOld
<1>16. OnlyLastIsOpen(threads')
  <2>1. tg = threads' BY <1>0
  <2>2. PICK n \in Nat : n = Len(th[i]) BY <1>1, IdsAreTyped
  <2>3. /\ Len(tg[i]) = n + 1 /\ \A k \in 1..n : tg[i][k] = th[i][k]
        /\ \A j \in Threads : j # i => tg[j] = th[j]
    BY <1>1, <2>1, <2>2 DEF TaskAdded, Appended
  <2>4. \A j \in Threads : /\ Len(th[j]) = Len(threads[j])
                           /\ \A k \in 1..Len(th[j]) :
                                IsReturned(th[j][k]) <=> IsReturned(threads[j][k])
    BY <1>1 DEF AlikeQueues, Alike, IsReturned
  <2>5. OnlyLastIsOpen(th) BY <1>5, <2>4 DEF OnlyLastIsOpen
  <2>6. \A k \in 1..n : IsReturned(th[i][k])
    <3>1. ~IsOpen(th[i]) BY <1>1, <1>3 DEF OpenOf
    <3>2. n > 0 => IsReturned(th[i][n]) BY <2>2, <3>1 DEF IsOpen
    <3> QED BY <2>2, <2>5, <3>2 DEF OnlyLastIsOpen
  <2>7. \A k \in 1..Len(tg[i]) : k < Len(tg[i]) => IsReturned(tg[i][k])
    BY <2>3, <2>6
  <2>8. \A j \in Threads : j # i =>
          \A k \in 1..Len(tg[j]) : k < Len(tg[j]) => IsReturned(tg[j][k])
    BY <2>3, <2>5 DEF OnlyLastIsOpen
  <2> QED BY <2>1, <2>7, <2>8 DEF OnlyLastIsOpen
<1>17. HistoryInv'
  BY <1>0, <1>13, <1>14, <1>15, <1>16 DEF HistoryInv
<1>18. IsSeq(sequential_history') BY <1>8, <1>11, <1>12
<1> QED BY <1>0, <1>4, <1>17, <1>18

(* A task is resumed: the history gets its response if it returned. *)
LEMMA ResumeKeepsHistory ==
  ASSUME StateInv, HistoryInv, phase = "run", new_task_id' = new_task_id,
         NEW i \in Threads, NEW th, NEW r, Resumes(i, th, r)
  PROVE  /\ AreQueues(threads') /\ IsSeq(sequential_history') /\ HistoryInv'
<1>0. PICK h, ids, open, tg, res, l :
        /\ h = sequential_history /\ ids = IdsOf(threads) /\ open = OpenOf(threads)
        /\ tg = threads' /\ res = ResponseOf(r, i) /\ l = Len(th[i])
  OBVIOUS
<1>1. /\ AreQueues(threads) /\ AreQueues(th) /\ IsSeq(h)
      /\ AlikeQueues(th, threads) /\ TaskChanged(tg, th, i, l, r)
      /\ i \in open
  BY <1>0 DEF StateInv, Resumes, AlikeQueues, OpenOf
<1>2. IdsOf(th) = ids /\ OpenOf(th) = open
  BY <1>0, <1>1, AlikeQueuesReflectTheSame
<1>3. l \in 1..Len(th[i])
  <2>1. IsOpen(th[i]) BY <1>1, <1>2 DEF OpenOf
  <2>2. Len(th[i]) \in Nat BY <1>1, IdsAreTyped
  <2> QED BY <1>0, <2>1, <2>2 DEF IsOpen
<1>4. IsTask(r) /\ r.id = th[i][l].id
  <2>1. r = Resumed(th[i][l], state) BY <1>0 DEF Resumes
  <2>2. IsTask(th[i][l]) BY <1>1, <1>3 DEF AreQueues, IsQueue
  <2> QED BY <2>1, <2>2, TasksStayTasks
<1>5. /\ AreQueues(tg) /\ IdsOf(tg) = ids
      /\ OpenOf(tg) = IF IsReturned(r) THEN open \ {i} ELSE open
  <2>1. AreQueues(tg) /\ IdsOf(tg) = IdsOf(th)
    BY <1>1, <1>3, <1>4, ChangingReflects
  <2>2. OpenOf(tg) = IF IsReturned(r) THEN OpenOf(th) \ {i} ELSE OpenOf(th) \cup {i}
    BY <1>0, <1>1, <1>3, <1>4, ChangingReflects
  <2> QED BY <1>1, <1>2, <2>1, <2>2
<1>6. /\ Linked(h, ids, open)
      /\ finished_tasks = Cardinality(ResponsesIn(h))
      /\ IdsAreOld(ids, new_task_id)
      /\ OnlyLastIsOpen(threads)
  BY <1>0 DEF HistoryInv
<1>7. ids \in [Threads -> Seq(Nat)] /\ open \in SUBSET Threads
  BY <1>0, <1>1, IdsAreTyped DEF OpenOf
<1>8. PICK f : f = Append(h, res) OBVIOUS
<1>9. Extended(f, h, res) /\ IsSeq(f) /\ f = h \o <<res>> /\ h \o << >> = h
  BY <1>1, <1>8, HistoryGrows
<1>10. /\ sequential_history' = IF IsReturned(r) THEN f ELSE h
       /\ finished_tasks' = finished_tasks + (IF IsReturned(r) THEN 1 ELSE 0)
  BY <1>0, <1>9 DEF Resumes, Record, FinishedNow
<1>11. Linked(sequential_history', IdsOf(tg), OpenOf(tg))
  <2>1. CASE ~IsReturned(r) BY <1>5, <1>6, <1>10, <2>1
  <2>2. CASE IsReturned(r)
    <3>1. res.type = "response" /\ res.id = r.id /\ res.thread = i BY <1>0 DEF ResponseOf
    <3>2. r.id = ids[i][Len(ids[i])]
      <4>1. Len(ids[i]) = l BY <1>0, <1>1, <1>2, IdsAreTyped
      <4>2. ids[i][l] = th[i][l].id BY <1>2, <1>3 DEF IdsOf
      <4> QED BY <1>4, <4>1, <4>2
    <3>3. Linked(f, ids, open \ {i})
      BY <1>1, <1>6, <1>7, <1>9, <3>1, <3>2, AddResponse
    <3> QED BY <1>5, <1>10, <2>2, <3>3
  <2> QED BY <2>1, <2>2
<1>12. finished_tasks' = Cardinality(ResponsesIn(sequential_history'))
  <2>1. res.type = "response" BY <1>0 DEF ResponseOf
  <2>2. /\ Cardinality(ResponsesIn(h)) \in Nat
        /\ Cardinality(ResponsesIn(f)) = Cardinality(ResponsesIn(h)) + 1
    BY <1>9, <2>1 DEF Extended
  <2> QED BY <1>6, <1>10, <2>2
<1>13. OnlyLastIsOpen(tg)
  <2>1. /\ Len(tg[i]) = l /\ \A k \in 1..l : k # l => tg[i][k] = th[i][k]
        /\ \A j \in Threads : j # i => tg[j] = th[j]
    BY <1>0, <1>1 DEF TaskChanged, Replaced
  <2>2. \A j \in Threads : /\ Len(th[j]) = Len(threads[j])
                           /\ \A k \in 1..Len(th[j]) :
                                IsReturned(th[j][k]) <=> IsReturned(threads[j][k])
    BY <1>1 DEF AlikeQueues, Alike, IsReturned
  <2>3. OnlyLastIsOpen(th) BY <1>6, <2>2 DEF OnlyLastIsOpen
  <2>4. l \in Nat BY <1>0, <1>1, IdsAreTyped
  <2>5. \A k \in 1..Len(tg[i]) : k < Len(tg[i]) => IsReturned(tg[i][k])
    BY <1>0, <2>1, <2>3, <2>4 DEF OnlyLastIsOpen
  <2>6. \A j \in Threads : j # i =>
          \A k \in 1..Len(tg[j]) : k < Len(tg[j]) => IsReturned(tg[j][k])
    BY <2>1, <2>3 DEF OnlyLastIsOpen
  <2> QED BY <2>5, <2>6 DEF OnlyLastIsOpen
<1>14. IdsAreOld(IdsOf(tg), new_task_id') BY <1>5, <1>6
<1>15. HistoryInv'
  BY <1>0, <1>11, <1>12, <1>13, <1>14 DEF HistoryInv
<1>16. IsSeq(sequential_history') BY <1>1, <1>9, <1>10
<1> QED BY <1>0, <1>5, <1>15, <1>16

(* The first round. *)
LEMMA InitKeeps ==
  ASSUME Init
  PROVE  StateInv /\ HistoryInv
<1>1. /\ kind \in Kinds /\ threads = [i \in Threads |-> << >>] /\ new_task_id = 0
      /\ next_task = 0 /\ thread_index = 0 /\ task_indexes = [i \in Threads |-> 1]
      /\ phase = "run" /\ finished_tasks = 0 /\ sequential_history = << >>
  BY DEF Init, InitStrategy, InitBase
<1>2. StateInv
  BY <1>1, EmptyRound, ThreadsAssumption DEF StateInv, Threads
<1>3. HistoryInv
  BY <1>1, EmptyRound DEF HistoryInv
<1> QED BY <1>2, <1>3

(* The steps that change neither the queues nor the history of a round. *)
LEMMA QuietKeeps ==
  ASSUME StateInv, HistoryInv, UNCHANGED <<kind, threads, next_task, sequential_history>>,
         new_task_id' \in Nat, thread_index' \in 0..threads_count,
         task_indexes' \in [Threads -> Nat \ {0}], phase' # "run"
  PROVE  StateInv' /\ HistoryInv'
BY DEF StateInv, HistoryInv

(* Every step keeps the invariant. *)
LEMMA NextKeeps ==
  ASSUME StateInv, HistoryInv, [Next]_vars
  PROVE  StateInv' /\ HistoryInv'
<1>1. /\ kind \in Kinds /\ AreQueues(threads) /\ new_task_id \in Nat
      /\ next_task \in Threads /\ thread_index \in 0..threads_count
      /\ task_indexes \in [Threads -> Nat \ {0}]
      /\ threads_count \in Nat \ {0}
  BY ThreadsAssumption DEF StateInv
<1>2. CASE StartTask
  <2>1a. PICK i \in Threads : \E c, th, r : Starts(i, c, th, r) BY <1>2, StartShape
  <2>1. PICK c, th, r : Starts(i, c, th, r) BY <2>1a
  <2>2. next_task' \in Threads BY <1>2, StartShape
  <2>3. /\ phase = "run" /\ new_task_id' = new_task_id + 1 /\ phase' = phase
        /\ UNCHANGED <<kind, thread_index, task_indexes>>
    BY <1>2 DEF StartTask, InRound, AfterPick, terminateVars
  <2>4. AreQueues(threads') /\ IsSeq(sequential_history') /\ HistoryInv'
    BY <2>1, <2>3, StartKeepsHistory
  <2> QED BY <1>1, <2>2, <2>3, <2>4 DEF StateInv
<1>3. CASE ResumeTask
  <2>1a. PICK i \in Threads : \E th, r : Resumes(i, th, r) BY <1>3, ResumeShape
  <2>1. PICK th, r : Resumes(i, th, r) BY <2>1a
  <2>2. next_task' \in Threads BY <1>3, ResumeShape
  <2>3. /\ phase = "run" /\ new_task_id' = new_task_id /\ phase' = phase
        /\ UNCHANGED <<kind, thread_index, task_indexes>>
    BY <1>3 DEF ResumeTask, InRound, AfterPick, terminateVars
  <2>4. AreQueues(threads') /\ IsSeq(sequential_history') /\ HistoryInv'
    BY <2>1, <2>3, ResumeKeepsHistory
  <2> QED BY <1>1, <2>2, <2>3, <2>4 DEF StateInv
<1>4. CASE Abort \/ CheckerThrows
  BY <1>1, <1>4, QuietKeeps DEF Abort, CheckerThrows, strategyVars, baseVars, terminateVars
<1>5. CASE FinishRound
  BY <1>1, <1>5, QuietKeeps DEF FinishRound, BeginTerminateTasks, pickVars
<1>6. CASE ReportRound
  BY <1>1, <1>6, QuietKeeps DEF ReportRound, BeginTerminateTasks, pickVars, terminateVars
<1>7. CASE RunReturns
  BY <1>1, <1>7, QuietKeeps DEF RunReturns, BeginTerminateTasks, pickVars
<1>8. CASE Destroyed
  BY <1>1, <1>8, QuietKeeps DEF Destroyed, pickVars, terminateVars
<1>9. CASE TerminateTasks
  <2>1. /\ phase # "run" /\ phase' = phase /\ UNCHANGED sequential_history
    BY <1>9 DEF TerminateTasks, schedulerVars
  <2>2. CASE TerminateAgain
    BY <1>1, <2>1, <2>2, QuietKeeps DEF TerminateAgain
  <2>3. CASE TerminateVisit
    <3>1. /\ thread_index \in Threads /\ VisitThread /\ thread_index' = thread_index + 1
          /\ UNCHANGED <<kind, new_task_id, next_task>>
      BY <2>3 DEF TerminateVisit
    <3>2. task_indexes' \in [Threads -> Nat \ {0}] BY <3>1, VisitShape
    <3>3. AreQueues(threads')
      <4>1. CASE UNCHANGED threads BY <1>1, <4>1
      <4>2. CASE \E m \in 1..Len(threads[thread_index]) : \E r :
                   /\ IsTask(r) /\ r.id = threads[thread_index][m].id
                   /\ TaskChanged(threads', threads, thread_index, m, r)
        BY <1>1, <3>1, <4>2, ChangingReflects
      <4> QED BY <3>1, <4>1, <4>2, VisitShape
    <3>4. thread_index' \in 0..threads_count BY <1>1, <3>1 DEF Threads
    <3>5. StateInv' BY <1>1, <2>1, <3>1, <3>2, <3>3, <3>4 DEF StateInv
    <3>6. HistoryInv' BY <2>1 DEF HistoryInv
    <3> QED BY <3>5, <3>6
  <2> QED BY <1>9, <2>2, <2>3 DEF TerminateTasks
<1>10. CASE StartNextRound
  <2>1. /\ UNCHANGED <<kind, new_task_id, next_task, terminateVars>>
        /\ threads' = [i \in Threads |-> << >>]
        /\ finished_tasks' = 0 /\ sequential_history' = << >>
    BY <1>10 DEF StartNextRound
  <2>2. StateInv'
    BY <1>1, <2>1, EmptyRound DEF StateInv, terminateVars
  <2>3. IdsAreOld(IdsOf(threads'), new_task_id')
    <3>1. PICK tg : tg = threads' OBVIOUS
    <3>2. \A i \in Threads : Len(tg[i]) = 0 BY <2>1, <3>1, EmptySeq
    <3>3. AreQueues(tg) BY <2>1, <3>1, EmptyRound
    <3>4. \A i \in Threads : Len(IdsOf(tg)[i]) = 0 BY <3>2, <3>3, IdsAreTyped
    <3> QED BY <3>1, <3>4 DEF IdsAreOld
  <2>4. HistoryInv'
    BY <2>1, <2>3, EmptyRound DEF HistoryInv
  <2> QED BY <2>2, <2>4
<1>11. CASE Ended \/ UNCHANGED vars
  BY <1>11 DEF Ended, vars, strategyVars, baseVars, terminateVars, schedulerVars,
               StateInv, HistoryInv
<1> QED BY <1>2, <1>3, <1>4, <1>5, <1>6, <1>7, <1>8, <1>9, <1>10, <1>11 DEF Next

(* The invariant holds in every state of every execution. *)
LEMMA InvariantHolds == Spec => [](StateInv /\ HistoryInv)
<1>1. Init => StateInv /\ HistoryInv BY InitKeeps
<1>2. (StateInv /\ HistoryInv) /\ [Next]_vars => (StateInv /\ HistoryInv)'
  BY NextKeeps
<1> QED BY <1>1, <1>2, PTL DEF Spec

-----------------------------------------------------------------------------
(* In every logical thread of the history of a round the events alternate, *)
(* each response answering the invoke right before it, and the k-th invoke *)
(* refers to the k-th task of the queue of the thread.                     *)
THEOREM HistoryIsSequential == Spec => []HistoryIsSequentialPerThread
<1>1. ASSUME StateInv, HistoryInv PROVE HistoryIsSequentialPerThread
  <2> SUFFICES ASSUME phase = "run", NEW p \in DOMAIN sequential_history,
                      NEW e, e = sequential_history[p],
                      NEW n, n = Cardinality(EarlierInThread(sequential_history, p))
               PROVE  /\ e.type = (IF n % 2 = 0 THEN "invoke" ELSE "response")
                      /\ n \div 2 + 1 \in DOMAIN threads[e.thread]
                      /\ threads[e.thread][n \div 2 + 1].id = e.id
    BY DEF HistoryIsSequentialPerThread
  <2>1. Linked(sequential_history, IdsOf(threads), OpenOf(threads))
        /\ AreQueues(threads)
    BY <1>1 DEF HistoryInv, StateInv
  <2>2. /\ EventBelongs(sequential_history, IdsOf(threads), p)
        /\ e.type \in {"invoke", "response"} /\ e.thread \in Threads
    BY <2>1 DEF Linked, EventsAreTyped
  <2>3. PICK k \in 1..Len(IdsOf(threads)[e.thread]) :
          /\ IdsOf(threads)[e.thread][k] = e.id
          /\ n = 2 * k - (IF e.type = "invoke" THEN 2 ELSE 1)
    BY <2>2 DEF EventBelongs
  <2>4. Len(IdsOf(threads)[e.thread]) = Len(threads[e.thread])
        /\ Len(threads[e.thread]) \in Nat
    BY <2>1, <2>2, IdsAreTyped
  <2>5. k \in 1..Len(threads[e.thread]) BY <2>3, <2>4
  <2>6. k \in DOMAIN threads[e.thread]
    <3>1. IsSeq(threads[e.thread]) BY <2>1, <2>2 DEF AreQueues, IsQueue
    <3> QED BY <2>5, <3>1, SeqDomain
  <2>7. threads[e.thread][k].id = e.id BY <2>2, <2>3, <2>5 DEF IdsOf
  <2>8. k \in Nat BY <2>4, <2>5
  <2>9. CASE e.type = "invoke"
    <3>1. n % 2 = 0 /\ n \div 2 + 1 = k BY <2>3, <2>8, <2>9
    <3> QED BY <2>6, <2>7, <2>9, <3>1
  <2>10. CASE e.type = "response"
    <3>1. n % 2 = 1 /\ n \div 2 + 1 = k
      <4>1. n = 2 * k - 1 BY <2>3, <2>10
      <4> QED BY <2>8, <4>1
    <3> QED BY <2>6, <2>7, <2>10, <3>1
  <2> QED BY <2>2, <2>9, <2>10
<1> QED BY <1>1, InvariantHolds, PTL

(* The history tells how far the tasks are: a task has a response in it    *)
(* exactly if it has returned, an unfinished task is the last one of its   *)
(* thread, and the loop bound finished_tasks counts the responses.         *)
THEOREM HistoryTellsTasks == Spec => []HistoryMatchesTasks
<1>1. ASSUME StateInv, HistoryInv PROVE HistoryMatchesTasks
  <2>0. PICK responses, answered :
          /\ responses = ResponsesIn(sequential_history)
          /\ answered = {sequential_history[p].id : p \in responses}
    OBVIOUS
  <2> SUFFICES ASSUME phase = "run"
               PROVE  /\ \A i \in Threads : \A k \in DOMAIN threads[i] :
                           /\ IsReturned(threads[i][k]) <=> threads[i][k].id \in answered
                           /\ ~IsReturned(threads[i][k]) => k = Len(threads[i])
                      /\ finished_tasks = Cardinality(responses)
    BY <2>0 DEF HistoryMatchesTasks, ResponsesIn
  <2>1. /\ Linked(sequential_history, IdsOf(threads), OpenOf(threads))
        /\ AreQueues(threads) /\ OnlyLastIsOpen(threads)
        /\ finished_tasks = Cardinality(responses)
    BY <1>1, <2>0 DEF HistoryInv, StateInv
  <2>2. ASSUME NEW i \in Threads, NEW k \in DOMAIN threads[i]
        PROVE  /\ IsReturned(threads[i][k]) <=> threads[i][k].id \in answered
               /\ ~IsReturned(threads[i][k]) => k = Len(threads[i])
    <3>1. IsSeq(threads[i]) BY <2>1 DEF AreQueues, IsQueue
    <3>2. Len(threads[i]) \in Nat /\ k \in 1..Len(threads[i]) BY <3>1, SeqDomain
    <3>3. Len(IdsOf(threads)[i]) = Len(threads[i]) BY <2>1, IdsAreTyped
    <3>4. IdsOf(threads)[i][k] = threads[i][k].id BY <3>2 DEF IdsOf
    <3>5. TaskIsRecorded(sequential_history, IdsOf(threads), OpenOf(threads), i, k)
      BY <2>1, <3>2, <3>3 DEF Linked
    <3>6. threads[i][k].id \in answered <=> ~(i \in OpenOf(threads) /\ k = Len(threads[i]))
      BY <2>0, <3>3, <3>4, <3>5 DEF TaskIsRecorded
    <3>7. k # Len(threads[i]) => IsReturned(threads[i][k])
      BY <2>1, <3>2 DEF OnlyLastIsOpen
    <3>8. k = Len(threads[i]) => (i \in OpenOf(threads) <=> ~IsReturned(threads[i][k]))
      BY <3>2 DEF OpenOf, IsOpen
    <3> QED BY <3>6, <3>7, <3>8
  <2> QED BY <2>1, <2>2
<1> QED BY <1>1, InvariantHolds, PTL

(* Later events of a thread have more earlier events. *)
LEMMA EarlierGrows ==
  ASSUME NEW h, IsSeq(h), NEW p \in DOMAIN h, NEW q \in DOMAIN h, p < q,
         h[p].thread = h[q].thread
  PROVE  Cardinality(EarlierInThread(h, p)) # Cardinality(EarlierInThread(h, q))
<1>1. Len(h) \in Nat /\ p \in 1..Len(h) /\ q \in 1..Len(h) BY SeqDomain
<1>2. p \in Nat /\ q \in Nat BY <1>1
<1>3. PICK A, B : A = EarlierInThread(h, p) /\ B = EarlierInThread(h, q) OBVIOUS
<1>4. A \subseteq 1..(p - 1) /\ B \subseteq 1..(q - 1) BY <1>3 DEF EarlierInThread
<1>5. IsFiniteSet(A) /\ IsFiniteSet(B)
  <2>1. 1 \in Int /\ p - 1 \in Int /\ q - 1 \in Int BY <1>2
  <2>2. IsFiniteSet(1..(p - 1)) /\ IsFiniteSet(1..(q - 1)) BY <2>1, FS_Interval
  <2> QED BY <1>4, <2>2, FS_Subset
<1>6. A \cup {p} \subseteq B /\ p \notin A
  <2>1. p \in 1..(q - 1) /\ p \notin 1..(p - 1) BY <1>1, <1>2
  <2>2. \A x \in 1..(p - 1) : x \in 1..(q - 1) BY <1>2
  <2> QED BY <1>3, <2>1, <2>2 DEF EarlierInThread
<1>7. Cardinality(A) \in Nat /\ Cardinality(B) \in Nat BY <1>5, FS_CardinalityType
<1>8. Cardinality(A \cup {p}) = Cardinality(A) + 1 BY <1>5, <1>6, FS_AddElement
<1>9. Cardinality(A \cup {p}) <= Cardinality(B) BY <1>5, <1>6, FS_Subset
<1> QED BY <1>3, <1>7, <1>8, <1>9

(* While a round is run every task is invoked at most once and answered at *)
(* most once, after its invoke: what get_inv_res_mapping and both checkers *)
(* rely on.                                                                *)
RoundIsWellFormed ==
  phase = "run" =>
    LET h == sequential_history
    IN /\ \A p, q \in DOMAIN h : h[p].type = h[q].type /\ h[p].id = h[q].id => p = q
       /\ \A p \in DOMAIN h : h[p].type = "response" =>
            \E q \in DOMAIN h : q < p /\ h[q].type = "invoke" /\ h[q].id = h[p].id

(* RunRound keeps the history of a round well-formed, with every strategy *)
(* and target.                                                             *)
THEOREM HistoryIsWellFormed == Spec => []RoundIsWellFormed
<1>1. ASSUME StateInv, HistoryInv PROVE RoundIsWellFormed
  <2> SUFFICES ASSUME phase = "run" PROVE RoundIsWellFormed
    BY DEF RoundIsWellFormed
  <2>0. PICK h : h = sequential_history OBVIOUS
  <2>1. /\ Linked(h, IdsOf(threads), OpenOf(threads))
        /\ AreQueues(threads) /\ IsSeq(h)
    BY <1>1, <2>0 DEF HistoryInv, StateInv
  <2>2. Len(h) \in Nat /\ DOMAIN h = 1..Len(h) BY <2>1, SeqDomain
  <2>3. ASSUME NEW p \in DOMAIN h, NEW q \in DOMAIN h,
               h[p].type = h[q].type, h[p].id = h[q].id
        PROVE  p = q
    <3>1. /\ EventBelongs(h, IdsOf(threads), p) /\ EventBelongs(h, IdsOf(threads), q)
          /\ h[p].thread \in Threads /\ h[q].thread \in Threads
      BY <2>1 DEF Linked, EventsAreTyped
    <3>2. PICK k \in 1..Len(IdsOf(threads)[h[p].thread]) :
            /\ IdsOf(threads)[h[p].thread][k] = h[p].id
            /\ Cardinality(EarlierInThread(h, p))
                 = 2 * k - (IF h[p].type = "invoke" THEN 2 ELSE 1)
      BY <3>1 DEF EventBelongs
    <3>3. PICK m \in 1..Len(IdsOf(threads)[h[q].thread]) :
            /\ IdsOf(threads)[h[q].thread][m] = h[q].id
            /\ Cardinality(EarlierInThread(h, q))
                 = 2 * m - (IF h[q].type = "invoke" THEN 2 ELSE 1)
      BY <3>1 DEF EventBelongs
    <3>4. h[p].thread = h[q].thread /\ k = m
      <4>1. IdsAreDistinct(IdsOf(threads)) BY <2>1 DEF Linked
      <4>2. IdsOf(threads)[h[p].thread][k] = IdsOf(threads)[h[q].thread][m]
        BY <2>3, <3>2, <3>3
      <4> QED BY <3>1, <3>2, <3>3, <4>1, <4>2 DEF IdsAreDistinct
    <3>5. Cardinality(EarlierInThread(h, p)) = Cardinality(EarlierInThread(h, q))
      BY <2>3, <3>2, <3>3, <3>4
    <3>6. ~(p < q) /\ ~(q < p) BY <2>1, <3>4, <3>5, EarlierGrows
    <3> QED BY <2>2, <3>6
  <2>4. ASSUME NEW p \in DOMAIN h, h[p].type = "response"
        PROVE  \E q \in DOMAIN h : q < p /\ h[q].type = "invoke" /\ h[q].id = h[p].id
    <3>1. p \in ResponsesIn(h) BY <2>4 DEF ResponsesIn
    <3>2. PICK q \in 1..(p - 1) : h[q].type = "invoke" /\ h[q].id = h[p].id
      BY <2>1, <3>1 DEF Linked, ResponseFollows
    <3>3. q \in DOMAIN h /\ q < p BY <2>2, <3>2
    <3> QED BY <3>2, <3>3
  <2> QED BY <2>0, <2>3, <2>4 DEF RoundIsWellFormed
<1> QED BY <1>1, InvariantHolds, PTL

=============================================================================
