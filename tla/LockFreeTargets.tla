--------------------------- MODULE LockFreeTargets ---------------------------
(***************************************************************************)
(* The targets of verifying/targets built on std::atomic, whose member     *)
(* functions do not yield, and the two that yield by themselves.  The      *)
(* places of a task are named after the access it makes next; its locals   *)
(* are a record where it has more than one.  Arrays have as many cells as  *)
(* a round can use instead of 100.                                         *)
(***************************************************************************)
EXTENDS Targets, FiniteSets

CONSTANT Cells    \* the nodes of the stack and the slots of the set

ASSUME CellsAssumption == Cells \in Nat \ {0}

(* verifying/targets/atomic_register.cpp *)
AtomicRegisterBody(x, t) ==
  IF t.loc[1] = "entry" THEN Yield(x, "x", 0)
  ELSE IF t.call.name = "add" THEN Return(x + 1, -1) ELSE Return(x, x)

-----------------------------------------------------------------------------
(* verifying/targets/nonlinear_queue.cpp: the cells of a below head. *)
NonlinearQueueBody(a, t) ==
  LET place == t.loc[1]
      l == t.loc[2]
      scan(i) == IF i < l.last THEN Yield(a, "a[i]", [l EXCEPT !.i = i])
                 ELSE Returning(a, 0)
  IN CASE place = "entry"  -> Yield(a, "head", 0)
       [] place = "return" -> Return(a, l)
       [] place = "head" /\ t.call.name = "Push" ->
            Yield(Append(a, 0), "a[pos]", Len(a) + 1)
       [] place = "a[pos]" -> Return([a EXCEPT ![l] = t.call.arg], -1)
       [] place = "head" /\ t.call.name = "Pop" ->
            IF Len(a) = 0 THEN Returning(a, 0)
            ELSE Yield(a, "a[i]", [last |-> Len(a), i |-> 0, e |-> 0])
       [] place = "a[i]" -> IF a[l.i + 1] # 0
                            THEN Yield(a, "cas", [l EXCEPT !.e = a[l.i + 1]])
                            ELSE scan(l.i + 1)
       [] place = "cas"  -> IF a[l.i + 1] = l.e
                            THEN Returning([a EXCEPT ![l.i + 1] = 0], l.e)
                            ELSE scan(l.i + 1)

-----------------------------------------------------------------------------
(* verifying/targets/nonlinear_set.cpp: the slots in the order in which    *)
(* the one value the generator makes is looked for.                        *)
EmptySlots == [i \in 1..Cells |-> 0]

(* Mutant: a failed compare-exchange goes on without looking again. *)
InsertedByOtherNever(slots, i, v) == FALSE

(* if (slots[idx].load() == value) break; *)
InsertedByOther(slots, i, v) == slots[i] = v

SlotsSetBody(slots, t) ==
  LET place == t.loc[1]
      i == t.loc[2]
      v == t.call.arg
      inserts == t.call.name = "Insert"
      scan(k) == IF k <= Cells THEN Yield(slots, "load", k)
                 ELSE Returning(slots, 0)
  IN CASE place = "entry"  -> Yield(slots, "load", 1)
       [] place = "return" -> Return(slots, i)
       [] place = "load"   ->
            IF slots[i] = (IF inserts THEN 0 ELSE v) THEN Yield(slots, "cas", i)
            ELSE IF slots[i] = (IF inserts THEN v ELSE 0) THEN Returning(slots, 0)
            ELSE scan(i + 1)
       [] place = "cas" /\ inserts ->
            IF slots[i] = 0 THEN Returning([slots EXCEPT ![i] = v], 1)
            ELSE Yield(slots, "reload", i)
       [] place = "cas" /\ ~inserts ->
            IF slots[i] = v THEN Returning([slots EXCEPT ![i] = 0], 1)
            ELSE IF slots[i] = 0 THEN Returning(slots, 0)
            ELSE scan(i + 1)
       [] place = "reload" -> IF InsertedByOther(slots, i, v) THEN Returning(slots, 0)
                              ELSE scan(i + 1)

-----------------------------------------------------------------------------
(* verifying/targets/nonlinear_ms_queue.cpp: node 0 is dummyNode, the      *)
(* others are numbered as allocateNode gives them out; 0 is also nullptr   *)
(* in `next`, where the dummy node never is.                               *)
EmptyMSQueue == [head |-> 0, tail |-> 0, value |-> << >>, next |-> <<0>>]

(* allocateNode: its accesses are to a node no other task knows. *)
Allocated(q, v) ==
  [q EXCEPT !.value = Append(@, v), !.next = Append(@, 0)]

MSQueuePush(q, t) ==
  LET place == t.loc[1]
      l == t.loc[2]
      again == Yield(q, "tail", l)
  IN CASE place = "entry" -> Yield(q, "index", 0)
       [] place = "index" -> Yield(Allocated(q, t.call.arg), "tail",
                                   [node |-> Len(q.next), tail |-> 0, next |-> 0])
       [] place = "tail"  -> Yield(q, "next", [l EXCEPT !.tail = q.tail])
       [] place = "next"  -> Yield(q, "check", [l EXCEPT !.next = q.next[l.tail + 1]])
       [] place = "check" -> IF q.tail # l.tail THEN again
                             ELSE Yield(q, IF l.next = 0 THEN "link" ELSE "advance", l)
       [] place = "link"  -> IF q.next[l.tail + 1] # 0 THEN again
                             ELSE Yield([q EXCEPT !.next[l.tail + 1] = l.node], "swing", l)
       [] place = "advance" -> IF q.tail # l.tail THEN again
                               ELSE Yield([q EXCEPT !.tail = l.next], "tail", l)
       [] place = "swing" -> Return([q EXCEPT !.tail = IF @ = l.tail THEN l.node ELSE @], -1)

(* The loop of Pop gives up after three rounds: "MISTAKE". *)
MSQueuePop(q, t) ==
  LET place == t.loc[1]
      l == t.loc[2]
      again(obj) == IF l.time < 3 THEN Yield(obj, "head", [l EXCEPT !.time = @ + 1])
                    ELSE Returning(obj, l.value)
  IN CASE place = "entry" -> Yield(q, "head", [time |-> 1, head |-> 0, tail |-> 0,
                                               next |-> 0, value |-> 0])
       [] place = "return" -> Return(q, l)
       [] place = "head"  -> Yield(q, "tail", [l EXCEPT !.head = q.head])
       [] place = "tail"  -> Yield(q, "next", [l EXCEPT !.tail = q.tail])
       [] place = "next"  -> Yield(q, "check", [l EXCEPT !.next = q.next[l.head + 1]])
       [] place = "check" ->
            IF q.head # l.head THEN again(q)
            ELSE IF l.head # l.tail THEN Yield(q, "value", l)
            ELSE IF l.next = 0 THEN Returning(q, 0) ELSE Yield(q, "advance", l)
       [] place = "advance" -> again([q EXCEPT !.tail = IF @ = l.tail THEN l.next ELSE @])
       [] place = "value" -> Yield(q, "swing", [l EXCEPT !.value = q.value[l.next]])
       [] place = "swing" -> IF q.head = l.head
                             THEN Returning([q EXCEPT !.head = l.next], l.value)
                             ELSE again(q)

MSQueueBody(q, t) == IF t.call.name = "Push" THEN MSQueuePush(q, t) ELSE MSQueuePop(q, t)

-----------------------------------------------------------------------------
(* verifying/targets/nonlinear_treiber_stack.cpp: nodes are numbered from  *)
(* 1, and 0 is the code's -1.                                              *)
EmptyStack ==
  [head |-> 0, free |-> 1, value |-> [n \in 1..Cells |-> 0],
   next |-> [n \in 1..Cells |-> IF n = Cells THEN 0 ELSE n + 1]]

(* Reset leaves the values. *)
ResetStack(s) == [EmptyStack EXCEPT !.value = s.value]

(* The loop of Push that links the node gives up after four rounds:        *)
(* "MISTAKE: early quit".                                                  *)
TreiberPush(s, t) ==
  LET place == t.loc[1]
      l == t.loc[2]
  IN CASE place = "entry"  -> Yield(s, "free", [node |-> 0, head |-> 0, time |-> 0])
       [] place = "return" -> Return(s, -1)
       [] place = "free"   -> IF s.free = 0 THEN Returning(s, 0)
                              ELSE Yield(s, "take", [l EXCEPT !.node = s.free])
       [] place = "take"   -> IF s.free = l.node
                              THEN Yield([s EXCEPT !.free = s.next[l.node]], "value", l)
                              ELSE Yield(s, "free", l)
       [] place = "value"  -> Yield([s EXCEPT !.value[l.node] = t.call.arg], "head", l)
       [] place = "head"   -> Yield(s, "link", [l EXCEPT !.head = s.head])
       [] place = "link"   -> LET linked == [s EXCEPT !.next[l.node] = l.head]
                              IN IF l.time = 3 THEN Returning(linked, 0)
                                 ELSE Yield(linked, "push", [l EXCEPT !.time = @ + 1])
       [] place = "push"   -> IF s.head = l.head THEN Return([s EXCEPT !.head = l.node], -1)
                              ELSE Yield(s, "head", l)

TreiberPop(s, t) ==
  LET place == t.loc[1]
      l == t.loc[2]
  IN CASE place = "entry"  -> Yield(s, "head", [node |-> 0, value |-> 0, free |-> 0])
       [] place = "return" -> Return(s, l)
       [] place = "head"   -> IF s.head = 0 THEN Returning(s, 0)
                              ELSE Yield(s, "pop", [l EXCEPT !.node = s.head])
       [] place = "pop"    -> IF s.head = l.node
                              THEN Yield([s EXCEPT !.head = s.next[l.node]], "value", l)
                              ELSE Yield(s, "head", l)
       [] place = "value"  -> Yield(s, "free", [l EXCEPT !.value = s.value[l.node]])
       [] place = "free"   -> Yield(s, "unlink", [l EXCEPT !.free = s.free])
       [] place = "unlink" -> Yield([s EXCEPT !.next[l.node] = l.free], "give", l)
       [] place = "give"   -> IF s.free = l.free
                              THEN Returning([s EXCEPT !.free = l.node], l.value)
                              ELSE Yield(s, "free", l)

TreiberStackBody(s, t) == IF t.call.name = "Push" THEN TreiberPush(s, t) ELSE TreiberPop(s, t)

-----------------------------------------------------------------------------
(* verifying/targets/fast_queue.cpp, MPMCBoundedQueue with two cells: cell *)
(* h & max_size_ is h % 2 + 1 here.  The compare-exchanges are weak, but   *)
(* do not fail spuriously on the machines the tool runs on.                *)
EmptyBoundedQueue == [head |-> 0, tail |-> 0, generation |-> <<0, 1>>, val |-> <<0, 0>>]

(* Reset leaves the values. *)
ResetBoundedQueue(q) == [EmptyBoundedQueue EXCEPT !.val = q.val]

CellOf(position) == (position % 2) + 1

BoundedQueuePush(q, t) ==
  LET place == t.loc[1]
      h == t.loc[2]
  IN CASE place = "entry"  -> Yield(q, "head", 0)
       [] place = "return" -> Return(q, h)
       [] place = "head"   -> Yield(q, "gen", q.head)
       [] place = "gen"    -> LET gen == q.generation[CellOf(h)]
                              IN IF gen < h THEN Returning(q, 0)
                                 ELSE Yield(q, IF gen = h THEN "claim" ELSE "head", h)
       [] place = "claim"  -> IF q.head = h THEN Yield([q EXCEPT !.head = h + 1], "val", h)
                              ELSE Yield(q, "head", h)
       [] place = "val"    -> Yield([q EXCEPT !.val[CellOf(h)] = t.call.arg], "publish", h)
       [] place = "publish" -> Returning([q EXCEPT !.generation[CellOf(h)] = @ + 1], 1)

BoundedQueuePop(q, t) ==
  LET place == t.loc[1]
      l == t.loc[2]
  IN CASE place = "entry"  -> Yield(q, "tail", 0)
       [] place = "return" -> Return(q, l)
       [] place = "tail"   -> Yield(q, "gen", q.tail)
       [] place = "gen"    -> LET gen == q.generation[CellOf(l)]
                              IN IF gen < l + 1 THEN Returning(q, 0)
                                 ELSE Yield(q, IF gen = l + 1 THEN "claim" ELSE "tail", l)
       [] place = "claim"  -> IF q.tail = l THEN Yield([q EXCEPT !.tail = l + 1], "val", l)
                              ELSE Yield(q, "tail", l)
       [] place = "val"    -> Yield(q, "publish", <<l, q.val[CellOf(l)]>>)
       [] place = "publish" -> Returning([q EXCEPT !.generation[CellOf(l[1])] = @ + 1], l[2])

BoundedQueueBody(q, t) ==
  IF t.call.name = "Push" THEN BoundedQueuePush(q, t) ELSE BoundedQueuePop(q, t)

-----------------------------------------------------------------------------
(* verifying/targets/unique_args.cpp and counique_args.cpp: the indexes    *)
(* that are used and done.  The result is limit for the call that is the   *)
(* last to be done, which resets the object, and an empty optional (-1)    *)
(* for the others.                                                         *)
limit == 3
NothingUsed == [used |-> {}, done |-> {}]

(* GenerateArgs: the first index that is not used, if there is one. *)
UniqueArgs(u) ==
  LET unused == (0..(limit - 1)) \ u.used
  IN {i \in unused : \A j \in unused : i <= j}

DoneResult(u) ==
  IF Cardinality(u.done) = limit THEN Return(NothingUsed, limit) ELSE Return(u, -1)

UniqueArgsBody(u, t) ==
  LET i == t.call.arg
  IN CASE t.loc[1] = "entry" ->
            Asserting(i \notin u.used, Yield([u EXCEPT !.used = @ \cup {i}], "done", 0))
       [] t.loc[1] = "done" -> DoneResult([u EXCEPT !.done = @ \cup {i}])

(* codegen/coyieldpass.cpp puts a CoroutineStatusChange, which yields,     *)
(* before and after the call of CoFun.                                     *)
CoUniqueArgsBody(u, t) ==
  LET i == t.call.arg
  IN CASE t.loc[1] = "entry" ->
            Asserting(i \notin u.used,
              [Yield([u EXCEPT !.used = @ \cup {i}], "CoFun", 0)
                 EXCEPT !.coroutine = "start"])
       [] t.loc[1] = "CoFun" ->
            [Yield([u EXCEPT !.done = @ \cup {i}], "count", 0)
               EXCEPT !.coroutine = "end"]
       [] t.loc[1] = "count" -> DoneResult(u)
=============================================================================
