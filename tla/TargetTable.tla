---------------------------- MODULE TargetTable -----------------------------
(***************************************************************************)
(* What every test program of verifying/ hands to ltest::Run: the object   *)
(* under test with its task builders, the sequential specification and the *)
(* verifier.  An object is a pair of the program's name and the object, a  *)
(* call a record of the program's name, the method's and the argument.     *)
(***************************************************************************)
EXTENDS LockFreeTargets, Verifiers, SequentialSpecs

CONSTANT Values    \* what the generators of the test programs draw

Mutexes   == {"simple_mutex", "nonlinear_mutex"}
Registers == {"race_register", "atomic_register"}
Queues    == {"mutex_queue", "nonlinear_queue", "nonlinear_ms_queue"}
Containers == Queues \cup {"nonlinear_treiber_stack", "fast_queue"}
Programs  == Mutexes \cup Registers \cup Containers
               \cup {"folly_rwspinlock", "deadlock", "nonlinear_set",
                     "unique_args", "counique_args"}

(* TargetObj{} *)
FreshObj(program) ==
  <<program,
    CASE program \in Mutexes \cup Registers \cup {"folly_rwspinlock"} -> 0
      [] program = "mutex_queue"        -> EmptyMutexQueue
      [] program = "deadlock"           -> NewMutexes
      [] program = "nonlinear_queue"    -> << >>
      [] program = "nonlinear_ms_queue" -> EmptyMSQueue
      [] program = "nonlinear_set"      -> EmptySlots
      [] program = "nonlinear_treiber_stack" -> EmptyStack
      [] program = "fast_queue"         -> EmptyBoundedQueue
      [] program \in {"unique_args", "counique_args"} -> NothingUsed>>

(* Reset() *)
ResetObj(obj) ==
  CASE obj[1] = "nonlinear_treiber_stack" -> <<obj[1], ResetStack(obj[2])>>
    [] obj[1] = "fast_queue"              -> <<obj[1], ResetBoundedQueue(obj[2])>>
    [] OTHER                              -> FreshObj(obj[1])

(* The coroutine of a task. *)
TargetBody(obj, t) ==
  LET program == obj[1]
      o == obj[2]
      out == CASE program = "simple_mutex"       -> FutexMutexBody(o, t)
               [] program = "nonlinear_mutex"    -> NonlinearMutexBody(o, t)
               [] program = "folly_rwspinlock"   -> RWSpinLockBody(o, t)
               [] program = "race_register"      -> RaceRegisterBody(o, t)
               [] program = "atomic_register"    -> AtomicRegisterBody(o, t)
               [] program = "mutex_queue"        -> MutexQueueBody(o, t)
               [] program = "deadlock"           -> DeadlockBody(o, t)
               [] program = "nonlinear_queue"    -> NonlinearQueueBody(o, t)
               [] program = "nonlinear_ms_queue" -> MSQueueBody(o, t)
               [] program = "nonlinear_set"      -> SlotsSetBody(o, t)
               [] program = "nonlinear_treiber_stack" -> TreiberStackBody(o, t)
               [] program = "fast_queue"         -> BoundedQueueBody(o, t)
               [] program = "unique_args"        -> UniqueArgsBody(o, t)
               [] program = "counique_args"      -> CoUniqueArgsBody(o, t)
  IN [out EXCEPT !.obj = <<program, @>>]

TargetWord(obj) ==
  IF obj[1] \in Mutexes THEN FutexMutexWord(obj[2]) ELSE NoWord(obj)

-----------------------------------------------------------------------------
(* The target_method lines: the methods with their argument generators. *)
CallsOf(program) ==
  LET calls(names, args) == [of : {program}, name : names, arg : args]
  IN CASE program \in Mutexes          -> calls({"Lock", "Unlock"}, {0})
       [] program \in Registers        -> calls({"add", "get"}, {0})
       [] program \in Containers       -> calls({"Push"}, Values) \cup calls({"Pop"}, {0})
       [] program = "folly_rwspinlock" ->
            calls({"lock", "lock_shared", "unlock", "unlock_shared"}, {0})
       [] program = "deadlock"         -> calls({"Lock"}, {0})
       [] program = "nonlinear_set"    -> calls({"Insert", "Erase"}, {1})
       [] OTHER                        -> calls({"Get"}, 0..(limit - 1))

AllCalls == UNION {CallsOf(program) : program \in Programs}

(* TaskBuilder::Build for thread i draws the arguments. *)
GeneratedCalls(obj, i) ==
  IF obj[1] \in {"unique_args", "counique_args"}
  THEN {c \in CallsOf(obj[1]) : c.arg \in UniqueArgs(obj[2])}
  ELSE CallsOf(obj[1])

-----------------------------------------------------------------------------
(* The verifiers of LTEST_ENTRYPOINT_CONSTRAINT. *)
TargetVerify(status, c, i, is_new) ==
  CASE c.of \in Mutexes          -> MutexVerify(status, c, i, is_new)
    [] c.of = "folly_rwspinlock" -> SharedMutexVerify(status, c, i, is_new)
    [] OTHER                     -> DefaultVerify(status, c, i, is_new)

TargetOnFinished(status, c, i) ==
  CASE c.of \in Mutexes          -> MutexOnFinished(status, c, i)
    [] c.of = "folly_rwspinlock" -> SharedMutexOnFinished(status, c, i)
    [] OTHER                     -> DefaultOnFinished(status, c, i)

-----------------------------------------------------------------------------
(* The specifications.  Their states are those a few calls can reach. *)
SpecResult(s, c) ==
  CASE c.of \in Mutexes          -> MutexResult(s, c)
    [] c.of = "folly_rwspinlock" -> SharedMutexResult(s, c)
    [] c.of \in Registers        -> RegisterResult(s, c)
    [] c.of \in Queues           -> QueueResult(s, c)
    [] c.of = "nonlinear_treiber_stack" -> StackResult(s, c)
    [] c.of = "nonlinear_set"    -> SetResult(s, c)
    [] c.of = "fast_queue"       -> BoundedQueueResult(s, c)
    [] c.of \in {"unique_args", "counique_args"} -> UniqueResult(s, c)

SpecEffect(s, c) ==
  CASE c.of \in Mutexes          -> MutexEffect(s, c)
    [] c.of = "folly_rwspinlock" -> SharedMutexEffect(s, c)
    [] c.of \in Registers        -> RegisterEffect(s, c)
    [] c.of \in Queues           -> QueueEffect(s, c)
    [] c.of = "nonlinear_treiber_stack" -> StackEffect(s, c)
    [] c.of = "nonlinear_set"    -> SetEffect(s, c)
    [] c.of = "fast_queue"       -> BoundedQueueEffect(s, c)
    [] c.of \in {"unique_args", "counique_args"} -> UniqueEffect(s, c)

FirstSpec(program) ==
  CASE program \in Containers      -> << >>
    [] program = "nonlinear_set" -> {}
    [] OTHER                     -> 0

(* n is a bound on the operations of a history. *)
SpecStatesOf(program, n) ==
  CASE program \in Containers    -> UNION {[1..k -> Values] : k \in 0..n}
    [] program = "nonlinear_set" -> SUBSET {1}
    [] OTHER                     -> (-n)..n

Checker(program, n) == INSTANCE RecursiveChecker WITH
  Calls <- CallsOf(program), Rets <- Int, SpecStates <- SpecStatesOf(program, n),
  first_state <- FirstSpec(program), Result <- SpecResult, Effect <- SpecEffect

Reference(program, n) == INSTANCE Linearizability WITH
  Calls <- CallsOf(program), Rets <- Int, SpecStates <- SpecStatesOf(program, n),
  first_state <- FirstSpec(program), Result <- SpecResult, Effect <- SpecEffect

ProgramOf(h) == Head(h).task.call.of

(* ltest::Run builds a LinearizabilityCheckerRecursive.  The history is    *)
(* evaluated once, before the search.                                      *)
TargetCheck(h) ==
  \A g \in {h \o << >>} :
    g # << >> => Checker(ProgramOf(g), Len(g))!CheckRecursive(g)

(* Test of deadlock.cpp is its own specification: Lock returns the int 0,  *)
(* the task returned void_v, and their comparison throws.                  *)
TargetCheckThrows(h) ==
  \E p \in DOMAIN h : h[p].type = "response" /\ h[p].task.call.of = "deadlock"

(* What the answer should be. *)
TargetLinearizable(h) ==
  \A g \in {h \o << >>} :
    g # << >> => Reference(ProgramOf(g), Len(g))!LinearizableAlong(g)
=============================================================================
