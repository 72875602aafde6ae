\* The locks and deadlock.cpp, every interleaving of a round.
SPECIFICATION FairSpec
CONSTANTS
  Calls <- AllCalls
  Generates <- GeneratedCalls
  Reset <- ResetObj
  Body <- TargetBody
  Word <- TargetWord
  NewStatus <- ZeroStatus
  Verify <- TargetVerify
  OnFinished <- TargetOnFinished
  Check <- TargetCheck
  CheckThrows <- TargetCheckThrows
  NewObjs <- LockObjs
  Values = {1}
  Cells = 1
  MaxTries = 0
  Kinds = {"random", "rr"}
  forbid_all_same = FALSE
  depth_limit = 1
  MaxLength = 0
  should_minimize_history = FALSE
  threads_count = 3
  max_tasks = 3
  max_rounds = 1
INVARIANTS TypeOK HistoryIsSequentialPerThread HistoryMatchesTasks LockIsOwned DeadlockIsReal
PROPERTY LocksRunEnds
