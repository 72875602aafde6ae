\* The targets without locks under the random strategy: which rounds are reported?
SPECIFICATION Spec
CONSTANTS
  Calls <- AllCalls
  Generates <- GeneratedCalls
  Reset <- ResetObj
  Body <- TargetBody
  Word <- TargetWord
  NewStatus <- ZeroStatus
  Verify <- TargetVerify
  OnFinished <- TargetOnFinished
  Check <- TargetCheck
  CheckThrows <- TargetCheckThrows
  NewObjs <- LockFreeObjs
  Values = {1}
  Cells = 3
  MaxTries = 0
  Kinds = {"random"}
  forbid_all_same = FALSE
  depth_limit = 1
  MaxLength = 0
  should_minimize_history = FALSE
  threads_count = 2
  max_tasks = 3
  max_rounds = 1
INVARIANTS ReportIsRight SetNeedsFourOperations
