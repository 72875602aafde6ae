\* Does the runtime leave parked tasks alone?
SPECIFICATION Spec
CONSTANTS
  Calls <- AllCalls
  Generates <- GeneratedCalls
  Reset <- ResetObj
  Body <- TargetBody
  Word <- TargetWord
  NewStatus <- ZeroStatus
  Verify <- TargetVerify
  OnFinished <- TargetOnFinished
  Check <- TargetCheck
  CheckThrows <- TargetCheckThrows
  NewObjs <- QueueObjs
  Values = {1}
  Cells = 1
  MaxTries = 0
  Kinds = {"random"}
  forbid_all_same = FALSE
  depth_limit = 1
  MaxLength = 0
  should_minimize_history = FALSE
  threads_count = 3
  max_tasks = 1
  max_rounds = 1
PROPERTY ParkedTasksRest
