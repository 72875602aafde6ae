\* Two rounds under the round robin and the PCT strategy.
SPECIFICATION FairSpec
CONSTANTS
  Calls <- AllCalls
  Generates <- GeneratedCalls
  Reset <- ResetObj
  Body <- TargetBody
  Word <- TargetWord
  NewStatus <- ZeroStatus
  Verify <- TargetVerify
  OnFinished <- TargetOnFinished
  Check <- TargetCheck
  CheckThrows <- TargetCheckThrows
  NewObjs <- RoundObjs
  Values = {1}
  Cells = 1
  MaxTries = 0
  Kinds = {"rr", "pct"}
  forbid_all_same = TRUE
  depth_limit = 2
  MaxLength = 0
  should_minimize_history = FALSE
  threads_count = 3
  max_tasks = 2
  max_rounds = 2
INVARIANTS RoundsAreIsolated NoFalseAlarm SectionIsExclusive
PROPERTIES StartsAreVerified RoundsDoNotAbort RunEnds
