\* The exhaustive search, with and without its bounds.
SPECIFICATION Spec
CONSTANTS
  Calls <- AllCalls
  Generates <- GeneratedCalls
  NewObjs = {}
  Reset <- ResetObj
  Body <- TargetBody
  Word <- TargetWord
  MaxTries = 40
  Options <- SearchOptions
  Constructors <- TargetConstructors
  NewStatus <- ZeroStatus
  Verify <- TargetVerify
  OnFinished <- TargetOnFinished
  Check <- TargetCheck
  CheckThrows <- TargetCheckThrows
  Values = {1}
  Cells = 1
INVARIANTS TypeOK EnumeratesAll ReplayRestores BacktrackRestores VerdictIsRight DeadlockIsReal
PROPERTY SearchAdvances
