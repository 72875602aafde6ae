\* What the verifier learnt is not taken back when the search goes back.
SPECIFICATION Spec
CONSTANTS
  Calls <- AllCalls
  Generates <- GeneratedCalls
  NewObjs = {}
  Reset <- ResetObj
  Body <- TargetBody
  Word <- TargetWord
  MaxTries = 40
  Options <- VerifierOptions
  Constructors <- TargetConstructors
  NewStatus <- ZeroStatus
  Verify <- TargetVerify
  OnFinished <- TargetOnFinished
  Check <- TargetCheck
  CheckThrows <- TargetCheckThrows
  Values = {1}
  Cells = 1
INVARIANT UnlocksFollowLocks
