\* Both checkers on every history of four queue operations, up to two pending.
SPECIFICATION Spec
CONSTANTS
  Calls <- QueueCalls
  Rets <- QueueRets
  SpecStates <- QueueStates
  first_state <- QueueFirst
  Result <- QueueResult
  Effect <- CappedQueueEffect
  SpecEquals <- SameState
  HistoryInputs <- MCHistoryInputs
  Outcomes <- QueueOutcomes
  MinTasks = 4
  MaxTasks = 4
  MaxPending = 2
INVARIANTS AgreesWithRecursive InBounds
