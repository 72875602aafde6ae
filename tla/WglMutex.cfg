\* The iterative checker on every history of up to three lock and unlock operations, with a cache
\* that never hits (LinearMutexEquals).
SPECIFICATION FairSpec
CONSTANTS
  Calls <- MutexCalls
  Rets <- MutexRets
  SpecStates <- MutexStates
  first_state <- MutexFirst
  Result <- MutexResult
  Effect <- MutexEffect
  SpecEquals <- MutexEquals
  HistoryInputs <- MCHistoryInputs
  Outcomes <- MutexOutcomes
  MinTasks = 0
  MaxTasks = 3
  MaxPending = 2
INVARIANTS TypeOK CountIsExact AcceptIsWitnessed RejectIsRight MatchesReference
PROPERTY Terminates
