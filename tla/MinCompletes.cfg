\* Rounds of race_register under the random strategy, replayed.
SPECIFICATION MinimizingSpec
CONSTANTS
  Calls <- AllCalls
  Generates <- GeneratedCalls
  Reset <- ResetObj
  Body <- TargetBody
  Word <- TargetWord
  NewStatus <- ZeroStatus
  Verify <- TargetVerify
  OnFinished <- TargetOnFinished
  Check <- TargetCheck
  CheckThrows <- TargetCheckThrows
  NewObjs <- RegisterObjs
  Values = {1}
  Cells = 1
  MaxTries = 8
  Kinds = {"random"}
  forbid_all_same = FALSE
  depth_limit = 1
  MaxLength = 0
  should_minimize_history = TRUE
  threads_count = 2
  max_tasks = 3
  max_rounds = 1
  exploration_runs = 1
  minimization_runs = 1
  max_offsprings_per_generation = 1
  offsprings_generation_attemps = 1
  initial_mutations_count = 1
  MaxSwitches = 3
INVARIANT ReplayCompletesTasks
CONSTRAINT FewSwitches
