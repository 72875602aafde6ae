\* Rounds of race_register and nonlinear_mutex, generated and explored to the end.
SPECIFICATION FairMinimizingSpec
CONSTANTS
  Calls <- AllCalls
  Generates <- GeneratedCalls
  Reset <- ResetObj
  Body <- TargetBody
  Word <- TargetWord
  NewStatus <- ZeroStatus
  Verify <- TargetVerify
  OnFinished <- TargetOnFinished
  Check <- TargetCheck
  CheckThrows <- TargetCheckThrows
  NewObjs <- BothObjs
  Values = {1}
  Cells = 1
  MaxTries = 8
  Kinds = {"rr"}
  forbid_all_same = FALSE
  depth_limit = 1
  MaxLength = 0
  should_minimize_history = TRUE
  threads_count = 3
  max_tasks = 5
  max_rounds = 1
  exploration_runs = 2
  minimization_runs = 2
  max_offsprings_per_generation = 2
  offsprings_generation_attemps = 1
  initial_mutations_count = 2
  MaxSwitches = 100
INVARIANTS KeptTasksAreReported AbortsOnlyOnWaiters
PROPERTY RunEnds
