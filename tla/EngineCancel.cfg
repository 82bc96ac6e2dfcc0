CONSTANTS
  Base <- PairBase
  Verifiers <- JustV
  Deps <- PairDeps
  Reviewers <- None
  Deterministic <- None
  Premium <- None
  Fallback <- None
  MaxWip = 2
  Conflicts <- None
  Reports <- MostReports
  LaunchErrors <- None
  Judgements <- AllVerdicts
  GateChoices <- None
  Breakage = FALSE
  Supports = TRUE
  MaxStartFailures = 0
  MaxCrashes = 0
  MaxCancels = 1
SPECIFICATION Spec
INVARIANTS
  CancelEndsRun
CHECK_DEADLOCK FALSE
