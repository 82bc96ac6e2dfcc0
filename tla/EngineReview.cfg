CONSTANTS
  Base <- ReviewBase
  Verifiers <- JustV
  Deps <- ReviewDeps
  Reviewers <- JustR
  Deterministic <- JustR
  Premium <- None
  Fallback <- None
  MaxWip = 2
  Conflicts <- None
  Reports <- MostReports
  LaunchErrors <- None
  Judgements <- AllVerdicts
  GateChoices <- None
  Breakage = FALSE
  Supports = TRUE
  MaxStartFailures = 0
  MaxCrashes = 0
  MaxCancels = 0
SPECIFICATION Spec
INVARIANTS
  ReviseAnswered
CHECK_DEADLOCK FALSE
