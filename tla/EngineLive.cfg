CONSTANTS
  Base <- ChainBase
  Verifiers <- JustV
  Deps <- ChainDeps
  Reviewers <- None
  Deterministic <- JustD
  Premium <- None
  Fallback <- None
  MaxWip = 2
  Conflicts <- None
  Reports <- AllReports
  LaunchErrors <- AllErrors
  Judgements <- AllVerdicts
  GateChoices <- None
  Breakage = FALSE
  Supports = TRUE
  MaxStartFailures = 1
  MaxCrashes = 0
  MaxCancels = 0
SPECIFICATION FairSpec
PROPERTIES
  RunsSettle
CHECK_DEADLOCK FALSE
