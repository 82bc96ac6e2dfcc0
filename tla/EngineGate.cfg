CONSTANTS
  Base <- PairBase
  Verifiers <- JustV
  Deps <- PairDeps
  Reviewers <- None
  Deterministic <- None
  Premium <- JustI
  Fallback <- JustI
  MaxWip = 2
  Conflicts <- None
  Reports <- MostReports
  LaunchErrors <- None
  Judgements <- AllVerdicts
  GateChoices <- AllChoices
  Breakage = FALSE
  Supports = TRUE
  MaxStartFailures = 0
  MaxCrashes = 1
  MaxCancels = 0
SPECIFICATION Spec
INVARIANTS
  PremiumHasGate
CHECK_DEADLOCK FALSE
