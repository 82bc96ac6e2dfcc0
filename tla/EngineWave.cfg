CONSTANTS
  Base = {a, b, c, e}
  Verifiers <- None
  Deps <- Alone
  Reviewers <- None
  Deterministic = {a, b, c, e}
  Premium <- None
  Fallback <- None
  MaxWip = 2
  Conflicts = {{b, c}}
  Reports <- MostReports
  LaunchErrors <- None
  Judgements <- None
  GateChoices <- None
  Breakage = FALSE
  Supports = TRUE
  MaxStartFailures = 0
  MaxCrashes = 1
  MaxCancels = 1
SPECIFICATION Spec
SYMMETRY Swaps
INVARIANTS
  WaveFits
CHECK_DEADLOCK FALSE
