CONSTANTS
  Base <- PairBase
  Verifiers <- JustV
  Deps <- PairDeps
  Reviewers <- None
  Deterministic <- None
  Premium <- JustI
  Fallback <- JustI
  MaxWip = 2
  Conflicts <- None
  Reports <- KnownReports
  LaunchErrors <- AllErrors
  Judgements <- AllVerdicts
  GateChoices <- AllChoices
  Breakage = TRUE
  Supports = TRUE
  MaxStartFailures = 0
  MaxCrashes = 1
  MaxCancels = 1
SPECIFICATION Spec
INVARIANTS
  TypeOK
  LaunchesAllowed
  LaunchesRecorded
  PassNeedsVerdict
  RevisionsReplaceFailures
  NothingRefused
PROPERTIES
  UnknownNeverRelaunched
  QuietAfterEnd
  ImplementsContract
CHECK_DEADLOCK FALSE
