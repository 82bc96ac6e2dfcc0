CONSTANTS
  Scenes = {"process", "live", "orca", "cli", "sprout", "routing", "topology",
            "skills", "product", "dashboard"}
  a1 = a1  a2 = a2  f1 = f1  f2 = f2  n1 = n1  n2 = n2  w1 = w1  w2 = w2
  Attempts = {a1, a2}
  MaxConcurrency = 1
  Timed = {a1}
  Cancellable = {a1}
  VerdictFromExit = {a2}
  VerdictFile = {a1}
  Files = {f1, f2}
  Own = {f1}
  Contents = {0, 1}
  Launches = 2
  MaxChanges = 2
  OrcaNodes = {n1, n2}
  Precreated = TRUE
  CloseMayFail = FALSE
  MaxLosses = 1
  MaxCrashes = 1
  MaxCancels = 1
  Workers = {w1, w2}
  Tree = {f1, f2}
  Scope <- MCScope
  Texts = {0, 1}
  Original = 0
  Reviewed = {w1}
  Reuse = TRUE
  MaxEvents = 2
  Obligations = {"p", "q"}
  NodeOf <- MCNodeOf
  BasePlan = {}
  Offers <- MCOffers
  Settings <- MCSettings
  MaxCandidates = 2
  MaxInput = 3
  MaxBranches = 2
  MinGain = 1
  MinGainPercent = 15
  Overhead = 0
  MaxRounds = 2
  Catalog <- MCCatalog
  Kinds <- MCKinds
  Margin = 1
  Blends <- MCBlends
  Preferred = {"none", "luna", "sol"}
  Tasks <- MCTasks
  Requested = {"none", "fast", "standard", "critical"}
  Verifiers <- MCVerifiers
  GatePools <- MCPools
  OriginalNode = "worker"
  RevisionNode <- MCRevisionNode
  MaxRevisions = 1
  MaxCompiles = 2
  MaxVerdicts = 2
  SkillIds = {"ponytail", "research"}
  About <- MCAbout
  Contexts <- MCContexts
  Registries = {"r1", "r2"}
  Builds = {"x", "y"}
  FirstBuild = "x"
  MaxEdits = 1
  MaxInstalls = 3
  MaxDeaths = 1
  Orders <- MCOrders
  Endings = {"succeeded", "failed", "timed_out", "outcome_unknown"}
  ExitStatuses = {"zero", "nonzero", "timed_out"}
  MaxKills = 1
  MaxReruns = 1
  ReplayLimit = 1
  Fetches = {c1, c2}
  c1 = c1  c2 = c2
  MaxLength = 3
  MaxConnects = 2
  MaxDrops = 1
SPECIFICATION MCSpec
INVARIANTS
  TypeOK
  OutcomeIsItsEnd NoProcessWithoutSlot
  DecisionSound
   OutcomeIsOwn
  ResumeContinuesOwnWork
  PremiumJustified
  
  NeverStranded SuccessIsProven
PROPERTIES
  AttemptsEnd
  DispatchDecides
  DisplaySettles
  
  GrowthIsSound
  TopologyHolds
CHECK_DEADLOCK FALSE
