SPECIFICATION Spec
CONSTANTS
  Requests = {q1, q2}
  Runs = {r1, r2}
  Tasks = {t1, t2}
  Rules = {x1, x2}
  Shapes <- MCShapes
  Packets <- MCPackets
  MaxEdits = 1
  MaxFailures = 1
  Providers = {"fast", "balanced", "strong"}
  ClassOf <- MCClassOf
  CallContexts <- MCContexts
  CostRouting = TRUE
  Costs = {2, 3}
  Limit = 5
  StepCap = 4
  MaxPaid = 9
  Paths = {p1, p2}
  ImplementTries = 2
  MaxLoopbacks = 1
  MaxFaults = 1
  Settings = {"api_key", "webhook_secret"}
  HookedRepos = {"repo"}
  MaxKey = 3
  Handlers = {h1, h2}
  MaxEvents = 4
  Issues = {i1, i2}
  PerPage = 1
  MaxTime = 3
  MaxSeq = 4
  MaxGap = 1
  Messages = {m1, m2}
  MaxCopies = 2
  Scanned = {1, 2}
  Manifests = {1, 2}
  MaxExpertVersion = 3
  MaxVersions = 2
  MaxRuns = 2
  MaxTries = 2
  LabelLists <- MCLabelLists
  IntakeAnswers <- MCAnswers
  IntakeFlags = {{}, {"risk_destructive"}}
  SeedRows <- MCSeedRows
  Candidates = {1, 2, 3}
  TemplateName <- MCTemplateName
  Confidences = {0, 80}
  MaxRecruitVersion = 2
  IssueTexts <- MCIssueTexts
  ContextFlags = {{}, {"risk_data", "risk_breaking"}}
  Complexities = {"low", "medium", "high"}
  TrustTiers = {"observe", "suggest"}
  MaxEvaluations = 3
  Criteria = {"clear", "short"}
  Vague = {"short"}
  Validations = {"v"}
  Overlaps <- MCOverlaps
  PlanSteps <- MCSteps
  Checkpoint <- MCCheckpoint
  CriteriaSets = {{}, {"clear"}, {"clear", "short"}}
  Panels <- MCPanels
  AgentPlans <- MCAgentPlans
  MaxQaLoopbacks = 1
  Outcomes = {"success", "failure"}
  Bands = {"medium"}
  ReopenKinds = {"intent_gap"}
  Decays = {100}
  MinSamples <- MCMinSamples
  ConfidentFrom <- MCConfidentFrom
  MaxReceived = 4
  BoardRows <- MCBoardRows
  Projects <- MCProjects
  MaxDisturbances = 1
  Boards <- MCBoards
  ItemsPerPage = 2
  BlockedPercent = 20
  MaxHighRisk = 1
  RepoPercent = 50
  ReviewTries = 2
  MaxReviews = 2
  MaxReviewTroubles = 1
  MaxRemoteTroubles = 1
  Plans <- MCPlans
  JobTries <- MCJobTries
  CommentsPerPage = 2
  MaxPeople = 2
  MaxJobTroubles = 2
  Caps = {2}
  Percent = 50
  MaxSpend = 2
  MaxBudgetTroubles = 1
  Repos = {"a", "b"}
  Clients = {}
  Facts <- MCFacts
  MaxChanges = 1
  FleetRepos = {"a"}
  Ttl = 2
  RunKinds = {"rerun", "escalate"}
  Filters = {"all", "stuck", "paused", "completed"}
  Endings = {"completed", "terminated"}
  StuckAfter = 0
  RowsPerPage = 1
  MaxClock = 1
  MaxConsoleTroubles = 1
SYMMETRY Alike
INVARIANTS
  TypeOK
  ExecuteIsGated
  TiersAreSound
  CallsAreSound
  EvidenceIsTrue
  Recoverable
  MergeStatusIsTrue
  NothingIsLost
  WorkIsContained
  AsidesAreTrue
  ConsoleIsTrue
  ComplianceIsTrue
  IntentIsServed
  PassedAsAgreed
  TrustIsEarned
  ReviewIsShown
PROPERTIES
  DeletionIsFinal
  LibraryIsSynced
  PlansAreComplete
  MoreIsBetter
  BoardIsSynced
CHECK_DEADLOCK FALSE
