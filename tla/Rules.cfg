CONSTANTS
  Corpus = {1, 2}
  Strata = {"s1", "s2"}
  Words = {"w1", "w2", "n"}
  RuleBook <- MCRuleBook
  Threshold = 30
  Probes = {1, 2}
  PassRates = {30, 60}
  Configs <- MCConfigs
  Predictions <- MCPredictions
  Truths <- MCTruths
  Lockboxes <- MCLockboxes
  MinCell = 2
  RecallParts = 420
  CriticalAt <- MCCriticalAt
  Manifests <- MCManifests
  Payloads = {"p", "q"}
  RegisterLength = 2
  Adjudicated = 2
  VerdictsGiven = 1
  BaseTally <- MCBaseTally
  Sample = {1, 2, 3}
  Parts <- MCParts
  Asked = "A"
  List <- MCList
  Rows <- MCRows
  LabelledIds = {1, 2, 3, 4}
  Draws <- MCDraws
  Columns <- MCColumns
  Respondents = 2
  Scores = {0, 1, 2}
  VotePicks <- MCVotePicks
  Floors = {30, 95}
  CycleList <- MCCycleList
  CycleBlind = {"E4"}
  CycleSeen <- MCCycleSeen
  CycleDraws <- MCCycleDraws
  CycleVoters = 2
  CyclePicks <- MCCyclePicks
  CycleTies <- MCCycleTies
  CycleLimits <- MCCycleLimits
  SecurityRecords <- MCSecurityRecords
  TableLines <- MCTableLines
  Snapshot = 2
  SharedWords = 1
  DriftEntries = {"A"}
  DriftCounts <- MCCounts
  RollupOf <- MCRollupOf
  Rates = {0, 1, 2}
  BlindSets <- MCBlindSets
  Tested = {1, 2, 3}
  TestedClasses = {"X", "Y"}
  RecallFloor = 40
SPECIFICATION Spec
CHECK_DEADLOCK FALSE
INVARIANTS
  LabelsFollowStages
  BenchAndShipAgree
  GatePassMeansResisted
  WinnerIsJustified
  LockPinsTheAnalysis
  RegisterIsTamperEvident
  GoldScoresTheClassifier
  TallyIgnoresBatching
  OracleJudgesIncidence
  ReplicateIsBordaCount
  SyntheticCycleConcordant
  OverlapsOneToOne
  DriftIsBounded
  BlendRespectsDominance
  CorrectionRecoversTruth
