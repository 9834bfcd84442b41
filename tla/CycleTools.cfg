SPECIFICATION Spec
CHECK_DEADLOCK FALSE
CONSTANTS
  \* Two threads and five incidents: both can be in a call when a guard
  \* becomes true, and three calls reach the ceiling.
  Threads = {t1, t2}
  Routed = 5
  Ceiling = 3
  Window = 1
  PerFallback = 2
  \* Two starts of reclassify may die.
  i1 = i1
  i2 = i2
  i3 = i3
  i4 = i4
  Incidents <- MCIncidents
  Stage2 = {i1, i2, i3}
  Corpus = {i1, i2, i4}
  Stage1Rows <- MCStage1Rows
  MaxConcurrent = 2
  MaxReclassifyDeaths = 2
  \* Both configs are scored, one a second time, and two bakeoffs are made.
  Configs = {c1, c2}
  None = None
  TornFile = TornFile
  MaxGrowth = 1
  MaxBakeoffRuns = 5
  \* All six commands, or five with batches handed out twice.
  SnapshotIncidents = {1, 2}
  Labelled <- MCLabelled
  Entry = "A"
  Stratum = "s"
  MaxCommands = 6
  MaxStageDeaths = 1
  \* Two freezes with two edits around them.
  NoFile = NoFile
  HalfFile = HalfFile
  Foreign = Foreign
  MaxEdits = 2
  Figures <- MCFigures
  MaxFreezes = 2
INVARIANTS
  GuardsLagByThreads
  EachIncidentLabelledOnce
  DisclosureMatchesSelection
  PosteriorsStandOnTheirChain
  AcceptedTreeIsOneFreeze
PROPERTY
  PhaseEnds
