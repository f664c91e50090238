SPECIFICATION Spec
CONSTANTS
  Models = {m1}
  Variants = {x, y}
  Scalings <- RichScalings
  Absent = Absent
  NoVersion = NoVersion
  InitStatuses = {"absent", "starting", "running", "failed", "deleting"}
  Nodes <- MCNodes
  Fleets <- MCFleets
  MaxLoads = 3
  Alignment = 2
  MinCtx = 4
  FitMargin = 1
  BlockSize = 2
  MinSeqs = 2
  Slack = 1
  CpuFixed = 1
  RowCap = 8
  TilingBelow = 12
  DefaultCtx = 8
  ChoiceIds = {1, 2}
  Asks <- MCAsks
  MaxLines = 3
  MaxFailures = 1
INVARIANTS PlanReachesTarget RollbackRestores SharesFit LargestFit StreamAgrees UsageCounts OutcomeMatchesClient
PROPERTIES SizedLoadsFit
CHECK_DEADLOCK FALSE
