CONSTANTS
  A = A
  B = B
  None = None
  Graphs = {A}
  Contents <- AppContents
  Components <- MCComponents
  Upstream <- MCUpstream
  Schemas <- OneSchema
  Public = "public"
  Slices <- Refused
  PlanIds = {1, 2, 3, 4, 5, 6, 7, 8}
  Faults = {"crash", "report"}
  InitialTargets <- Pristine
  MaxTasks = 2
SPECIFICATION FairSpec
INVARIANTS
  NoLostPass
PROPERTIES
  LevelsSettle
