CONSTANTS
  A = A
  B = B
  None = None
  Graphs = {A}
  Contents <- AllContents
  Components <- MCComponents
  Upstream <- MCUpstream
  Schemas <- TwoSchemas
  Public = "public"
  Slices <- Revised
  PlanIds = {1, 2, 3, 4, 5, 6, 7, 8}
  Faults = {"crash", "journal", "report", "target", "provider", "reject", "disk", "core"}
  InitialTargets <- Pristine
  MaxTasks = 1
SPECIFICATION Spec
INVARIANTS
  TypeOK
  PassHasItsLevel
  NeverReapplies
  ReadyIsBacked
PROPERTIES
  ReceiptsAreTrue
VIEW View
