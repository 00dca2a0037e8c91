CONSTANTS
  A = A
  B = B
  None = None
  Graphs = {A}
  Contents <- AppContents
  Components <- MCComponents
  Upstream <- MCUpstream
  Schemas <- OneSchema
  Public = "public"
  Slices <- Once
  PlanIds = {1, 2, 3, 4, 5, 6, 7, 8}
  Faults = {"provider"}
  InitialTargets <- Pristine
  MaxTasks = 2
SPECIFICATION Spec
PROPERTIES
  FailedWasRejected
VIEW View
