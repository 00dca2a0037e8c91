CONSTANTS
  A = A
  B = B
  None = None
  Graphs = {A}
  Contents <- AppContents
  Components <- MCComponents
  Upstream <- MCUpstream
  Schemas <- OneSchema
  Public = "public"
  Slices <- Once
  PlanIds = {1, 2, 3, 4, 5, 6, 7, 8}
  Faults = {"crash", "journal", "target", "drift"}
  InitialTargets <- Pristine
  MaxTasks = 1
SPECIFICATION Spec
INVARIANTS
  AppliesFirstOutstanding
PROPERTIES
  ImplementsConvergence
VIEW View
