CONSTANTS
  A = A
  None = None
  Graphs = {A}
  Contents <- MCContents
  Components <- MCComponents
  Upstream <- MCUpstream
  Schemas = {"public", "app", "web"}
  Public = "public"
  Slices <- MCSlices
  PlanIds = {1}
  InitialTargets <- AnyTarget
SPECIFICATION FairSpec
INVARIANTS
  NextIsExecutable
PROPERTIES
  ReceiptOrder
  LevelsConverge
CHECK_DEADLOCK FALSE
