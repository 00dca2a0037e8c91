CONSTANTS
  A = A
  B = B
  None = None
  Graphs = {A, B}
  Contents <- AllContents
  Components <- MCComponents
  Upstream <- MCUpstream
  Schemas <- TwoSchemas
  Public = "public"
  Slices <- Rivals
  PlanIds = {1, 2, 3, 4, 5, 6, 7, 8}
  Faults = {"crash", "retire"}
  InitialTargets <- WebReady
  MaxTasks = 1
SPECIFICATION FairSpec
INVARIANTS
  PassHasItsLevel
  ExclusiveOwner
  RetiredOwnsNothing
PROPERTIES
  LocksAreReleased
VIEW View
