CONSTANTS
  A = A
  B = B
  WantA = WantA
  WantB = WantB
  DataA = DataA
  DataB = DataB
  P = P
  Q = Q
  None = None
  Graphs = {A, B}
  Contents <- MCContents
  Components <- MCComponents
  Upstream <- MCUpstream
  Schemas = {"public", "app"}
  Public = "public"
  Slices <- MCSlices
  PlanIds = {1, 2, 3, 4, 5, 6, 7, 8, 9, 10}
  Connectors = {P, Q}
  InitialTargets <- WithLedger
  MaxTail = 7
  MaxSessions = 2
SPECIFICATION Spec
INVARIANTS
  TypeOK
  FenceIsTheTail
  ExclusiveOwner
  MigrationsAreFresh
PROPERTIES
  ExtendsWhatItSaw
  SucceededIsTrue
  ImplementsConvergence
SYMMETRY Alike
