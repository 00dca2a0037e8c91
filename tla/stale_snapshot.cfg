CONSTANTS
  A = A
  B = B
  WantA = WantA
  WantB = WantB
  DataA = DataA
  DataB = DataB
  P = P
  Q = Q
  None = None
  Graphs = {A, B}
  Contents <- MCContents
  Components <- MCComponents
  Upstream <- MCUpstream
  Schemas = {"public", "app"}
  Public = "public"
  Slices <- MCSlices
  PlanIds = {1, 2, 3, 4, 5, 6, 7, 8, 9, 10}
  Connectors = {P}
  InitialTargets <- LedgerOnly
  MaxTail = 10
  MaxSessions = 2
SPECIFICATION Spec
PROPERTIES
  CommitsAreFresh
