CONSTANTS
  A = A
  One = One
  Two = Two
  None = None
  ConnectorName = "supabase"
  ApiVersion = 1
  Configured = "local"
  Reserved = {"vault"}
  Graphs = {A}
  Requests <- AllRequests
  PlanIds <- TwoPlans
  Faults = {"crash", "power", "disk"}
SPECIFICATION Spec
INVARIANTS
  TypeOK
  PlansAreKept
  SavedAnswersHold
  DesiredIsValid
PROPERTIES
  KeptMovesForward
SYMMETRY Interchangeable
