CONSTANTS
  A = A
  One = One
  Two = Two
  None = None
  ConnectorName = "supabase"
  ApiVersion = 1
  Configured = "local"
  Reserved = {"vault"}
  Graphs = {A}
  Requests <- AllRequests
  PlanIds = {One}
  Faults = {"disk"}
SPECIFICATION Spec
PROPERTIES
  AcceptsDurably
