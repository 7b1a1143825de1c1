CONSTANTS
  Routes <- TracedRoute
  Chains = {}
  ErrorStatuses = {}
  Statuses = {200}
  MaxOptions = 1
  MaxWrites = 1
SPECIFICATION Spec
INVARIANT TraceOnEntry
CHECK_DEADLOCK FALSE
