CONSTANTS
  Routes <- PlainRoute
  Chains = {}
  ErrorStatuses = {}
  Statuses = {404}
  MaxOptions = 1
  MaxWrites = 3
SPECIFICATION Spec
INVARIANT RecordedStatus
CHECK_DEADLOCK FALSE
