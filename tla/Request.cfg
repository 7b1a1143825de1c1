CONSTANTS
  Routes <- MCRoutes
  Chains <- MCChains
  ErrorStatuses = {418, 503}
  Statuses = {200, 404}
  MaxOptions = 3
  MaxWrites = 3
SPECIFICATION FairSpec
INVARIANTS
  TypeOK
  RecordedUnlessLate
  ErrorsReachClient
  EntryCorrelated
PROPERTIES
  LateHandlerIsSilent
  TimeoutAnswers
CHECK_DEADLOCK FALSE
