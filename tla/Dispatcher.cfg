CONSTANTS
  Calls = {d1, d2}
  MessageTimeouts = {1, 2, 3}
  FlushTimeout = 2
  LateDispatch = TRUE
  MaxStores = 2
SPECIFICATION FairSpec
INVARIANTS TypeOK DroppedOnlyLate NeverReordered
PROPERTIES DispatchReturns KeepsContract
CHECK_DEADLOCK FALSE
