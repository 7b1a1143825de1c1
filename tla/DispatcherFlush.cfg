CONSTANTS
  Calls = {d1}
  MessageTimeouts = {1}
  FlushTimeout = 1
  LateDispatch = FALSE
  MaxStores = 2
SPECIFICATION FairSpec
INVARIANT NothingLeftBehind
CHECK_DEADLOCK FALSE
