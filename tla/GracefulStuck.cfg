CONSTANTS
  StepCount = 3
  Honours = {1, 2}
  Timeout = 3
  MaxOverrun = 1
SPECIFICATION FairSpec
PROPERTY GracefulReturns
CHECK_DEADLOCK FALSE
