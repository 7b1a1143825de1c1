CONSTANTS
  StepCount = 2
  Honours = {1}
  Timeout = 2
  MaxOverrun = 1
  Requests = {q1, q2}
SPECIFICATION ServiceFairSpec
INVARIANTS ServiceTypeOK EveryStepRuns DrainedOrLate CleanExit
PROPERTIES GracefulReturns ShutdownEnds ServeFailureEnds
CHECK_DEADLOCK FALSE
