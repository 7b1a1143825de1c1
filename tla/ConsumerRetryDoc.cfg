CONSTANTS
  Payloads <- MCPayloads
  JSONPayloads <- MCJSONPayloads
  Remarshal <- MCRemarshal
  Skippable <- MCSkippable
  ContentIsString = FALSE
  Partitions = {p1}
  Log <- OnePartition
  Runs = {r1}
  Callers = {c1}
  Sentinels = {"unavailable", "invalid"}
  RetryOptions <- Timed
  MaxTick = 2
  MaxCrashes = 0
SPECIFICATION Spec
INVARIANT OnlyRetryableErrorsRetried
CHECK_DEADLOCK FALSE
