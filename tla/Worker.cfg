CONSTANTS
  Payloads <- MCPayloads
  JSONPayloads <- MCJSONPayloads
  Remarshal <- MCRemarshal
  Skippable <- MCSkippable
  ContentIsString = TRUE
  Partitions = {p1}
  Log <- TextPartition
  Runs = {"run"}
  Callers = {"main"}
  Sentinels = {"unavailable", "invalid"}
  RetryOptions <- Timed
  MaxTick = 2
  MaxCrashes = 1
SPECIFICATION WorkerFairSpec
INVARIANTS DispatcherOutlivesLoop
PROPERTIES WorkerEnds RunsConsumer
CHECK_DEADLOCK FALSE
