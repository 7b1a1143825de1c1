CONSTANTS
  Payloads <- MCPayloads
  JSONPayloads <- MCJSONPayloads
  Remarshal <- MCRemarshal
  Skippable <- MCSkippable
  ContentIsString = FALSE
  Partitions = {p1, p2}
  Log <- TwoPartitions
  Runs = {r1}
  Callers = {c1, c2}
  Sentinels = {"unavailable", "invalid"}
  RetryOptions <- Timed
  MaxTick = 2
  MaxCrashes = 1
SPECIFICATION FairSpec
INVARIANTS TypeOK NoMessageLost InOrder DrainedBeforeClose ShutdownProceeds
  DeadLettersDecode
PROPERTIES ImplementsAtLeastOnce ShutdownCloses MessageSettles
CHECK_DEADLOCK FALSE
