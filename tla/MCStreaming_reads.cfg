CONSTANTS
  Callers = {c1, c2}
  Syncs = {d1}
  Workers = 2
  Total = 3
  Sent <- Lengths
  ChunkSize = 2
  Near = 1
  MaxRetries = 1
  Ranges <- SomeRanges
  MaxCalls = 3
SPECIFICATION LiveSpec
INVARIANTS ServedIsStreamed StoredIsWhole
PROPERTIES CallsReturn SyncsGoOn
CHECK_DEADLOCK FALSE
