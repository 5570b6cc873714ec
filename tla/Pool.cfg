SPECIFICATION FairSpec
CONSTANTS
  Workers = {w1, w2}
  Caller = Caller
  None = None
  Widths = {2}
  Sizes = {1, 2}
  MaxWidth = 3
  MaxSplitLevels = 2
  MaxBatches = 3
  MaxCalls = 2
  MaxThrows = 1
INVARIANTS
  TypeOK
  OutlivesItsTasks
  RunsOnce
  ErrorReachesCaller
PROPERTIES
  WaitsEnd
