SPECIFICATION Spec
CONSTANTS
  Workers = {w1}
  Caller = Caller
  None = None
  Widths = {3, 5}
  Sizes = {3, 5}
  MaxWidth = 5
  MaxSplitLevels = 2
  MaxBatches = 6
  MaxCalls = 1
  MaxThrows = 0
INVARIANTS
  ArenasBounded
