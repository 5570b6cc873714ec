SPECIFICATION SolveSpec
CONSTANTS
  Teams = {t1}
  Baseline = Baseline
  MaxIters = 3
  MaxRuns = 3
  SolveMaxFaults = 0
CHECK_DEADLOCK FALSE
INVARIANTS
  FrozenAsTrained
