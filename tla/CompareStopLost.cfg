SPECIFICATION Spec
CONSTANTS
  Watchers = {w1}
  Users = {u1}
  Nobody = Nobody
  Modes = {"compare"}
  MaxAttempts = 2
  MaxJobs = 1
  MaxFaults = 0
  Overlap = FALSE
INVARIANTS
  StoppedSolveKept
