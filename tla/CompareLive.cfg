SPECIFICATION FairSpec
CONSTANTS
  Watchers = {w1}
  Users = {u1}
  Nobody = Nobody
  Modes = {"twocores"}
  MaxAttempts = 2
  MaxJobs = 1
  MaxFaults = 1
  Overlap = TRUE
PROPERTIES
  StopEnds
  StoppedForGood
