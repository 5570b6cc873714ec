SPECIFICATION FairSpec
CONSTANTS
  Watchers = {w1}
  Users = {u1}
  Sims = {}
  Nobody = Nobody
  NoSim = NoSim
  MaxAttempts = 2
  MaxJobs = 2
  MaxFaults = 2
  Overlap = TRUE
INVARIANTS
  HandOutsBounded
PROPERTIES
  EveryJobEnds
