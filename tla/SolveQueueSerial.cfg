SPECIFICATION Spec
CONSTANTS
  Watchers = {w1, w2}
  Users = {u1}
  Sims = {sim1}
  Nobody = Nobody
  NoSim = NoSim
  MaxAttempts = 2
  MaxJobs = 1
  MaxFaults = 2
  Overlap = FALSE
SYMMETRY Symmetry
INVARIANTS
  TypeOK
  ClaimsDistinct
  ClaimsAccounted
PROPERTIES
  ImplementsLifecycle
