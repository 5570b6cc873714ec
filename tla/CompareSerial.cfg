SPECIFICATION Spec
CONSTANTS
  Watchers = {w1}
  Users = {u1}
  Nobody = Nobody
  Modes = {"compare", "twocores", "multiway", "pushfold", "publish"}
  MaxAttempts = 2
  MaxJobs = 1
  MaxFaults = 2
  Overlap = FALSE
INVARIANTS
  TypeOK
  ResultsAccounted
  FailsOnlyByFault
