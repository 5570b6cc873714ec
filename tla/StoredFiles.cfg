SPECIFICATION MCStoredSpec
CONSTANTS
  Requests = {i1, i2}
  Streets = {s1, s2}
  MaxDequeue = 2
  Faults = {"crash", "enqueue", "receive", "solve", "giveup", "upload", "reread", "misread", "archive", "delete", "midnight"}
  MaxFaults = 2
  MaxEvictions = 1
  Teams = {t1}
  Baseline = Baseline
  MaxIters = 2
  MaxRuns = 3
  SolveMaxFaults = 1
  Boards = {1, 2, 3}
  BoardBytes <- MCBoardBytes
  MaxBytes = 3
  MaxSolves = 4
  LibraryMaxFaults = 1
CHECK_DEADLOCK FALSE
INVARIANTS
  StoredTypeOK
  ManifestTruthful
  ArchivedWasServed
  TrainedAgainstOne
  RefusedUntouched
  LibrarySound
PROPERTIES
  StreetsKept
  SavedKept
  EveryRequestServed
