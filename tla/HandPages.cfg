SPECIFICATION MCSpec
CONSTANTS
  NumSeats = 3
  SmallBlind = 1
  BigBlind = 2
  Tables <- MCTables
  MaxHands = 2
  Stacks <- MCStacks
  Rankings <- MCRankings
  EditedSeats = {1}
  MaxEdits = 1
  MaxUndone = 1
  MaxRecorded = 2
  MaxFaults = 1
  MaxReopened = 1
  SavedHands = {1, 2}
  DeviceHands = {{1}, {1, 2}}
  ListMaxFaults = 1
  ListMaxDeletes = 1
  ListMaxVisits = 2
  Texts = {0, 1, 3}
  MaxTextEdits = 2
  MaxSessions = 2
  Requests <- MCRequests
  MaxShowdowns = 3
  MaxWorkerFaults = 1
CHECK_DEADLOCK FALSE
INVARIANTS
  HandPagesTypeOK
  BettingSound
  ChipsAccounted
  FramesFaithful
  HandsKept
  HandViewsAreOwn
PROPERTIES
  HandPagesSettle
