SPECIFICATION PagesFairSpec
CONSTANTS
  MaxFolder = 3
  SavedTrees = {1}
  StoredTrees <- MCStored
  MaxAuth = 2
  MaxRequests = 2
  LibraryMaxFaults = 1
  Boards = {1, 2}
  Cards = {"k", "q"}
  MaxDealt = 2
  Holes <- MCHoles
  MaxTasks = 2
  MaxStarted = 3
  CardSets <- MCCardSets
  MaxChanges = 3
  Jobs = {2, 3, 4}
  Queued = {4}
  Files = {5}
  Legacy = {3}
  SpotOf <- MCSpotOf
  PartsOf <- MCPartsOf
  MaxOpened = 2
  MaxDropped = 1
  MaxFailures = 1
  Sims <- MCSims
  Players <- MCPlayers
  Ante <- MCAnte
  Stack <- MCStack
  Tree <- MCTree
  Solved <- MCSolved
  MaxWalked = 2
  MaxEvents = 3
CHECK_DEADLOCK FALSE
INVARIANTS
  PagesTypeOK
  ViewsAgree
PROPERTIES
  PagesSettle
