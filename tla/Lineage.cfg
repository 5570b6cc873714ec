SPECIFICATION Spec
CONSTANTS
  Jobs = {j1, j2}
  Ids = {s1}
  Keys = {k1, k2}
  None = None
  Groups = {g1}
  Requests = {r1}
  MaxIters = 2
  MaxEdits = 2
  MaxFaults = 1
CHECK_DEADLOCK FALSE
SYMMETRY Symmetry
INVARIANTS
  TypeOK
  LineageKept
  NothingBehind
PROPERTIES
  GroupsFollow
