SPECIFICATION TablesSpec
CONSTANTS
  Addr = {a1, a2}
  Id = {i0, i1, i2}
  NoId = i0
  ID = i1
  NoDest = noDest
  OldAge = 2
  Uptime = 1
  MaxTime = 6
INVARIANTS Disjoint SymmetricWasHeard
