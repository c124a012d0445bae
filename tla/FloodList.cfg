SPECIFICATION FloodSpec
CONSTANTS
  Addr = {1, 2, 3}
  NULL = null
  Data = {d1, d2, d3}
  MaxSent = 2
  NBDATA = 2
  Uptime = 1
  MaxTime = 3
INVARIANTS
  RecentDistinct OneEntryPerNeighbor NoDangling SortedByDate CursorValid NoHastyGiveUp
PROPERTIES NeverReflooded PassedNotDue PassTerminates
