SPECIFICATION Spec
CONSTANTS
  Peers = {1, 2, 3}
  Lines = {1, 2}
  Links <- MCLinks
  Seed <- MCSeed
  Author <- MCAuthor
  Loops = {1}
  Together = {1, 2}
  MaxSent = 2
  NBDATA = 2
INVARIANT AckedMeansShown
PROPERTIES BroadcastImplemented FloodingEnds
