SPECIFICATION Spec
CONSTANTS
  Addr = {1, 2}
  Id = {0, 10}
  NoId = 0
  ID = 10
  NoDest = noDest
  NULL = null
  Data = {d1}
  DataLength = 20
  Bootstrap = 1
  Length <- MCLength
  Contacts <- MCContacts
  OldAge = 2
  MaxSent = 2
  NBDATA = 1
  PMTU = 60
  TIMEHELLO = 2
  MIN_SYM = 1
  Uptime = 3
  MaxTime = 9
  MaxDelay = 1
  MaxInput = 3
INVARIANTS
  BufferPerNeighbor SilentGone FirstTransmissionOnTime
  RetransmissionBeforeHello CountStillRight
PROPERTIES TablesRefined FloodRefined OutboxRefined GoodbyeToAll
