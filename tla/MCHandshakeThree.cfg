SPECIFICATION Spec
CONSTANTS
  Peers = {1, 2, 3}
  Contacts <- MCContacts
  Boot = {1, 2, 3}
  Stoppable = {}
  OldAge = 2
  MIN_SYM = 10
  MaxGen = 1
  Window = 1
  MaxFaults = 0
  NoId = noId
  NoDest = noDest
PROPERTY Converges
