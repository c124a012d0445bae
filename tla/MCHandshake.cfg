SPECIFICATION Spec
CONSTANTS
  Peers = {1, 2}
  Contacts <- MCContacts
  Boot = {}
  Stoppable = {2}
  OldAge = 2
  MIN_SYM = 10
  MaxGen = 2
  Window = 2
  MaxFaults = 1
  NoId = noId
  NoDest = noDest
INVARIANT SymmetricWasTold
PROPERTIES GoneForgotten MeetingSucceeds
