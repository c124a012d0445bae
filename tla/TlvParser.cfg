SPECIFICATION ParserSpec
CONSTANTS
  Byte = {0, 1, 2, 3}
  NB_TLV = 3
  MaxBody = 4
INVARIANTS OverrunAtMostTwo WellFormedHandled
PROPERTY ParseEnds
