SPECIFICATION OutboxSpec
CONSTANTS
  Addr = {a1, a2}
  short = short
  long = long
  Tlv <- MCTlv
  Size <- MCSize
  Messages <- MCMessages
  PMTU = 50
INVARIANT DatagramFits
PROPERTY NothingLost
