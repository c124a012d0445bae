SPECIFICATION Spec
CONSTANTS
  Typed = {1, 2, 3}
  Received = {5}
  Size <- MCSize
  Byte = 6
  Header = 1
  PIPE_SIZE = 5
  Opens = TRUE
  Mortal = {"peer", "server"}
CHECK_DEADLOCK FALSE
INVARIANTS SentIsTyped LostOnlyBetweenWrites
PROPERTIES TypedIsSent PeerReturns ServerGone
