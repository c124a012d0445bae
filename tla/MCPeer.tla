------------------------------- MODULE MCPeer -------------------------------
(* Peer for TLC: the lengths of the data.                                      *)
EXTENDS Peer

CONSTANTS
  DataLength,  \* the length field of every datum
  Bootstrap    \* the address of the first contact

MCLength == [d \in Data |-> DataLength]

MCContacts == {Bootstrap}
=============================================================================
