---------------------------- MODULE MCHandshake -----------------------------
(* Instances of Handshake: every peer knows the first one.                  *)
EXTENDS Handshake

MCContacts == [p \in Peers |-> {1} \ {p}]
=============================================================================
