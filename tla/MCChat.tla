------------------------------- MODULE MCChat -------------------------------
(* Instances of Chat: peers in a chain, of which some have met themselves, as *)
(* the handshake makes them, and some were started in the same second; peer m *)
(* types line m.                                                             *)
EXTENDS Chat

CONSTANTS Loops, Together

MCLinks == [p \in Peers |-> ({p} \cap Loops) \cup (Peers \cap {p - 1, p + 1})]

MCSeed == [p \in Peers |-> IF p \in Together THEN 0 ELSE p]

MCAuthor == [m \in Lines |-> m]
=============================================================================
