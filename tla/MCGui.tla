-------------------------------- MODULE MCGui -------------------------------
(* An instance of Gui in which line k has k bytes.  With bytes of 6 values   *)
(* and a header of one, a read of 1 byte leaves whole, one of 2 bytes ends   *)
(* the peer when it is transmitted, and of 3 or 4 nothing leaves.  A line of *)
(* 5 received with its zero fills a pipe of 5, and so do the lines typed.    *)
EXTENDS Gui

MCSize == [k \in Typed \cup Received |-> k]
=============================================================================
