------------------------------ MODULE MCOutbox ------------------------------
(* Outbox for TLC: two TLVs of different sizes and a message of two of them.   *)
EXTENDS Outbox

CONSTANTS short, long

MCTlv == {short, long}

\* A short and a long hello, as tlv_short_hello() and tlv_long_hello() size them.
MCSize(t) == IF t = short THEN 10 ELSE 18

MCMessages ==
  {[body_length |-> 10, body |-> <<short>>],
   [body_length |-> 18, body |-> <<long>>],
   [body_length |-> 28, body |-> <<short, long>>]}
=============================================================================
