----------------------------- MODULE TlvParser ------------------------------
(***************************************************************************)
(* handle_message_h() (tlv.c): a received datagram is checked and cut into *)
(* TLVs, each given to the handler of its type.  The handlers are actions  *)
(* of Peer; here only which bytes are read and which TLVs are handed over  *)
(* matter.  body is the array of the static struct message_h, so what lies *)
(* behind the received bytes is whatever an earlier datagram left there.   *)
(***************************************************************************)
EXTENDS Integers, Sequences

CONSTANTS
  Byte,      \* values of a byte, as types and as lengths
  NB_TLV,    \* types below it have a handler (8)
  MaxBody    \* bound: the longest body that is received

ASSUME ParserAssumption ==
  /\ Byte \subseteq Nat
  /\ NB_TLV \in Nat \ {0}
  /\ MaxBody \in Nat

VARIABLES
  buf_t,        \* bytes that recvfrom() returned
  valid,        \* magic is 93 and version is 2
  body_length,  \* length announced in the header
  body,         \* the bytes, the two behind the longest body included
  pos,          \* position in the body
  reach,        \* history: one more than the highest position read
  handled,      \* history: start, type and length of the TLVs handed over
  pc            \* "start", "loop" or "done"

input == <<buf_t, valid, body_length, body>>
parserVars == <<input, pos, reach, handled, pc>>

Header == 4

Larger(x, y) == IF x > y THEN x ELSE y

ParserInit ==
  /\ buf_t \in 0..(MaxBody + Header)
  /\ valid \in BOOLEAN
  /\ body_length \in 0..MaxBody
  /\ body \in [0..(MaxBody + 1) -> Byte]
  /\ pos = 0 /\ reach = 0 /\ handled = <<>>
  /\ pc = "start"
-----------------------------------------------------------------------------
Accepted == buf_t >= Header /\ valid /\ body_length + Header <= buf_t

\* The three early returns on the header.
CheckHeader ==
  /\ pc = "start"
  /\ pc' = IF Accepted THEN "loop" ELSE "done"
  /\ UNCHANGED <<input, pos, reach, handled>>

type == body[pos]
length == body[pos + 1]

InLoop == pc = "loop" /\ pos < body_length

\* Mutant: the loop continues without moving on.
Pad1_stuck ==
  /\ InLoop
  /\ type = 0
  /\ reach' = Larger(reach, pos + 1)
  /\ UNCHANGED <<input, pos, handled, pc>>

\* Type 0 is Pad1, a TLV of one byte.
Pad1 ==
  /\ InLoop
  /\ type = 0
  /\ pos' = pos + 1
  /\ reach' = Larger(reach, pos + 1)
  /\ UNCHANGED <<input, handled, pc>>

\* The TLV does not fit: the rest of the datagram is dropped.
TooLong ==
  /\ InLoop
  /\ type # 0
  /\ length > body_length - pos
  /\ pc' = "done"
  /\ reach' = Larger(reach, pos + 2)
  /\ UNCHANGED <<input, pos, handled>>

\* Mutant: the test on the length is missing.
Handle_unchecked ==
  /\ InLoop
  /\ type # 0 /\ type < NB_TLV
  /\ handled' = Append(handled, <<pos, type, length>>)
  /\ reach' = Larger(reach, pos + 2 + length)
  /\ pos' = pos + length + 2
  /\ UNCHANGED <<input, pc>>

\* The TLV is copied and handed over.
Handle ==
  /\ InLoop
  /\ type # 0 /\ type < NB_TLV
  /\ length <= body_length - pos
  /\ handled' = Append(handled, <<pos, type, length>>)
  /\ reach' = Larger(reach, pos + 2 + length)
  /\ pos' = pos + length + 2
  /\ UNCHANGED <<input, pc>>

\* Mutant: an unknown type ends the datagram.
Skip_stop ==
  /\ InLoop
  /\ type >= NB_TLV
  /\ length <= body_length - pos
  /\ pc' = "done"
  /\ UNCHANGED <<input, pos, reach, handled>>

\* A TLV of unknown type is skipped.
Skip ==
  /\ InLoop
  /\ type # 0 /\ type >= NB_TLV
  /\ length <= body_length - pos
  /\ reach' = Larger(reach, pos + 2)
  /\ pos' = pos + length + 2
  /\ UNCHANGED <<input, handled, pc>>

Finish ==
  /\ pc = "loop"
  /\ pos >= body_length
  /\ pc' = "done"
  /\ UNCHANGED <<input, pos, reach, handled>>

Parse == CheckHeader \/ Pad1 \/ TooLong \/ Handle \/ Skip \/ Finish

\* The next datagram is another behaviour; the bytes are those of this one.
Returned == pc = "done" /\ UNCHANGED parserVars

ParserSpec == ParserInit /\ [][Parse \/ Returned]_parserVars /\ WF_parserVars(Parse)
-----------------------------------------------------------------------------
\* The reference: positions 0 = c1 < c2 < ... < cn = body_length cut the body into
\* Pad1s and TLVs that all lie inside it.
IsCut(C) ==
  /\ C \subseteq 0..body_length /\ {0, body_length} \subseteq C
  /\ \A c \in C \ {body_length} :
       LET next == IF body[c] = 0 THEN c + 1 ELSE c + 2 + body[c + 1]
       IN  next \in C /\ \A x \in C : x <= c \/ x >= next

WellFormed == \E C \in SUBSET (0..body_length) : IsCut(C)

\* The TLVs of a well-formed body, as starts of those with a handler.
Reference ==
  LET C == CHOOSE X \in SUBSET (0..body_length) : IsCut(X)
  IN  {c \in C \ {body_length} : body[c] # 0 /\ body[c] < NB_TLV}

\* The state of the parser.
ParserTypeOK ==
  /\ buf_t \in Nat /\ valid \in BOOLEAN /\ body_length \in 0..MaxBody
  /\ body \in [0..(MaxBody + 1) -> Byte]
  /\ pos \in 0..(MaxBody + 2) /\ reach \in Nat
  /\ pc \in {"start", "loop", "done"}

\* Whatever the datagram says, the parser reads at most two bytes behind the
\* body that was announced: the test on the length leaves out the two bytes of
\* type and length.
OverrunAtMostTwo == reach <= body_length + 2

\* A well-formed body is read to its end, without a byte behind it, and exactly
\* its TLVs of known type are handed over, in order.
WellFormedHandled ==
  Accepted /\ WellFormed =>
    /\ reach <= body_length
    /\ pc = "done" =>
         /\ {handled[i][1] : i \in 1..Len(handled)} = Reference
         /\ \A i, j \in 1..Len(handled) : i < j => handled[i][1] < handled[j][1]

\* Every datagram is eventually done with.
ParseEnds == <>(pc = "done")
=============================================================================
