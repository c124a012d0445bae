------------------------------- MODULE Outbox -------------------------------
(***************************************************************************)
(* Aggregation of the outgoing TLVs (net_lib.c): every neighbour has a     *)
(* message buffer; a TLV for it is appended to the buffer, which leaves as *)
(* one datagram when the next TLV would not fit and at the end of every    *)
(* turn of the main loop.  A destination without a buffer (a potential     *)
(* neighbour, or the sender of a datum being acknowledged) is written to   *)
(* at once.                                                                *)
(***************************************************************************)
EXTENDS Integers, Sequences, SequencesExt

CONSTANTS
  Addr,      \* addresses
  Tlv,       \* the TLVs that are sent
  Size(_),   \* the bytes a TLV takes
  Messages,  \* the messages that are given to send_message()
  PMTU       \* the largest datagram (1232)

Header == 4

\* struct message_h, without magic and version, which never change.
Message == [body_length : Nat, body : Seq(Tlv)]

ASSUME OutboxAssumption ==
  /\ PMTU \in Nat /\ Header <= PMTU
  /\ \A t \in Tlv : Size(t) \in Nat
  /\ Messages \subseteq Message
  /\ \A m \in Messages : m.body_length > 0 /\ m.body_length + Header <= PMTU

VARIABLES
  msg,   \* address of a neighbour -> its message buffer
  sent   \* the datagrams that the last step gave to sendto()

outboxVars == <<msg, sent>>

Empty == [body_length |-> 0, body |-> <<>>]

Datagram(a, m) == [to |-> a, msg |-> m]
-----------------------------------------------------------------------------
\* Mutant: the header is not counted.
Full_no_header(m, buf) == m.body_length + buf.body_length > PMTU

\* The test of send_message(): would the message overflow the buffer?
Full(m, buf) == m.body_length + buf.body_length + Header > PMTU

\* Mutant: the body is copied over the one in the buffer.
Add_over(m, buf) ==
  [body_length |-> m.body_length + buf.body_length, body |-> buf.body]

\* send_message() once there is room.
Add(m, buf) ==
  [body_length |-> m.body_length + buf.body_length, body |-> m.body \o buf.body]

\* send_message() on the buffer of a neighbour: what is left in it ...
Pushed(m, buf) == IF Full(m, buf) THEN buf ELSE Add(m, buf)

\* ... and which buffers leave when every address a of S is sent buf[a].
Overflow(S, buf) ==
  {Datagram(a, msg[a]) : a \in {b \in S : Full(msg[b], buf[b])}}
-----------------------------------------------------------------------------
OutboxInit ==
  /\ msg = [a \in {} |-> Empty]
  /\ sent \in SUBSET {Datagram(a, m) : a \in Addr, m \in Messages}

\* A step that sends nothing.
quiet == sent' = {} /\ UNCHANGED msg

\* add_neighbor() gives a new neighbour an empty buffer.
open(a) ==
  /\ a \notin DOMAIN msg
  /\ msg' = [b \in DOMAIN msg \cup {a} |-> IF b = a THEN Empty ELSE msg[b]]
  /\ sent' = {}

\* remove_neighbor() frees the buffer, with what is still in it.
close(a) ==
  /\ msg' = [b \in DOMAIN msg \ {a} |-> msg[b]]
  /\ sent' = {}

\* send_message() to each address of the domain of buf, all neighbours: a single
\* send, send_to_everyone() and send_hello_everyone().
send_message(buf) ==
  /\ DOMAIN buf \subseteq DOMAIN msg
  /\ msg' = [a \in DOMAIN msg |->
               IF a \in DOMAIN buf THEN Pushed(msg[a], buf[a]) ELSE msg[a]]
  /\ sent' = Overflow(DOMAIN buf, buf)

\* send_message() followed by the removal of the neighbour, before the buffer is
\* flushed (handle_inactive, send_goaway_asymetrical).
send_message_close(a, m) ==
  /\ a \in DOMAIN msg
  /\ sent' = Overflow({a}, [b \in {a} |-> m])
  /\ msg' = [b \in DOMAIN msg \ {a} |-> msg[b]]

\* send_message() to destinations without a buffer.
send_message_now(S, m) ==
  /\ sent' = {Datagram(a, m) : a \in S}
  /\ UNCHANGED msg

\* send_to_everyone_now(): every buffer that is not empty leaves.
send_to_everyone_now ==
  /\ sent' = {Datagram(a, msg[a]) :
                a \in {b \in DOMAIN msg : msg[b].body_length # 0}}
  /\ msg' = [a \in DOMAIN msg |-> Empty]

OutboxNext ==
  \/ quiet
  \/ send_to_everyone_now
  \/ \E a \in Addr : open(a)
  \/ \E a \in Addr : close(a)
  \/ \E a \in Addr, m \in Messages : send_message_close(a, m)
  \/ \E S \in SUBSET Addr, m \in Messages : send_message_now(S, m)
  \/ \E S \in SUBSET DOMAIN msg : \E buf \in [S -> Messages] : send_message(buf)

OutboxSpec == OutboxInit /\ [][OutboxNext]_outboxVars
-----------------------------------------------------------------------------
\* Buffers and datagrams are messages, for addresses of Addr.
OutboxTypeOK ==
  /\ DOMAIN msg \subseteq Addr
  /\ msg \in [DOMAIN msg -> Message]
  /\ sent \subseteq [to : Addr, msg : Message]

\* Every datagram fits the PMTU and none is empty, however the TLVs of a turn of
\* the loop add up in the buffers (send_message flushes before it overflows).
DatagramFits ==
  \A d \in sent : d.msg.body_length > 0 /\ d.msg.body_length + Header <= PMTU

\* No TLV in a buffer is lost, duplicated or overtaken as long as the neighbour
\* stays: it leaves, in a datagram that carries the whole buffer, or it is still
\* there, before what the step added.
NothingLost ==
  [][\A a \in DOMAIN msg \cap DOMAIN msg' :
        IF Datagram(a, msg[a]) \in sent' /\ msg[a] # Empty
        THEN msg'[a].body = <<>> \/ msg'[a] \in Messages
        ELSE IsPrefix(msg[a].body, msg'[a].body)]_outboxVars
=============================================================================
