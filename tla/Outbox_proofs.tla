--------------------------- MODULE Outbox_proofs ----------------------------
(***************************************************************************)
(* Proofs about the output buffers, for any TLVs, any sizes and any PMTU.  *)
(***************************************************************************)
EXTENDS Outbox, TLAPS

\* A buffer always leaves room for the header, and is empty when its length says
\* so: with these, a buffer that overflows is a datagram that fits.
BuffersFit ==
  \A a \in DOMAIN msg :
    /\ msg[a].body_length + Header <= PMTU
    /\ msg[a].body_length = 0 => msg[a] = Empty

OutboxInv == OutboxTypeOK /\ DatagramFits /\ BuffersFit

LEMMA MessageFits ==
  ASSUME NEW m \in Messages
  PROVE  m \in Message /\ m.body_length \in Nat /\ m.body_length > 0
         /\ m.body_length + Header <= PMTU
BY OutboxAssumption DEF Message

\* send_message() keeps a buffer a buffer.
LEMMA PushedFits ==
  ASSUME NEW m \in Message, NEW buf \in Messages, m.body_length + Header <= PMTU
  PROVE  /\ Pushed(m, buf) \in Message
         /\ Pushed(m, buf).body_length > 0
         /\ Pushed(m, buf).body_length + Header <= PMTU
<1>1. buf \in Message /\ buf.body_length > 0 /\ buf.body_length + Header <= PMTU
  BY MessageFits
<1>2. CASE Full(m, buf)
  BY <1>1, <1>2 DEF Pushed
<1>3. CASE ~Full(m, buf)
  <2>1. Pushed(m, buf) = Add(m, buf)
    BY <1>3 DEF Pushed
  <2>2. m.body_length \in Nat /\ buf.body_length \in Nat /\ m.body \in Seq(Tlv)
        /\ buf.body \in Seq(Tlv)
    BY <1>1 DEF Message
  <2>3. m.body_length + buf.body_length + Header <= PMTU
    BY <1>3, <2>2, OutboxAssumption DEF Full, Header
  <2>4. Add(m, buf) \in Message
    BY <2>2 DEF Add, Message
  <2> QED
    BY <2>1, <2>2, <2>3, <2>4, <1>1 DEF Add
<1> QED
  BY <1>2, <1>3

\* A buffer that leaves because the next message does not fit is not empty.
LEMMA OverflowFits ==
  ASSUME NEW m \in Message, NEW buf \in Messages, Full(m, buf)
  PROVE  m.body_length > 0
<1>1. buf.body_length \in Nat /\ buf.body_length + Header <= PMTU
  BY MessageFits
<1>2. m.body_length \in Nat
  BY DEF Message
<1> QED
  BY <1>1, <1>2, OutboxAssumption DEF Full, Header

\* A datagram out of buffers that fit, fits.
LEMMA FlushFits ==
  ASSUME OutboxInv, NEW S, S \subseteq DOMAIN msg,
         \A a \in S : msg[a].body_length > 0,
         sent' = {Datagram(a, msg[a]) : a \in S}
  PROVE  DatagramFits' /\ sent' \subseteq [to : Addr, msg : Message]
<1>1. \A a \in S : msg[a] \in Message /\ a \in Addr
                   /\ msg[a].body_length + Header <= PMTU
  BY DEF OutboxInv, OutboxTypeOK, BuffersFit
<1> QED
  BY <1>1 DEF DatagramFits, Datagram

\* Writing at once to destinations without a buffer.
LEMMA NowFits ==
  ASSUME NEW S \in SUBSET Addr, NEW m \in Messages,
         sent' = {Datagram(a, m) : a \in S}
  PROVE  DatagramFits' /\ sent' \subseteq [to : Addr, msg : Message]
BY MessageFits DEF DatagramFits, Datagram

LEMMA BuffersKept ==
  ASSUME OutboxInv, NEW S \in SUBSET DOMAIN msg, msg' = [b \in S |-> msg[b]]
  PROVE  /\ DOMAIN msg' \subseteq Addr
         /\ msg' \in [DOMAIN msg' -> Message]
         /\ BuffersFit'
BY DEF OutboxInv, OutboxTypeOK, BuffersFit

LEMMA OutboxInvInit == OutboxInit => OutboxInv
<1> SUFFICES ASSUME OutboxInit PROVE OutboxInv
  OBVIOUS
<1>1. DOMAIN msg = {} /\ msg \in [DOMAIN msg -> Message]
  BY DEF OutboxInit
<1>2. \A d \in sent : /\ d \in [to : Addr, msg : Message]
                      /\ d.msg.body_length > 0 /\ d.msg.body_length + Header <= PMTU
  BY MessageFits DEF OutboxInit, Datagram
<1> QED
  BY <1>1, <1>2 DEF OutboxInv, OutboxTypeOK, DatagramFits, BuffersFit

LEMMA OutboxInvNext == OutboxInv /\ [OutboxNext]_outboxVars => OutboxInv'
<1> SUFFICES ASSUME OutboxInv, [OutboxNext]_outboxVars PROVE OutboxInv'
  OBVIOUS
<1> USE DEF OutboxInv
<1>1. CASE quiet
  BY <1>1 DEF quiet, OutboxTypeOK, DatagramFits, BuffersFit
<1>2. ASSUME NEW a \in Addr, open(a) PROVE OutboxInv'
  <2>1. Empty \in Message /\ Empty.body_length = 0
    BY DEF Empty, Message
  <2>2. /\ DOMAIN msg' = DOMAIN msg \cup {a}
        /\ \A b \in DOMAIN msg' : msg'[b] = IF b = a THEN Empty ELSE msg[b]
        /\ msg' = [b \in DOMAIN msg' |-> msg'[b]]
    BY <1>2 DEF open
  <2>3. DOMAIN msg' \subseteq Addr /\ \A b \in DOMAIN msg' : msg'[b] \in Message
    BY <2>1, <2>2 DEF OutboxTypeOK
  <2>4. BuffersFit'
    BY <2>1, <2>2, OutboxAssumption DEF BuffersFit, Header
  <2>5. msg' \in [DOMAIN msg' -> Message]
    BY <2>2, <2>3
  <2>6. sent' = {}
    BY <1>2 DEF open
  <2> QED
    BY <2>3, <2>4, <2>5, <2>6 DEF OutboxTypeOK, DatagramFits
<1>3. ASSUME NEW a \in Addr, close(a) PROVE OutboxInv'
  <2>1. msg' = [b \in DOMAIN msg \ {a} |-> msg[b]] /\ sent' = {}
    BY <1>3 DEF close
  <2> QED
    BY <2>1, BuffersKept DEF OutboxTypeOK, DatagramFits
<1>4. ASSUME NEW S \in SUBSET DOMAIN msg, NEW buf \in [S -> Messages],
             send_message(buf)
      PROVE  OutboxInv'
  <2>1. /\ msg' = [a \in DOMAIN msg |->
                     IF a \in S THEN Pushed(msg[a], buf[a]) ELSE msg[a]]
        /\ sent' = Overflow(S, buf)
    BY <1>4 DEF send_message
  <2>2. \A a \in DOMAIN msg : msg[a] \in Message /\ msg[a].body_length + Header <= PMTU
    BY DEF OutboxTypeOK, BuffersFit
  <2>3. \A a \in S : buf[a] \in Messages
    OBVIOUS
  <2>4. \A a \in S : /\ msg'[a] \in Message /\ msg'[a].body_length > 0
                     /\ msg'[a].body_length + Header <= PMTU
    BY <2>1, <2>2, <2>3, PushedFits
  <2>5. \A a \in DOMAIN msg \ S : msg'[a] = msg[a]
    BY <2>1
  <2>6. DOMAIN msg' = DOMAIN msg /\ msg' = [a \in DOMAIN msg |-> msg'[a]]
    BY <2>1
  <2>7. \A a \in DOMAIN msg : msg'[a] \in Message
    BY <2>2, <2>4, <2>5
  <2>8. msg' \in [DOMAIN msg' -> Message] /\ DOMAIN msg' \subseteq Addr
    BY <2>6, <2>7 DEF OutboxTypeOK
  <2>9. BuffersFit'
    <3>1. \A a \in S : ~(msg'[a].body_length = 0)
      BY <2>4
    <3> QED
      BY <2>4, <2>5, <2>6, <3>1 DEF BuffersFit, Empty
  <2>10. DatagramFits' /\ sent' \subseteq [to : Addr, msg : Message]
    <3> DEFINE U == {b \in S : Full(msg[b], buf[b])}
    <3>1. \A b \in U : msg[b].body_length > 0
      BY <2>2, <2>3, OverflowFits
    <3>2. U \subseteq DOMAIN msg /\ sent' = {Datagram(a, msg[a]) : a \in U}
      BY <2>1 DEF Overflow
    <3> HIDE DEF U
    <3> QED
      BY <3>1, <3>2, FlushFits
  <2> QED
    BY <2>8, <2>9, <2>10 DEF OutboxTypeOK
<1>5. ASSUME NEW a \in Addr, NEW m \in Messages, send_message_close(a, m)
      PROVE  OutboxInv'
  <2> DEFINE U == {b \in {a} : Full(msg[b], m)}
  <2>1. /\ a \in DOMAIN msg
        /\ sent' = {Datagram(b, msg[b]) : b \in U}
        /\ msg' = [b \in DOMAIN msg \ {a} |-> msg[b]]
    BY <1>5 DEF send_message_close, Overflow
  <2>2. U \subseteq DOMAIN msg /\ \A b \in U : msg[b].body_length > 0
    BY <2>1, OverflowFits DEF OutboxTypeOK
  <2> HIDE DEF U
  <2>3. DatagramFits' /\ sent' \subseteq [to : Addr, msg : Message]
    BY <2>1, <2>2, FlushFits
  <2> QED
    BY <2>1, <2>3, BuffersKept DEF OutboxTypeOK
<1>6. ASSUME NEW S \in SUBSET Addr, NEW m \in Messages, send_message_now(S, m)
      PROVE  OutboxInv'
  <2>1. sent' = {Datagram(a, m) : a \in S} /\ msg' = msg
    BY <1>6 DEF send_message_now
  <2>2. DatagramFits' /\ sent' \subseteq [to : Addr, msg : Message]
    BY <2>1, NowFits
  <2> QED
    BY <2>1, <2>2 DEF OutboxTypeOK, BuffersFit
<1>7. CASE send_to_everyone_now
  <2> DEFINE U == {b \in DOMAIN msg : msg[b].body_length # 0}
  <2>1. sent' = {Datagram(a, msg[a]) : a \in U} /\ msg' = [a \in DOMAIN msg |-> Empty]
    BY <1>7 DEF send_to_everyone_now
  <2>2. \A b \in U : msg[b].body_length > 0
    BY DEF OutboxTypeOK, Message
  <2>3. U \subseteq DOMAIN msg
    OBVIOUS
  <2> HIDE DEF U
  <2>4. DatagramFits' /\ sent' \subseteq [to : Addr, msg : Message]
    BY <2>1, <2>2, <2>3, FlushFits
  <2>5. Empty \in Message /\ Empty.body_length = 0
    BY DEF Empty, Message
  <2>6. BuffersFit'
    BY <2>1, <2>5, OutboxAssumption DEF BuffersFit, Header
  <2> QED
    BY <2>1, <2>4, <2>5, <2>6 DEF OutboxTypeOK
<1>8. CASE UNCHANGED outboxVars
  BY <1>8 DEF outboxVars, OutboxTypeOK, DatagramFits, BuffersFit
<1> QED
  BY <1>1, <1>2, <1>3, <1>4, <1>5, <1>6, <1>7, <1>8 DEF OutboxNext

\* Buffers and datagrams are messages.
THEOREM OutboxTypeCorrect == OutboxSpec => []OutboxTypeOK
BY OutboxInvInit, OutboxInvNext, PTL DEF OutboxSpec, OutboxInv

\* Whatever messages add up in the buffers, no datagram exceeds the PMTU or is
\* empty: send_message() flushes in time.
THEOREM OutboxDatagramFits == OutboxSpec => []DatagramFits
BY OutboxInvInit, OutboxInvNext, PTL DEF OutboxSpec, OutboxInv
-----------------------------------------------------------------------------
LEMMA PrefixOfItself ==
  ASSUME NEW q \in Seq(Tlv) PROVE IsPrefix(q, q)
BY DEF IsPrefix

LEMMA PrefixOfConcat ==
  ASSUME NEW q \in Seq(Tlv), NEW r \in Seq(Tlv) PROVE IsPrefix(q, q \o r)
<1>1. Len(q) \in Nat /\ Len(r) \in Nat /\ Len(q \o r) = Len(q) + Len(r)
  OBVIOUS
<1>2. SubSeq(q, 1, Len(q)) = q
  OBVIOUS
<1>3. SubSeq(q \o r, 1, Len(q)) = q
  <2> DEFINE s == SubSeq(q \o r, 1, Len(q))
  <2>1. s \in Seq(Tlv) /\ Len(s) = Len(q)
    BY <1>1
  <2>2. \A i \in 1..Len(q) : s[i] = q[i]
    BY <1>1
  <2> QED
    BY <2>1, <2>2
<1> QED
  BY <1>1, <1>2, <1>3 DEF IsPrefix

LEMMA AddBody ==
  ASSUME NEW m, NEW buf PROVE Add(m, buf).body = m.body \o buf.body
BY DEF Add

\* One step of NothingLost for the buffer of a.
Kept(a) ==
  IF Datagram(a, msg[a]) \in sent' /\ msg[a] # Empty
  THEN msg'[a].body = <<>> \/ msg'[a] \in Messages
  ELSE IsPrefix(msg[a].body, msg'[a].body)

\* Nothing that send_message() put into a buffer is lost, repeated or overtaken
\* while the neighbour stays.
THEOREM OutboxNothingLost == OutboxSpec => NothingLost
<1>1. ASSUME OutboxInv, [OutboxNext]_outboxVars
      PROVE  [\A a \in DOMAIN msg \cap DOMAIN msg' : Kept(a)]_outboxVars
  <2> SUFFICES ASSUME OutboxNext, NEW a \in DOMAIN msg \cap DOMAIN msg'
               PROVE  Kept(a)
    BY <1>1
  <2>0. msg[a] \in Message /\ msg[a].body \in Seq(Tlv) /\ a \in Addr
    BY <1>1 DEF OutboxInv, OutboxTypeOK, Message
  <2>a. ASSUME msg'[a] = msg[a], Datagram(a, msg[a]) \notin sent' PROVE Kept(a)
    BY <2>a, <2>0, PrefixOfItself DEF Kept
  <2>1. CASE quiet
    BY <2>1, <2>a DEF quiet
  <2>2. ASSUME NEW b \in Addr, open(b) PROVE Kept(a)
    BY <2>2, <2>a DEF open
  <2>3. ASSUME NEW b \in Addr, close(b) PROVE Kept(a)
    BY <2>3, <2>a DEF close
  <2>4. ASSUME NEW S \in SUBSET DOMAIN msg, NEW buf \in [S -> Messages],
               send_message(buf)
        PROVE  Kept(a)
    <3>1. /\ msg'[a] = IF a \in S THEN Pushed(msg[a], buf[a]) ELSE msg[a]
          /\ sent' = Overflow(S, buf)
      BY <2>4 DEF send_message
    <3>2. Datagram(a, msg[a]) \in sent' => a \in S /\ Full(msg[a], buf[a])
      BY <3>1 DEF Overflow, Datagram
    <3>3. CASE a \in S /\ Full(msg[a], buf[a])
      <4>1. Datagram(a, msg[a]) \in sent'
        BY <3>1, <3>3 DEF Overflow
      <4>2. buf[a] \in Messages /\ msg'[a] = buf[a]
        BY <3>1, <3>3 DEF Pushed
      <4>3. msg[a] # Empty
        <5>1. msg[a].body_length > 0
          BY <3>3, <4>2, <2>0, OverflowFits
        <5> QED
          BY <5>1 DEF Empty
      <4> QED
        BY <4>1, <4>2, <4>3 DEF Kept
    <3>4. CASE a \in S /\ ~Full(msg[a], buf[a])
      <4>0. msg'[a] = Add(msg[a], buf[a])
        BY <3>1, <3>4 DEF Pushed
      <4>1. buf[a].body \in Seq(Tlv)
        BY <3>4, MessageFits DEF Message
      <4>2. msg'[a].body = msg[a].body \o buf[a].body
        BY <4>0, AddBody
      <4> QED
        BY <4>1, <4>2, <3>2, <3>4, <2>0, PrefixOfConcat DEF Kept
    <3>5. CASE a \notin S
      BY <3>1, <3>2, <3>5, <2>a
    <3> QED
      BY <3>3, <3>4, <3>5
  <2>5. ASSUME NEW b \in Addr, NEW m \in Messages, send_message_close(b, m)
        PROVE  Kept(a)
    <3>1. a # b /\ msg'[a] = msg[a] /\ \A d \in sent' : d.to = b
      BY <2>5 DEF send_message_close, Overflow, Datagram
    <3>2. Datagram(a, msg[a]).to = a
      BY DEF Datagram
    <3> QED
      BY <3>1, <3>2, <2>a
  <2>6. ASSUME NEW S \in SUBSET Addr, NEW m \in Messages, send_message_now(S, m)
        PROVE  Kept(a)
    <3>1. msg' = msg /\ sent' = {Datagram(b, m) : b \in S}
      BY <2>6 DEF send_message_now
    <3>2. Datagram(a, msg[a]) \in sent' => msg[a] = m
      BY <3>1 DEF Datagram
    <3> QED
      BY <3>1, <3>2, <2>a, <2>0, PrefixOfItself DEF Kept
  <2>7. CASE send_to_everyone_now
    <3>1. msg'[a] = Empty
      BY <2>7 DEF send_to_everyone_now
    <3>2. msg'[a].body = <<>>
      BY <3>1 DEF Empty
    <3>3. msg[a].body_length # 0 => Datagram(a, msg[a]) \in sent' /\ msg[a] # Empty
      BY <2>7 DEF send_to_everyone_now, Empty
    <3>4. msg[a].body_length = 0 => msg[a] = Empty
      BY <1>1 DEF OutboxInv, BuffersFit
    <3>5. CASE msg[a] = Empty
      BY <3>1, <3>5, <2>0, PrefixOfItself DEF Kept
    <3>6. CASE msg[a] # Empty
      BY <3>2, <3>3, <3>4, <3>6 DEF Kept
    <3> QED
      BY <3>5, <3>6
  <2> QED
    BY <2>1, <2>2, <2>3, <2>4, <2>5, <2>6, <2>7 DEF OutboxNext
<1> QED
  BY <1>1, OutboxInvInit, OutboxInvNext, PTL DEF OutboxSpec, NothingLost, Kept
=============================================================================
