-------------------------------- MODULE Peer --------------------------------
(***************************************************************************)
(* One peer: the main loop (main.c) and the handlers of received TLVs      *)
(* (tlv.c), composed of the neighbour tables (Tables), reliable flooding   *)
(* (FloodList) and the output buffers (Outbox).                            *)
(*                                                                         *)
(* The process has one thread.  pc is the point the loop has reached:      *)
(*   select -> recv (one step per TLV) -> gui -> timer                     *)
(*     -> symetrical -> goaway -> potential -> shorthello  (hello round)   *)
(*     -> flood -> pass -> select                                          *)
(* Everything but select() is taken to be instantaneous on the clock of    *)
(* seconds, and SIGINT may come between any two steps.                     *)
(***************************************************************************)
EXTENDS Integers, FiniteSets, Sequences, Functions

CONSTANTS
  Addr, Id, NoId, ID, NoDest, NULL, Data,  \* see Tables and FloodList
  Length,     \* index -> length field of its data TLV, any byte: data() asks nothing of it
  Contacts,   \* addresses that getaddrinfo() returns for the first contact
  OldAge, MaxSent, NBDATA, PMTU,           \* 120, 5, 100 and 1232
  TIMEHELLO,  \* seconds between two hello rounds (30)
  MIN_SYM,    \* short hellos are sent up to that many symmetric neighbours (10)
  Uptime, MaxTime,
  MaxDelay,   \* bound: how late select() may return
  MaxInput    \* bound: how many TLVs and lines are received

ASSUME PeerAssumption ==
  /\ Addr \subseteq Nat /\ IsFiniteSet(Addr) /\ NULL \notin Addr
  /\ Contacts \subseteq Addr
  /\ NoId \in Id /\ ID \in Id \ {NoId} /\ NoDest \notin Id
  /\ Length \in [Data -> 0..255]
  /\ OldAge \in Nat \ {0} /\ MaxSent \in Nat \ {0} /\ NBDATA \in Nat \ {0}
  /\ PMTU \in Nat /\ TIMEHELLO \in Nat \ {0} /\ MIN_SYM \in Nat
  /\ Uptime \in Nat \ {0} /\ MaxTime \in Nat /\ MaxDelay \in Nat /\ MaxInput \in Nat

VARIABLES
  now, NEIGHBORS, POTENTIAL, heard,  \* Tables
  DATAF, fi, tmp,                    \* FloodList
  msg, sent,                         \* Outbox
  pc,            \* control point of the loop
  peer,          \* source address of the datagram being handled
  NEXTHELLO,     \* date of the next hello round
  NEXTTIME,      \* earliest date of a transmission that the pass has met
  deadline,      \* date at which select() times out
  todo,          \* rest of the list that a function of the hello round walks
  NB_SYMETRICAL, \* symmetric neighbours at the last hello round
  inputs         \* TLVs and lines received so far (bounded by MaxInput)

tables == <<now, NEIGHBORS, POTENTIAL, heard>>
flood  == <<DATAF, fi, tmp>>
outbox == <<msg, sent>>
timers == <<NEXTHELLO, NEXTTIME, deadline>>
vars == <<tables, flood, outbox, pc, peer, timers, todo, NB_SYMETRICAL, inputs>>
-----------------------------------------------------------------------------
\* The TLVs this peer builds (tlv.c), with what the properties tell apart.
ShortHello == [type |-> "short_hello"]
LongHello(i) == [type |-> "long_hello", dest |-> i]
Neighbour(a) == [type |-> "neighbour", addr |-> a]
Ack(d) == [type |-> "ack", index |-> d]
DataTlv(d) == [type |-> "data", index |-> d]
Goaway(code) == [type |-> "goaway", code |-> code]

Tlv == {ShortHello} \cup {LongHello(i) : i \in Id} \cup {Neighbour(a) : a \in Addr}
       \cup {Ack(d) : d \in Data} \cup {DataTlv(d) : d \in Data}
       \cup {Goaway(c) : c \in 1..3}

\* Goaway code 1 is SIGINT's, 2 the one of two minutes of silence, and 3 stands
\* for the longer code 2 of handle_inactive().
Size(t) ==
  CASE t.type = "short_hello" -> 10
    [] t.type = "long_hello"  -> 18
    [] t.type = "neighbour"   -> 20
    [] t.type = "ack"         -> 14
    [] t.type = "data"        -> Length[t.index] + 2
    [] t.type = "goaway"      -> <<23, 3, 27>>[t.code]

Single(t) == [body_length |-> Size(t), body |-> <<t>>]

\* How many neighbour TLVs send_symetrical_everyone() puts into one message:
\* tlv_neighbour() wants more than 21 free bytes.
PerMessage == (PMTU - 25 + 19) \div 20

NeighbourList(q) ==
  [body_length |-> 20 * Len(q), body |-> [i \in DOMAIN q |-> Neighbour(q[i])]]

NeighbourLists ==
  {NeighbourList(q) : q \in UNION {[1..n -> Addr] : n \in 1..PerMessage}}

Messages == {Single(t) : t \in Tlv} \cup NeighbourLists

T == INSTANCE Tables
F == INSTANCE FloodList WITH live <- DOMAIN NEIGHBORS
O == INSTANCE Outbox
-----------------------------------------------------------------------------
Init ==
  /\ T!TablesInit
  /\ DATAF = <<>> /\ fi = 0 /\ tmp = NULL
  /\ msg = [a \in {} |-> O!Empty]
  /\ sent = {O!Datagram(a, Single(ShortHello)) : a \in Contacts}
  /\ pc = "select" /\ peer = NULL
  /\ NEXTHELLO = 0 /\ NEXTTIME = 0 /\ deadline = Uptime
  /\ todo = {} /\ NB_SYMETRICAL = 0 /\ inputs = 0

\* Handlers and loop steps leave alone what they do not mention.
KeepLoop == UNCHANGED <<peer, timers, todo, NB_SYMETRICAL, inputs>>
-----------------------------------------------------------------------------
\* A line of the user can be read: its random nonce makes a new index.
LineReady == inputs < MaxInput /\ Data \ F!Indices # {}

\* select() waits; it returns at its deadline, at most MaxDelay seconds late.
Wait ==
  /\ pc = "select"
  /\ now < deadline + MaxDelay
  /\ T!Tick
  /\ O!quiet
  /\ UNCHANGED <<flood, pc>> /\ KeepLoop

Timeout ==
  /\ pc = "select"
  /\ now >= deadline
  /\ pc' = "timer"
  /\ O!quiet
  /\ UNCHANGED <<tables, flood>> /\ KeepLoop

Readable ==
  /\ pc = "select"
  /\ \/ inputs < MaxInput /\ pc' = "recv" /\ peer' \in Addr
     \/ LineReady /\ pc' = "gui" /\ UNCHANGED peer
  /\ O!quiet
  /\ UNCHANGED <<tables, flood, timers, todo, NB_SYMETRICAL, inputs>>
-----------------------------------------------------------------------------
\* handle_message_h() calls one handler per TLV of the datagram.
Handling ==
  /\ pc = "recv"
  /\ inputs < MaxInput
  /\ inputs' = inputs + 1
  /\ UNCHANGED <<peer, timers, todo, NB_SYMETRICAL>>

\* hello(): the sender's dates; a new neighbour gets a buffer and a round of
\* long hellos follows.
RecvHello(source, dest) ==
  /\ Handling
  /\ T!hello(peer, source, dest)
  /\ IF peer \in DOMAIN NEIGHBORS
     THEN O!quiet /\ pc' = "recv"
     ELSE O!open(peer) /\ pc' = "greet"
  /\ UNCHANGED flood

LongHellos == [a \in DOMAIN NEIGHBORS |-> Single(LongHello(NEIGHBORS[a].id))]

\* send_hello_everyone(), from hello().
Greet ==
  /\ pc = "greet"
  /\ O!send_message(LongHellos)
  /\ pc' = "recv"
  /\ UNCHANGED <<tables, flood>> /\ KeepLoop

\* Mutant: the address is not looked up in NEIGHBORS.
RecvNeighbour_unchecked(key) ==
  /\ Handling
  /\ POTENTIAL' = T!add_neighbor_aux(POTENTIAL, key,
         [id |-> NoId, last_hello |-> now, last_hello_long |-> 0])
  /\ O!quiet
  /\ UNCHANGED <<now, NEIGHBORS, heard, flood, pc>>

RecvNeighbour(key) ==
  /\ Handling
  /\ IF key \in DOMAIN NEIGHBORS THEN UNCHANGED tables ELSE T!neighbour(key)
  /\ O!quiet
  /\ UNCHANGED <<flood, pc>>

\* data(): the acknowledgement leaves at once, whoever the sender is; then the
\* datum is new and is flooded to the others, or the sender is known to have it.
RecvData(d) ==
  /\ Handling
  /\ UNCHANGED <<tables, pc>>
  /\ O!send_message_now({peer}, Single(Ack(d)))
  /\ IF d \in F!Indices
     THEN F!ack(d, peer)
     ELSE F!add_message_to_flood(d, T!get_symmetrical, peer)

RecvAck(d) ==
  /\ Handling
  /\ UNCHANGED <<tables, pc>>
  /\ F!ack(d, peer)
  /\ O!quiet

\* Mutant: the buffer of the neighbour is not freed with its node.
RecvGoaway_leak ==
  /\ Handling
  /\ T!remove_neighbor(peer)
  /\ F!remove_neighbor_everywhere(peer)
  /\ O!quiet
  /\ UNCHANGED pc

\* Mutant: only the tree forgets the neighbour.
RecvGoaway_tree_only ==
  /\ Handling
  /\ T!remove_neighbor(peer)
  /\ O!close(peer)
  /\ UNCHANGED <<flood, pc>>

RecvGoaway ==
  /\ Handling
  /\ T!remove_neighbor(peer)
  /\ F!remove_neighbor_everywhere(peer)
  /\ O!close(peer)
  /\ UNCHANGED pc

\* The datagram is finished; the user's line is next if select() saw one.
EndOfDatagram ==
  /\ pc = "recv"
  /\ pc' = "timer" \/ (LineReady /\ pc' = "gui")
  /\ peer' = NULL
  /\ O!quiet
  /\ UNCHANGED <<tables, flood, timers, todo, NB_SYMETRICAL, inputs>>

\* A line of the user is flooded to all symmetric neighbours.
ReadLine(d) ==
  /\ pc = "gui"
  /\ inputs' = inputs + 1
  /\ UNCHANGED <<tables, peer, timers, todo, NB_SYMETRICAL>>
  /\ F!add_message_to_flood(d, T!get_symmetrical, NULL)
  /\ O!quiet
  /\ pc' = "timer"

\* Whatever arrives.  A hello may carry any identifier, this process's own too: it
\* learns its own address from its neighbours and says hello to itself.
Receive ==
  \/ \E i \in Id \ {NoId}, dest \in {NoDest, ID} : RecvHello(i, dest)
  \/ \E a \in Addr : RecvNeighbour(a)
  \/ \E d \in Data : RecvData(d) \/ RecvAck(d)
  \/ RecvGoaway
-----------------------------------------------------------------------------
\* The hello round: long hellos to every neighbour, ...
NoHelloRound ==
  /\ pc = "timer"
  /\ now < NEXTHELLO
  /\ pc' = "flood"
  /\ O!quiet
  /\ UNCHANGED <<tables, flood>> /\ KeepLoop

\* Mutant: all the neighbours are counted.
HelloRound_counts_all ==
  /\ pc = "timer"
  /\ now >= NEXTHELLO
  /\ O!send_message(LongHellos)
  /\ todo' = T!get_symmetrical
  /\ NB_SYMETRICAL' = Cardinality(DOMAIN NEIGHBORS)
  /\ pc' = "symetrical"
  /\ UNCHANGED <<tables, flood, peer, timers, inputs>>

HelloRound ==
  /\ pc = "timer"
  /\ now >= NEXTHELLO
  /\ O!send_message(LongHellos)
  /\ todo' = T!get_symmetrical
  /\ NB_SYMETRICAL' = Cardinality(T!get_symmetrical)
  /\ pc' = "symetrical"
  /\ UNCHANGED <<tables, flood, peer, timers, inputs>>

\* Mutant: the list overwrites what is in the buffers.
SendSymetrical_over ==
  /\ pc = "symetrical"
  /\ todo # {}
  /\ \E q \in F!InOrder(todo) :
       msg' = [a \in DOMAIN NEIGHBORS |-> NeighbourList(q)]
  /\ sent' = {}
  /\ todo' = {}
  /\ UNCHANGED <<tables, flood, pc, peer, timers, NB_SYMETRICAL, inputs>>

\* ... the symmetric ones announced to every neighbour, in messages of at most
\* PerMessage addresses taken in order, ...
SendSymetrical ==
  /\ pc = "symetrical"
  /\ todo # {}
  /\ \E S \in SUBSET todo :
       /\ Cardinality(S) = IF Cardinality(todo) < PerMessage
                           THEN Cardinality(todo) ELSE PerMessage
       /\ \A a \in S, b \in todo \ S : a < b
       /\ \E q \in F!InOrder(S) :
            O!send_message([a \in DOMAIN NEIGHBORS |-> NeighbourList(q)])
       /\ todo' = todo \ S
  /\ UNCHANGED <<tables, flood, pc, peer, timers, NB_SYMETRICAL, inputs>>

\* Mutant: the next round comes an interval too late.
EndOfSymetrical_slow ==
  /\ pc = "symetrical"
  /\ todo = {}
  /\ NEXTHELLO' = now + 2 * TIMEHELLO
  /\ todo' = T!OldNeighbors
  /\ pc' = "goaway"
  /\ O!quiet
  /\ UNCHANGED <<tables, flood, peer, NEXTTIME, deadline, NB_SYMETRICAL, inputs>>

\* Mutant: the silent neighbours are not looked for.
EndOfSymetrical_forgets ==
  /\ pc = "symetrical"
  /\ todo = {}
  /\ NEXTHELLO' = now + TIMEHELLO
  /\ pc' = "goaway"
  /\ O!quiet
  /\ UNCHANGED <<tables, flood, peer, NEXTTIME, deadline, todo, NB_SYMETRICAL, inputs>>

EndOfSymetrical ==
  /\ pc = "symetrical"
  /\ todo = {}
  /\ NEXTHELLO' = now + TIMEHELLO
  /\ todo' = T!OldNeighbors
  /\ pc' = "goaway"
  /\ O!quiet
  /\ UNCHANGED <<tables, flood, peer, NEXTTIME, deadline, NB_SYMETRICAL, inputs>>

\* ... the silent ones given up, in order: the goaway goes into the buffer that
\* the removal frees, ...
SendGoaway(a) ==
  /\ pc = "goaway"
  /\ a \in todo /\ \A b \in todo : a <= b
  /\ O!send_message_close(a, Single(Goaway(2)))
  /\ T!remove_neighbor(a)
  /\ F!remove_neighbor_everywhere(a)
  /\ todo' = todo \ {a}
  /\ UNCHANGED <<pc, peer, timers, NB_SYMETRICAL, inputs>>

\* ... the stale potential neighbours forgotten, ...
RemoveOldPotential ==
  /\ pc = "goaway"
  /\ todo = {}
  /\ T!remove_old_potential
  /\ pc' = "shorthello"
  /\ O!quiet
  /\ UNCHANGED flood /\ KeepLoop

\* ... and the others contacted if there are few symmetric neighbours.
SendShortHello ==
  /\ pc = "shorthello"
  /\ IF NB_SYMETRICAL <= MIN_SYM
     THEN O!send_message_now(DOMAIN POTENTIAL, Single(ShortHello))
     ELSE O!quiet
  /\ pc' = "flood"
  /\ UNCHANGED <<tables, flood>> /\ KeepLoop
-----------------------------------------------------------------------------
StartPass ==
  /\ pc = "flood"
  /\ UNCHANGED tables /\ KeepLoop
  /\ F!flood_messages
  /\ O!quiet
  /\ pc' = "pass"

InPass == pc = "pass" /\ UNCHANGED <<pc, peer, NEXTHELLO, deadline, todo,
                                     NB_SYMETRICAL, inputs>>

GiveUp ==
  /\ InPass
  /\ T!remove_neighbor(tmp)
  /\ F!handle_inactive
  /\ O!send_message_close(tmp, Single(Goaway(3)))
  /\ UNCHANGED NEXTTIME

\* send_data() reads the length through a char pointer, that is, signed.
Signed8(n) == IF n < 128 THEN n ELSE n - 256

BodyLength(d) == Signed8(Length[d]) + 2

\* The datum goes into the buffer of the neighbour, or memcpy() is called with a
\* negative length.
Transmit(w) ==
  /\ pc = "pass"
  /\ UNCHANGED tables /\ KeepLoop
  /\ F!send_data(w)
  /\ LET d == DATAF[fi].index
     IN  IF BodyLength(d) < 0
         THEN O!quiet /\ pc' = "crash"
         ELSE /\ O!send_message([a \in {tmp} |->
                   [body_length |-> BodyLength(d),
                    body |-> IF BodyLength(d) = Size(DataTlv(d))
                             THEN <<DataTlv(d)>> ELSE <<>>]])
              /\ UNCHANGED pc

\* Mutant: the date of the entry is not taken into NEXTTIME.
Later_forgets ==
  /\ InPass
  /\ UNCHANGED <<tables, NEXTTIME>>
  /\ F!not_due
  /\ O!quiet

Later ==
  /\ InPass
  /\ UNCHANGED tables
  /\ F!not_due
  /\ NEXTTIME' = IF F!nw.wait_time < NEXTTIME THEN F!nw.wait_time ELSE NEXTTIME
  /\ O!quiet

EndOfList ==
  /\ InPass
  /\ UNCHANGED <<tables, NEXTTIME>>
  /\ F!end_of_list
  /\ O!quiet

\* The buffers leave, and the loop computes the timeout of its next select().
EndOfTurn ==
  /\ pc = "pass"
  /\ fi = 0
  /\ O!send_to_everyone_now
  /\ LET earliest == IF NEXTTIME < NEXTHELLO THEN NEXTTIME ELSE NEXTHELLO
     IN  deadline' = IF earliest < now THEN now ELSE earliest
  /\ NEXTTIME' = NEXTHELLO
  /\ pc' = "select"
  /\ UNCHANGED <<tables, flood, peer, NEXTHELLO, todo, NB_SYMETRICAL, inputs>>
-----------------------------------------------------------------------------
\* disconnect(), the handler of SIGINT: a goaway to everyone, then the buffers.
Disconnect ==
  /\ pc \notin {"bye", "exit", "crash"}
  /\ O!send_message([a \in DOMAIN NEIGHBORS |-> Single(Goaway(1))])
  /\ pc' = "bye"
  /\ UNCHANGED <<tables, flood>> /\ KeepLoop

\* Mutant: the buffers are not flushed before the process ends.
Exit_unflushed ==
  /\ pc = "bye"
  /\ O!quiet
  /\ pc' = "exit"
  /\ UNCHANGED <<tables, flood>> /\ KeepLoop

Exit ==
  /\ pc = "bye"
  /\ O!send_to_everyone_now
  /\ pc' = "exit"
  /\ UNCHANGED <<tables, flood>> /\ KeepLoop

Stopped == pc \in {"exit", "crash"} /\ UNCHANGED vars
-----------------------------------------------------------------------------
\* The steps of the loop that are never waited for.
Turn ==
  \/ Greet \/ EndOfDatagram \/ NoHelloRound \/ HelloRound \/ SendSymetrical
  \/ EndOfSymetrical \/ \E a \in Addr : SendGoaway(a)
  \/ RemoveOldPotential \/ SendShortHello
  \/ StartPass \/ GiveUp \/ \E w \in 1..F!MaxWait : Transmit(w)
  \/ Later \/ EndOfList \/ EndOfTurn
  \/ \E d \in Data : ReadLine(d)
  \/ Exit

PeerNext ==
  \/ Wait \/ Timeout \/ Readable \/ Receive \/ Turn \/ Disconnect \/ Stopped

Spec == Init /\ [][PeerNext]_vars
-----------------------------------------------------------------------------
\* The parts the components do not type themselves.
PeerTypeOK ==
  /\ pc \in {"select", "recv", "greet", "gui", "timer", "symetrical", "goaway",
             "shorthello", "flood", "pass", "bye", "exit", "crash"}
  /\ peer \in Addr \cup {NULL}
  /\ NEXTHELLO \in Nat /\ NEXTTIME \in Nat /\ deadline \in Nat
  /\ todo \subseteq DOMAIN NEIGHBORS
  /\ NB_SYMETRICAL \in Nat
  /\ inputs \in 0..MaxInput

\* A neighbour has a buffer exactly as long as it is in the tree: the buffer is
\* made and freed with the node (add_neighbor, remove_neighbor_aux).
BufferPerNeighbor == DOMAIN msg = DOMAIN NEIGHBORS

\* The loop only ever uses the tables, the flood list and the buffers in the ways
\* their own specifications describe, so it inherits all their invariants.
TablesRefined == T!TablesSpec
FloodRefined == F!FloodSafety
OutboxRefined == O!OutboxSpec

\* A neighbour that went silent is gone at the latest OldAge + TIMEHELLO seconds
\* after its last hello (and the delay of select): expiry is only looked at in
\* hello rounds, and these recur whatever else wakes the loop.
SilentGone ==
  pc \notin {"bye", "exit", "crash"} =>
    \A a \in DOMAIN NEIGHBORS :
      now - NEIGHBORS[a].last_hello <= OldAge + TIMEHELLO + MaxDelay

\* Applies a predicate to every entry of every list of DATAF.
EveryEntry(P(_)) ==
  \A f \in 1..Len(DATAF) : \A i \in 1..Len(DATAF[f].sym_neighbors) :
    P(DATAF[f].sym_neighbors[i])

\* The first transmission of a datum is never late: the pass that follows its
\* arrival takes its date into NEXTTIME, and no later turn loses it although
\* select() resets NEXTTIME every time.
FirstTransmissionOnTime ==
  pc \notin {"bye", "exit", "crash"} =>
    EveryEntry(LAMBDA e : e.times_sent = 0 => now <= e.wait_time + MaxDelay)

\* A retransmission is at most TIMEHELLO seconds late: the date of an entry that
\* was just sent again is not taken into NEXTTIME, but the next hello round wakes
\* the loop.
RetransmissionBeforeHello ==
  pc \notin {"bye", "exit", "crash"} =>
    EveryEntry(LAMBDA e : now < e.wait_time + TIMEHELLO + MaxDelay)

\* When the number of symmetric neighbours is used it is still right, although
\* neighbours have been removed since it was counted (send_symetrical_everyone,
\* send_goaway_asymetrical).
CountStillRight ==
  pc = "shorthello" => NB_SYMETRICAL = Cardinality(T!get_symmetrical)

\* When SIGINT ends the process, every neighbour is sent a goaway, wherever the
\* loop was interrupted (disconnect).
GoodbyeToAll ==
  [][pc' = "exit" /\ pc # "exit" => \A a \in DOMAIN NEIGHBORS :
        \E d \in sent' : d.to = a /\ Goaway(1) \in Range(d.msg.body)]_vars

\* The requirement at the end of main.c: "envoyer goaway puis suppression, si pas
\* de message depuis 2 min".
GoawayBeforeRemoval ==
  [][pc = "goaway" => \A a \in DOMAIN NEIGHBORS \ DOMAIN NEIGHBORS' :
        \E d \in sent' : d.to = a /\ Goaway(2) \in Range(d.msg.body)]_vars

\* A datum that was accepted and queued can be sent (the comment in
\* add_message_to_flood: "on reconstruit le message et on le met dans la struct
\* pour l'envoyer plus tard").
NoCrash == pc # "crash"
=============================================================================
