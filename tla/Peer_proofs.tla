---------------------------- MODULE Peer_proofs -----------------------------
(***************************************************************************)
(* Proofs about one peer: the loop uses its tables, its flood list and its *)
(* buffers only in the ways their specifications allow, so what is proved  *)
(* of them holds of the whole peer; and properties of the loop itself.     *)
(***************************************************************************)
EXTENDS Peer, FiniteSetTheorems, TLAPS

\* The theorems of the three components, for this peer.
TP == INSTANCE Tables_proofs
FP == INSTANCE FloodList_proofs WITH live <- DOMAIN NEIGHBORS
OP == INSTANCE Outbox_proofs

\* Control points at which the pass over DATAF may be under way, and those at which
\* todo may hold something.
Passing == {"pass", "bye", "exit", "crash"}

Walking == {"symetrical", "goaway", "bye", "exit", "crash"}

\* What relates the parts to each other and to the control point.
LoopInv ==
  /\ BufferPerNeighbor
  /\ DOMAIN NEIGHBORS \subseteq Addr
  /\ pc \in {"recv", "greet"} => peer \in Addr
  /\ pc \notin Passing => fi = 0
  /\ pc \notin Walking => todo = {}
  /\ todo \subseteq DOMAIN NEIGHBORS

\* The steps that leave both the tree and the buffers of neighbours in place.
SameNeighbors == DOMAIN NEIGHBORS' = DOMAIN NEIGHBORS /\ DOMAIN msg' = DOMAIN msg

LEMMA LoopInit == Init => LoopInv
BY DEF Init, LoopInv, T!TablesInit, BufferPerNeighbor

LEMMA QuietKeeps == O!quiet => DOMAIN msg' = DOMAIN msg
BY DEF O!quiet

LEMMA SendKeeps ==
  ASSUME NEW buf, O!send_message(buf)
  PROVE  DOMAIN msg' = DOMAIN msg
BY DEF O!send_message

LEMMA ClosesBoth ==
  ASSUME LoopInv, NEW a, T!remove_neighbor(a), DOMAIN msg' = DOMAIN msg \ {a}
  PROVE  /\ BufferPerNeighbor' /\ DOMAIN NEIGHBORS' \subseteq Addr
         /\ DOMAIN NEIGHBORS' = DOMAIN NEIGHBORS \ {a}
BY DEF LoopInv, BufferPerNeighbor, T!remove_neighbor, T!remove_neighbor_aux

\* LoopInv is inductive: one step per group of actions that change the same parts.
LEMMA LoopNext == LoopInv /\ [PeerNext]_vars => LoopInv'
<1> SUFFICES ASSUME LoopInv, [PeerNext]_vars PROVE LoopInv'
  OBVIOUS
<1> USE DEF LoopInv, Passing, Walking
<1>a. ASSUME SameNeighbors, UNCHANGED <<fi, todo, peer>>,
             pc' \notin {"recv", "greet"} \/ pc \in {"recv", "greet"},
             pc \in {"recv", "greet", "select", "gui", "timer", "shorthello", "flood",
                     "bye", "exit", "crash"},
             pc \in {"bye", "exit", "crash"} => pc' \in {"bye", "exit", "crash"}
      PROVE  LoopInv'
  BY <1>a DEF BufferPerNeighbor, SameNeighbors
<1>1. CASE Wait \/ Timeout \/ NoHelloRound
  <2>1. SameNeighbors
    BY <1>1 DEF Wait, Timeout, NoHelloRound, T!Tick, tables, O!quiet, SameNeighbors
  <2>2. UNCHANGED <<fi, todo, peer>>
    BY <1>1 DEF Wait, Timeout, NoHelloRound, flood, KeepLoop
  <2> QED
    BY <1>1, <2>1, <2>2, <1>a DEF Wait, Timeout, NoHelloRound
<1>2. CASE Readable \/ EndOfDatagram
  <2>1. SameNeighbors /\ UNCHANGED <<fi, todo>>
    BY <1>2 DEF Readable, EndOfDatagram, tables, flood, O!quiet, SameNeighbors
  <2> QED
    BY <1>2, <2>1 DEF Readable, EndOfDatagram, SameNeighbors, BufferPerNeighbor
<1>3. ASSUME NEW i, NEW dest, RecvHello(i, dest) PROVE LoopInv'
  <2>1. /\ pc = "recv" /\ pc' \in {"recv", "greet"} /\ peer \in Addr
        /\ UNCHANGED <<fi, todo, peer>>
    BY <1>3 DEF RecvHello, Handling, flood
  <2>2. DOMAIN NEIGHBORS' = DOMAIN NEIGHBORS \cup {peer}
    BY <1>3 DEF RecvHello, T!hello, T!add_neighbor_aux
  <2>3. DOMAIN msg' = DOMAIN msg \cup {peer}
    BY <1>3 DEF RecvHello, O!quiet, O!open, BufferPerNeighbor
  <2> QED
    BY <2>1, <2>2, <2>3 DEF BufferPerNeighbor
<1>4. ASSUME NEW a, RecvNeighbour(a) PROVE LoopInv'
  <2>1. SameNeighbors
    BY <1>4 DEF RecvNeighbour, T!neighbour, tables, O!quiet, SameNeighbors
  <2> QED
    BY <1>4, <2>1, <1>a DEF RecvNeighbour, Handling, flood
<1>5. ASSUME NEW d, RecvData(d) \/ RecvAck(d) PROVE LoopInv'
  <2>1. SameNeighbors
    BY <1>5 DEF RecvData, RecvAck, tables, O!quiet, O!send_message_now, SameNeighbors
  <2>2. UNCHANGED <<fi, todo, peer>>
    BY <1>5 DEF RecvData, RecvAck, Handling, F!ack, F!add_message_to_flood
  <2> QED
    BY <1>5, <2>1, <2>2, <1>a DEF RecvData, RecvAck, Handling
<1>6. CASE RecvGoaway
  <2>1. /\ pc = "recv" /\ pc' = "recv" /\ peer \in Addr /\ T!remove_neighbor(peer)
        /\ UNCHANGED <<fi, todo, peer>>
    BY <1>6 DEF RecvGoaway, Handling, F!remove_neighbor_everywhere
  <2>2. DOMAIN msg' = DOMAIN msg \ {peer}
    BY <1>6 DEF RecvGoaway, O!close
  <2> QED
    BY <2>1, <2>2, ClosesBoth
<1>7. CASE Greet \/ SendShortHello
  <2>1. SameNeighbors
    BY <1>7, SendKeeps DEF Greet, SendShortHello, tables, O!quiet, O!send_message_now,
                           SameNeighbors
  <2>2. UNCHANGED <<fi, todo, peer>>
    BY <1>7 DEF Greet, SendShortHello, flood, KeepLoop
  <2> QED
    BY <1>7, <2>1, <2>2, <1>a DEF Greet, SendShortHello
<1>8. CASE HelloRound
  <2>1. SameNeighbors /\ UNCHANGED <<fi, peer>> /\ pc' = "symetrical" /\ pc = "timer"
    BY <1>8, SendKeeps DEF HelloRound, tables, flood, SameNeighbors
  <2>2. todo' \subseteq DOMAIN NEIGHBORS
    BY <1>8 DEF HelloRound, T!get_symmetrical
  <2> QED
    BY <2>1, <2>2 DEF SameNeighbors, BufferPerNeighbor
<1>9. CASE SendSymetrical
  <2>1. SameNeighbors /\ UNCHANGED <<fi, peer, pc>> /\ pc = "symetrical"
    BY <1>9, SendKeeps DEF SendSymetrical, tables, flood, SameNeighbors
  <2>2. todo' \subseteq todo
    BY <1>9 DEF SendSymetrical
  <2> QED
    BY <2>1, <2>2 DEF SameNeighbors, BufferPerNeighbor
<1>10. CASE EndOfSymetrical
  <2>1. /\ SameNeighbors /\ UNCHANGED <<fi, peer>>
        /\ pc = "symetrical" /\ pc' = "goaway"
    BY <1>10 DEF EndOfSymetrical, tables, flood, O!quiet, SameNeighbors
  <2>2. todo' \subseteq DOMAIN NEIGHBORS
    BY <1>10 DEF EndOfSymetrical, T!OldNeighbors
  <2> QED
    BY <2>1, <2>2 DEF SameNeighbors, BufferPerNeighbor
<1>11. ASSUME NEW a, SendGoaway(a) PROVE LoopInv'
  <2>1. /\ pc = "goaway" /\ pc' = "goaway" /\ T!remove_neighbor(a)
        /\ todo' = todo \ {a} /\ UNCHANGED <<fi, peer>>
    BY <1>11 DEF SendGoaway, F!remove_neighbor_everywhere
  <2>2. DOMAIN msg' = DOMAIN msg \ {a}
    BY <1>11 DEF SendGoaway, O!send_message_close
  <2> QED
    BY <2>1, <2>2, ClosesBoth
<1>12. CASE RemoveOldPotential
  <2>1. SameNeighbors /\ UNCHANGED <<fi, todo, peer>> /\ todo = {}
    BY <1>12 DEF RemoveOldPotential, T!remove_old_potential, O!quiet, flood, KeepLoop,
                 SameNeighbors
  <2>2. pc = "goaway" /\ pc' = "shorthello"
    BY <1>12 DEF RemoveOldPotential
  <2> QED
    BY <2>1, <2>2 DEF SameNeighbors, BufferPerNeighbor
<1>13. CASE StartPass
  <2>1. SameNeighbors /\ UNCHANGED <<todo, peer>> /\ pc = "flood" /\ pc' = "pass"
    BY <1>13 DEF StartPass, tables, O!quiet, KeepLoop, SameNeighbors
  <2> QED
    BY <2>1 DEF SameNeighbors, BufferPerNeighbor
<1>14. CASE GiveUp
  <2>1. /\ pc = "pass" /\ pc' = "pass" /\ T!remove_neighbor(tmp)
        /\ UNCHANGED <<todo, peer>>
    BY <1>14 DEF GiveUp, InPass
  <2>2. DOMAIN msg' = DOMAIN msg \ {tmp}
    BY <1>14 DEF GiveUp, O!send_message_close
  <2>3. BufferPerNeighbor' /\ DOMAIN NEIGHBORS' \subseteq Addr
    BY <2>1, <2>2, ClosesBoth
  <2> QED
    BY <2>1, <2>3
<1>15. ASSUME NEW w, Transmit(w) PROVE LoopInv'
  <2>1. /\ SameNeighbors /\ UNCHANGED <<todo, peer>>
        /\ pc = "pass" /\ pc' \in {"pass", "crash"}
    BY <1>15, SendKeeps DEF Transmit, tables, O!quiet, KeepLoop, SameNeighbors
  <2> QED
    BY <2>1 DEF SameNeighbors, BufferPerNeighbor
<1>16. CASE Later \/ EndOfList
  <2>1. SameNeighbors /\ UNCHANGED <<todo, peer>> /\ pc = "pass" /\ pc' = "pass"
    BY <1>16 DEF Later, EndOfList, InPass, tables, O!quiet, SameNeighbors
  <2> QED
    BY <2>1 DEF SameNeighbors, BufferPerNeighbor
<1>17. CASE EndOfTurn
  <2>1. /\ SameNeighbors /\ UNCHANGED <<todo, peer, fi>> /\ fi = 0
        /\ pc = "pass" /\ pc' = "select"
    BY <1>17 DEF EndOfTurn, tables, flood, O!send_to_everyone_now, SameNeighbors
  <2> QED
    BY <2>1 DEF SameNeighbors, BufferPerNeighbor
<1>18. ASSUME NEW d, ReadLine(d) PROVE LoopInv'
  <2>1. SameNeighbors /\ UNCHANGED <<fi, todo, peer>>
    BY <1>18 DEF ReadLine, tables, O!quiet, F!add_message_to_flood, SameNeighbors
  <2> QED
    BY <1>18, <2>1, <1>a DEF ReadLine
<1>19. CASE Disconnect
  <2>1. SameNeighbors /\ UNCHANGED <<fi, todo, peer>> /\ pc' = "bye"
    BY <1>19, SendKeeps DEF Disconnect, tables, flood, KeepLoop, SameNeighbors
  <2> QED
    BY <2>1 DEF SameNeighbors, BufferPerNeighbor
<1>20. CASE Exit
  <2>1. SameNeighbors /\ UNCHANGED <<fi, todo, peer>> /\ pc = "bye" /\ pc' = "exit"
    BY <1>20 DEF Exit, tables, flood, O!send_to_everyone_now, KeepLoop, SameNeighbors
  <2> QED
    BY <2>1, <1>a
<1>21. CASE UNCHANGED vars
  BY <1>21 DEF vars, tables, flood, outbox, BufferPerNeighbor
<1> QED
  BY <1>1, <1>2, <1>3, <1>4, <1>5, <1>6, <1>7, <1>8, <1>9, <1>10, <1>11, <1>12, <1>13,
     <1>14, <1>15, <1>16, <1>17, <1>18, <1>19, <1>20, <1>21
  DEF PeerNext, Receive, Turn, Stopped

LEMMA LoopInvariant == Spec => []LoopInv
BY LoopInit, LoopNext, PTL DEF Spec

\* A neighbour has a buffer exactly while it is in the tree, whatever goodbyes, new
\* neighbours and given-up ones follow each other (add_neighbor, remove_neighbor_aux).
THEOREM PeerBufferPerNeighbor == Spec => []BufferPerNeighbor
BY LoopInvariant, PTL DEF LoopInv
-----------------------------------------------------------------------------
\* Every step of the loop is one operation of the tables, or leaves them alone.
LEMMA TablesStep == LoopInv /\ [PeerNext]_vars => [T!TablesNext]_(T!tablesVars)
<1> SUFFICES ASSUME LoopInv, [PeerNext]_vars
             PROVE  T!TablesNext \/ UNCHANGED tables
  BY DEF T!tablesVars, tables
<1>1. CASE Wait
  BY <1>1 DEF Wait, T!TablesNext
<1>2. ASSUME NEW i \in Id, NEW dest \in {NoDest, ID}, RecvHello(i, dest)
      PROVE  T!TablesNext
  <2>1. peer \in Addr /\ T!hello(peer, i, dest)
    BY <1>2 DEF RecvHello, Handling, LoopInv
  <2> QED
    BY <2>1 DEF T!TablesNext
<1>3. ASSUME NEW a \in Addr, RecvNeighbour(a)
      PROVE  T!TablesNext \/ UNCHANGED tables
  BY <1>3 DEF RecvNeighbour, T!TablesNext
<1>4. CASE RecvGoaway
  <2>1. peer \in Addr /\ T!remove_neighbor(peer)
    BY <1>4 DEF RecvGoaway, Handling, LoopInv
  <2> QED
    BY <2>1 DEF T!TablesNext
<1>5. ASSUME NEW a \in Addr, SendGoaway(a) PROVE T!TablesNext
  BY <1>5 DEF SendGoaway, T!TablesNext
<1>6. CASE RemoveOldPotential
  BY <1>6 DEF RemoveOldPotential, T!TablesNext
<1>7. CASE GiveUp
  <2>1. tmp \in Addr /\ T!remove_neighbor(tmp)
    BY <1>7 DEF GiveUp, O!send_message_close, LoopInv, BufferPerNeighbor
  <2> QED
    BY <2>1 DEF T!TablesNext
<1>8. ASSUME NEW d, RecvData(d) \/ RecvAck(d) \/ ReadLine(d) PROVE UNCHANGED tables
  BY <1>8 DEF RecvData, RecvAck, ReadLine
<1>9. CASE Timeout \/ Readable \/ Greet \/ EndOfDatagram \/ NoHelloRound \/ HelloRound
  BY <1>9 DEF Timeout, Readable, Greet, EndOfDatagram, NoHelloRound, HelloRound
<1>10. CASE SendSymetrical \/ EndOfSymetrical \/ SendShortHello \/ StartPass \/ Later
            \/ EndOfList \/ EndOfTurn \/ Exit \/ Disconnect
  BY <1>10 DEF SendSymetrical, EndOfSymetrical, SendShortHello, StartPass, Later,
               EndOfList, EndOfTurn, Exit, Disconnect
<1>11. ASSUME NEW w, Transmit(w) PROVE UNCHANGED tables
  BY <1>11 DEF Transmit
<1>12. CASE UNCHANGED vars
  BY <1>12 DEF vars
<1> QED
  BY <1>1, <1>2, <1>3, <1>4, <1>5, <1>6, <1>7, <1>8, <1>9, <1>10, <1>11, <1>12
  DEF PeerNext, Receive, Turn, Stopped

\* The loop and the handlers use the neighbour tables only in the ways Tables
\* describes: each of their steps is one of its operations (tlv.c, main.c).
THEOREM PeerTablesRefined == Spec => TablesRefined
<1>1. Init => T!TablesInit
  BY DEF Init
<1> QED
  BY <1>1, LoopInvariant, TablesStep, PTL DEF Spec, TablesRefined, T!TablesSpec

\* The tables of this peer are those that the theorems of Tables are about.
LEMMA SameTables == Spec => TP!TablesSpec
<1>1. Init => TP!TablesInit
  BY DEF Init, T!TablesInit, TP!TablesInit
<1>2. [T!TablesNext]_(T!tablesVars) => [TP!TablesNext]_(TP!tablesVars)
  BY DEF T!TablesNext, T!tablesVars, T!hello, T!neighbour, T!remove_neighbor, T!Tick,
         T!remove_old_potential, T!add_neighbor_aux, T!remove_neighbor_aux, T!HelloIdent,
         T!OldPotential, T!is_old, TP!TablesNext, TP!tablesVars, TP!hello, TP!neighbour,
         TP!remove_neighbor, TP!Tick, TP!remove_old_potential, TP!add_neighbor_aux,
         TP!remove_neighbor_aux, TP!HelloIdent, TP!OldPotential, TP!is_old
<1> QED
  BY <1>1, <1>2, LoopInvariant, TablesStep, PTL DEF Spec, TP!TablesSpec

LEMMA TablesConstants == TP!TablesAssumption
BY PeerAssumption DEF TP!TablesAssumption

\* What the tables promise holds in the whole peer: an address is never a neighbour
\* and a potential one at once, and the dates of a neighbour are consistent.
LEMMA TablesInherited ==
  Spec => [](T!TablesTypeOK /\ T!Disjoint /\ T!HelloDates /\ T!OldIsAsymmetric
             /\ now >= Uptime)
<1>1. TP!TablesSpec => []TP!TablesTypeOK
  BY TablesConstants, TP!TablesTypeCorrect
<1>2. TP!TablesSpec => []TP!Disjoint
  BY TablesConstants, TP!TablesDisjoint
<1>3. TP!TablesSpec => []TP!HelloDates
  BY TablesConstants, TP!TablesHelloDates
<1>4. TP!TablesSpec => []TP!OldIsAsymmetric
  BY TablesConstants, TP!TablesOldIsAsymmetric
<1>5. TP!TablesSpec => [](now >= Uptime)
  BY TablesConstants, TP!ClockFromUptime
<1>6. TP!TablesTypeOK => T!TablesTypeOK
  BY DEF TP!TablesTypeOK, T!TablesTypeOK, TP!IsTable, T!IsTable, TP!Ident, T!Ident
<1>7. TP!Disjoint => T!Disjoint
  BY DEF TP!Disjoint, T!Disjoint
<1>8. TP!HelloDates => T!HelloDates
  BY DEF TP!HelloDates, T!HelloDates
<1>9. TP!OldIsAsymmetric => T!OldIsAsymmetric
  BY DEF TP!OldIsAsymmetric, T!OldIsAsymmetric, TP!OldNeighbors, T!OldNeighbors,
         TP!get_symmetrical, T!get_symmetrical, TP!is_old, T!is_old, TP!issymmetrical,
         T!issymmetrical
<1> QED
  BY <1>1, <1>2, <1>3, <1>4, <1>5, <1>6, <1>7, <1>8, <1>9, SameTables, PTL
-----------------------------------------------------------------------------
InRound == {"symetrical", "goaway", "shorthello"}

\* The count is right from the moment it is made, because only old neighbours are
\* removed before it is used.
CountInv ==
  /\ pc \in InRound => NB_SYMETRICAL = Cardinality(T!get_symmetrical)
  /\ pc = "goaway" => todo \subseteq T!OldNeighbors

\* Steps that lead to a point outside the hello round.
LEMMA OutOfRound ==
  ASSUME PeerNext,
         ~ (HelloRound \/ SendSymetrical \/ EndOfSymetrical \/ (\E a \in Addr : SendGoaway(a))
            \/ RemoveOldPotential)
  PROVE  pc' \notin InRound
<1>1. CASE Wait \/ Timeout \/ Readable \/ Disconnect \/ Stopped
  BY <1>1 DEF Wait, Timeout, Readable, Disconnect, Stopped, vars, InRound
<1>2. CASE Receive
  BY <1>2 DEF Receive, RecvHello, RecvNeighbour, RecvData, RecvAck, RecvGoaway, Handling,
              InRound
<1>3. CASE Greet \/ EndOfDatagram \/ NoHelloRound \/ SendShortHello \/ StartPass \/ GiveUp
           \/ Later \/ EndOfList \/ EndOfTurn \/ Exit
  BY <1>3 DEF Greet, EndOfDatagram, NoHelloRound, SendShortHello, StartPass, GiveUp,
              Later, EndOfList, EndOfTurn, Exit, InPass, InRound
<1>4. ASSUME NEW w, Transmit(w) PROVE pc' \notin InRound
  BY <1>4 DEF Transmit, InRound
<1>5. ASSUME NEW d, ReadLine(d) PROVE pc' \notin InRound
  BY <1>5 DEF ReadLine, InRound
<1> QED
  BY <1>1, <1>2, <1>3, <1>4, <1>5 DEF PeerNext, Turn

LEMMA CountInit == Init => CountInv
BY DEF Init, CountInv, InRound

LEMMA CountNext ==
  T!TablesTypeOK /\ T!OldIsAsymmetric /\ CountInv /\ [PeerNext]_vars => CountInv'
<1> SUFFICES ASSUME T!TablesTypeOK, T!OldIsAsymmetric, CountInv, [PeerNext]_vars
             PROVE  CountInv'
  OBVIOUS
<1>a. ASSUME UNCHANGED tables
      PROVE  UNCHANGED <<T!get_symmetrical, T!OldNeighbors>>
  BY <1>a DEF tables, T!get_symmetrical, T!OldNeighbors, T!issymmetrical, T!is_old
<1>1. CASE HelloRound
  BY <1>1, <1>a DEF HelloRound, CountInv
<1>2. CASE SendSymetrical
  BY <1>2, <1>a DEF SendSymetrical, CountInv, InRound
<1>3. CASE EndOfSymetrical
  BY <1>3, <1>a DEF EndOfSymetrical, CountInv, InRound
<1>4. ASSUME NEW a \in Addr, SendGoaway(a) PROVE CountInv'
  <2>1. /\ pc = "goaway" /\ a \in todo /\ todo' = todo \ {a}
        /\ UNCHANGED <<pc, NB_SYMETRICAL>> /\ T!remove_neighbor(a)
    BY <1>4 DEF SendGoaway
  <2>2. a \in T!OldNeighbors /\ a \notin T!get_symmetrical
    BY <2>1 DEF CountInv, T!OldIsAsymmetric
  <2>3. T!get_symmetrical' = T!get_symmetrical
    BY <2>1, <2>2 DEF T!remove_neighbor, T!remove_neighbor_aux, T!get_symmetrical,
                      T!issymmetrical
  <2>4. T!OldNeighbors' = T!OldNeighbors \ {a}
    BY <2>1 DEF T!remove_neighbor, T!remove_neighbor_aux, T!OldNeighbors, T!is_old
  <2> QED
    BY <2>1, <2>3, <2>4 DEF CountInv, InRound
<1>5. CASE RemoveOldPotential
  <2>1. /\ pc = "goaway" /\ pc' = "shorthello" /\ UNCHANGED <<now, NEIGHBORS, NB_SYMETRICAL>>
    BY <1>5 DEF RemoveOldPotential, T!remove_old_potential, KeepLoop
  <2>2. T!get_symmetrical' = T!get_symmetrical
    BY <2>1 DEF T!get_symmetrical, T!issymmetrical
  <2> QED
    BY <2>1, <2>2 DEF CountInv, InRound
<1>6. CASE pc' \notin InRound
  BY <1>6 DEF CountInv, InRound
<1>7. CASE UNCHANGED vars
  BY <1>7, <1>a DEF vars, CountInv
<1> QED
  BY <1>1, <1>2, <1>3, <1>4, <1>5, <1>6, <1>7, OutOfRound

\* The number of symmetric neighbours is still right when it decides whether short
\* hellos are sent: the neighbours removed since it was counted are old, and an old
\* neighbour is never a symmetric one (send_symetrical_everyone,
\* send_goaway_asymetrical).
THEOREM PeerCountStillRight == Spec => []CountStillRight
<1>1. CountInv => CountStillRight
  BY DEF CountInv, CountStillRight, InRound
<1> QED
  BY <1>1, CountInit, CountNext, TablesInherited, PTL DEF Spec
-----------------------------------------------------------------------------
\* Every step of the loop is one operation of the flood list, or leaves it alone.
LEMMA FloodStep == LoopInv /\ [PeerNext]_vars => [F!FloodNext]_(F!floodVars)
<1> SUFFICES ASSUME LoopInv, [PeerNext]_vars
             PROVE  F!FloodNext \/ UNCHANGED <<now, DOMAIN NEIGHBORS, flood>>
  BY DEF F!floodVars, flood
<1>0. ASSUME UNCHANGED <<tables, flood>>
      PROVE  UNCHANGED <<now, DOMAIN NEIGHBORS, flood>>
  BY <1>0 DEF tables
<1>1. CASE Wait
  BY <1>1 DEF Wait, T!Tick, flood, F!Tick, F!FloodNext, LoopInv, Passing
<1>2. ASSUME NEW i \in Id, NEW dest \in {NoDest, ID}, RecvHello(i, dest)
      PROVE  F!FloodNext
  <2>1. /\ peer \in Addr /\ fi = 0 /\ UNCHANGED <<now, flood>>
        /\ DOMAIN NEIGHBORS' = DOMAIN NEIGHBORS \cup {peer}
    BY <1>2 DEF RecvHello, Handling, LoopInv, Passing, T!hello, T!add_neighbor_aux
  <2>2. F!join(peer)
    BY <2>1 DEF F!join, flood
  <2> QED
    BY <2>1, <2>2 DEF F!FloodNext
<1>3. ASSUME NEW a \in Addr, RecvNeighbour(a)
      PROVE  UNCHANGED <<now, DOMAIN NEIGHBORS, flood>>
  BY <1>3 DEF RecvNeighbour, T!neighbour, tables
<1>4. ASSUME NEW d \in Data, RecvData(d) \/ RecvAck(d) PROVE F!FloodNext
  <2>1. peer \in Addr
    BY <1>4 DEF RecvData, RecvAck, Handling, LoopInv
  <2>2. T!get_symmetrical \in SUBSET DOMAIN NEIGHBORS
    BY DEF T!get_symmetrical
  <2>3. F!ack(d, peer) \/ F!add_message_to_flood(d, T!get_symmetrical, peer)
    BY <1>4 DEF RecvData, RecvAck
  <2> QED
    BY <2>1, <2>2, <2>3 DEF F!FloodNext
<1>5. CASE RecvGoaway
  <2>1. peer \in Addr /\ F!remove_neighbor_everywhere(peer)
    BY <1>5 DEF RecvGoaway, Handling, LoopInv
  <2> QED
    BY <2>1 DEF F!FloodNext
<1>6. ASSUME NEW a \in Addr, SendGoaway(a) PROVE F!FloodNext
  BY <1>6 DEF SendGoaway, F!FloodNext
<1>7. CASE RemoveOldPotential
  BY <1>7 DEF RemoveOldPotential, T!remove_old_potential
<1>8. CASE StartPass
  BY <1>8 DEF StartPass, F!FloodNext
<1>9. CASE GiveUp \/ Later \/ EndOfList
  BY <1>9 DEF GiveUp, Later, EndOfList, F!FloodPass, F!FloodNext
<1>10. ASSUME NEW w \in 1..F!MaxWait, Transmit(w) PROVE F!FloodNext
  BY <1>10 DEF Transmit, F!FloodPass, F!FloodNext
<1>11. ASSUME NEW d \in Data, ReadLine(d) PROVE F!FloodNext
  <2>1. T!get_symmetrical \in SUBSET DOMAIN NEIGHBORS
    BY DEF T!get_symmetrical
  <2>2. F!add_message_to_flood(d, T!get_symmetrical, NULL)
    BY <1>11 DEF ReadLine
  <2> QED
    BY <2>1, <2>2 DEF F!FloodNext
<1>12. CASE Timeout \/ Readable \/ Greet \/ EndOfDatagram \/ NoHelloRound \/ HelloRound
            \/ SendSymetrical \/ EndOfSymetrical
  BY <1>0, <1>12 DEF Timeout, Readable, Greet, EndOfDatagram, NoHelloRound, HelloRound,
                     SendSymetrical, EndOfSymetrical
<1>13. CASE SendShortHello \/ EndOfTurn \/ Exit \/ Disconnect
  BY <1>0, <1>13 DEF SendShortHello, EndOfTurn, Exit, Disconnect
<1>14. CASE UNCHANGED vars
  BY <1>0, <1>14 DEF vars
<1> QED
  BY <1>1, <1>2, <1>3, <1>4, <1>5, <1>6, <1>7, <1>8, <1>9, <1>10, <1>11, <1>12, <1>13,
     <1>14
  DEF PeerNext, Receive, Turn, Stopped

\* The loop and the handlers use DATAF only in the ways FloodList describes; in
\* particular no handler runs inside a pass, which the pointers of
\* flood_message_to_neighbours() rely on (main.c, tlv.c, util.c).
THEOREM PeerFloodRefined == Spec => FloodRefined
<1>1. Init => F!FloodInit
  BY DEF Init, T!TablesInit, F!FloodInit
<1> QED
  BY <1>1, LoopInvariant, FloodStep, PTL DEF Spec, FloodRefined, F!FloodSafety
-----------------------------------------------------------------------------
\* The operators of FloodList are the same ones in both instances.
LEMMA SameLists ==
  ASSUME NEW l, NEW s, NEW w
  PROVE  /\ F!first_equal(l, s, w) = FP!first_equal(l, s, w)
         /\ F!first_not_less(l, s, w) = FP!first_not_less(l, s, w)
         /\ F!get(l, s) = FP!get(l, s)
<1>1. F!first_equal(l, s, w) = FP!first_equal(l, s, w)
  BY DEF F!first_equal, FP!first_equal, F!SelectInSeq, FP!SelectInSeq, F!Min, FP!Min,
     F!compare_n_s, FP!compare_n_s, F!Short, FP!Short
<1>2. F!first_not_less(l, s, w) = FP!first_not_less(l, s, w)
  BY DEF F!first_not_less, FP!first_not_less, F!SelectInSeq, FP!SelectInSeq, F!Min, FP!Min,
     F!compare_n_s, FP!compare_n_s, F!Short, FP!Short
<1>3. F!get(l, s) = FP!get(l, s)
  BY DEF F!get, FP!get, F!SelectInSeq, FP!SelectInSeq, F!Min, FP!Min
<1> QED
  BY <1>1, <1>2, <1>3

LEMMA SameListChanges ==
  ASSUME NEW l, NEW s, NEW w
  PROVE  /\ F!remove_elem(l, s, w) = FP!remove_elem(l, s, w)
         /\ F!add_elem(l, s) = FP!add_elem(l, s)
         /\ F!PurgeAll(l, s) = FP!PurgeAll(l, s)
         /\ F!remove_neighbor_from_flood(l, s, w) = FP!remove_neighbor_from_flood(l, s, w)
         /\ F!InOrder(s) = FP!InOrder(s)
         /\ F!init_ngb_entries(l) = FP!init_ngb_entries(l)
         /\ F!NextSym(l, s) = FP!NextSym(l, s)
         /\ F!Syms(l) = FP!Syms(l)
<1>0. ASSUME NEW q, NEW x, NEW y PROVE F!remove_elem(q, x, y) = FP!remove_elem(q, x, y)
  BY SameLists DEF F!remove_elem, FP!remove_elem, F!RemoveAt, FP!RemoveAt
<1>1. F!add_elem(l, s) = FP!add_elem(l, s)
  BY SameLists DEF F!add_elem, FP!add_elem, F!InsertAt, FP!InsertAt, F!compare_n_s,
                   FP!compare_n_s, F!Short, FP!Short
<1>2. F!PurgeAll(l, s) = FP!PurgeAll(l, s)
  BY <1>0, SameLists DEF F!PurgeAll, FP!PurgeAll
<1>3. F!remove_neighbor_from_flood(l, s, w) = FP!remove_neighbor_from_flood(l, s, w)
  BY <1>0, SameLists DEF F!remove_neighbor_from_flood, FP!remove_neighbor_from_flood
<1>4. F!InOrder(s) = FP!InOrder(s)
  <2>1. F!Cardinality(s) = FP!Cardinality(s)
    BY DEF F!Cardinality, FP!Cardinality
  <2> QED
    BY <2>1 DEF F!InOrder, FP!InOrder
<1>5. F!init_ngb_entries(l) = FP!init_ngb_entries(l)
  BY DEF F!init_ngb_entries, FP!init_ngb_entries
<1>6. F!NextSym(l, s) = FP!NextSym(l, s) /\ F!Syms(l) = FP!Syms(l)
  BY DEF F!NextSym, FP!NextSym, F!Position, FP!Position, F!Syms, FP!Syms
<1> QED
  BY <1>0, <1>1, <1>2, <1>3, <1>4, <1>5, <1>6

\* The entry that the pass visits is the same one in both instances of FloodList.
LEMMA SameVisit ==
  /\ F!sym_neighbors = FP!sym_neighbors /\ F!nw = FP!nw
  /\ F!Visiting <=> FP!Visiting
BY SameListChanges DEF F!sym_neighbors, FP!sym_neighbors, F!nw, FP!nw, F!Visiting,
   FP!Visiting, F!Position, FP!Position

LEMMA SameSend ==
  ASSUME NEW w \in 1..F!MaxWait, F!send_data(w)
  PROVE  FP!send_data(w) /\ w \in 1..FP!MaxWait
<1>1. PICK e : e = F!nw
  OBVIOUS
<1>2. PICK m : m = F!add_elem(F!remove_elem(DATAF[fi].sym_neighbors, e.sym, e.wait_time),
                     [e EXCEPT !.times_sent = e.times_sent + 1, !.wait_time = now + w])
  OBVIOUS
<1>3. m = FP!add_elem(FP!remove_elem(DATAF[fi].sym_neighbors, e.sym, e.wait_time),
            [e EXCEPT !.times_sent = e.times_sent + 1, !.wait_time = now + w])
  BY <1>2, SameListChanges
<1>4. DATAF' = [DATAF EXCEPT ![fi].sym_neighbors = m]
  BY <1>1, <1>2 DEF F!send_data
<1>5. DATAF' = [DATAF EXCEPT ![fi].sym_neighbors =
        FP!add_elem(FP!remove_elem(DATAF[fi].sym_neighbors, FP!nw.sym, FP!nw.wait_time),
          [FP!nw EXCEPT !.times_sent = FP!nw.times_sent + 1, !.wait_time = now + w])]
  BY ONLY SameVisit, <1>1, <1>3, <1>4
<1>6. tmp' = FP!NextSym(FP!sym_neighbors, tmp)
  BY SameVisit, SameListChanges DEF F!send_data
<1>7. w \in FP!wait_time(FP!nw.times_sent + 1) /\ w \in 1..FP!MaxWait
  BY SameVisit DEF F!send_data, F!wait_time, FP!wait_time, F!MaxWait, FP!MaxWait
<1> QED
  BY SameVisit, <1>5, <1>6, <1>7 DEF F!send_data, FP!send_data

\* The steps of a pass are the same ones too.
LEMMA SamePass ==
  /\ F!handle_inactive => FP!handle_inactive
  /\ F!flood_messages => FP!flood_messages
  /\ F!not_due => FP!not_due
  /\ F!end_of_list => FP!end_of_list
<1>1. F!handle_inactive => FP!handle_inactive
  BY SameVisit, SameListChanges DEF F!handle_inactive, FP!handle_inactive
<1>2. /\ F!flood_messages => FP!flood_messages
      /\ F!not_due => FP!not_due
      /\ F!end_of_list => FP!end_of_list
  BY SameVisit DEF F!flood_messages, FP!flood_messages, F!not_due, FP!not_due,
     F!end_of_list, FP!end_of_list, F!Enter, FP!Enter, F!FirstSym, FP!FirstSym
<1> QED
  BY <1>1, <1>2

LEMMA SameFloodSteps == [F!FloodNext]_(F!floodVars) => [FP!FloodNext]_(FP!floodVars)
<1> SUFFICES ASSUME F!FloodNext PROVE FP!FloodNext
  BY DEF F!floodVars, FP!floodVars
<1>1. ASSUME NEW a \in Addr, F!join(a) PROVE FP!FloodNext
  <2>1. FP!join(a)
    BY <1>1 DEF F!join, FP!join
  <2> QED  BY <2>1 DEF FP!FloodNext
<1>2. ASSUME NEW d \in Data, NEW S \in SUBSET DOMAIN NEIGHBORS, NEW a \in Addr \cup {NULL},
             F!add_message_to_flood(d, S, a)
      PROVE  FP!FloodNext
  <2>1. FP!add_message_to_flood(d, S, a)
    <3>1. PICK q \in F!InOrder(S) :
            LET symmetric == F!init_ngb_entries(q)
                entry == [index |-> d, born |-> now, sym_neighbors |->
                            IF a = NULL THEN symmetric
                            ELSE F!remove_elem(symmetric, a, 0)]
            IN  DATAF' = F!add_limited(DATAF, entry, NBDATA)
      BY <1>2 DEF F!add_message_to_flood
    <3>2. q \in FP!InOrder(S)
      BY SameListChanges
    <3>3. PICK e : e = [index |-> d, born |-> now, sym_neighbors |->
                          IF a = NULL THEN F!init_ngb_entries(q)
                          ELSE F!remove_elem(F!init_ngb_entries(q), a, 0)]
      OBVIOUS
    <3>4. e = [index |-> d, born |-> now, sym_neighbors |->
                 IF a = NULL THEN FP!init_ngb_entries(q)
                 ELSE FP!remove_elem(FP!init_ngb_entries(q), a, 0)]
      BY <3>3, SameListChanges
    <3>5. DATAF' = FP!add_limited(DATAF, e, NBDATA)
      BY <3>1, <3>3 DEF F!add_limited, FP!add_limited
    <3> QED
      BY <1>2, <3>2, <3>4, <3>5 DEF F!add_message_to_flood, FP!add_message_to_flood,
         F!Indices, FP!Indices
  <2> QED  BY <2>1 DEF FP!FloodNext
<1>3. ASSUME NEW d \in Data, NEW a \in Addr, F!ack(d, a) PROVE FP!FloodNext
  <2>1. FP!ack(d, a)
    BY <1>3, SameListChanges DEF F!ack, FP!ack
  <2> QED  BY <2>1 DEF FP!FloodNext
<1>4. ASSUME NEW a \in Addr, F!remove_neighbor_everywhere(a) PROVE FP!FloodNext
  <2>1. FP!remove_neighbor_everywhere(a)
    BY <1>4, SameListChanges DEF F!remove_neighbor_everywhere, FP!remove_neighbor_everywhere
  <2> QED  BY <2>1 DEF FP!FloodNext
<1>5. CASE F!Tick
  BY <1>5 DEF F!Tick, FP!Tick, FP!FloodNext
<1>6. CASE F!flood_messages \/ F!FloodPass
  BY <1>6, SamePass, SameSend DEF F!FloodPass, FP!FloodPass, FP!FloodNext
<1> QED
  BY <1>1, <1>2, <1>3, <1>4, <1>5, <1>6 DEF F!FloodNext

LEMMA SameFlood == Spec => FP!FloodSafety
<1>1. Init => FP!FloodInit
  BY DEF Init, T!TablesInit, FP!FloodInit
<1> QED
  BY <1>1, LoopInvariant, FloodStep, SameFloodSteps, PTL DEF Spec, FP!FloodSafety
-----------------------------------------------------------------------------
(***************************************************************************)
(* The clock.  A hello round comes at most TIMEHELLO seconds after the     *)
(* last one and the delay of select(), because the deadline of select()    *)
(* never lies after NEXTHELLO; before the first round NEXTHELLO is zero.   *)
(***************************************************************************)
Stopping == {"bye", "exit", "crash"}

BeforeRound == {"select", "recv", "greet", "gui", "timer", "symetrical"}

AfterRound == {"goaway", "shorthello", "flood", "pass"}

ClockInv ==
  /\ NEXTHELLO \in Nat /\ NEXTTIME \in Nat /\ deadline \in Nat
  /\ pc \in BeforeRound \cup AfterRound \cup Stopping
  /\ NEXTHELLO <= now + TIMEHELLO
  /\ pc = "select" => deadline <= NEXTHELLO \/ (NEXTHELLO = 0 /\ deadline = Uptime)
  /\ pc \in BeforeRound =>
       now <= NEXTHELLO + MaxDelay \/ (NEXTHELLO = 0 /\ now <= Uptime + MaxDelay)
  /\ pc \in AfterRound => now <= NEXTHELLO

\* The steps that touch neither the clock nor the timers, and where they lead.
Moves ==
  /\ UNCHANGED <<now, timers>>
  /\ \/ UNCHANGED pc
     \/ pc' \in Stopping
     \/ pc \in BeforeRound /\ pc' \in BeforeRound \ {"select"}
     \/ pc = "timer" /\ pc' = "flood" /\ now < NEXTHELLO
     \/ pc \in AfterRound /\ pc' \in AfterRound

LEMMA ControlStep ==
  ASSUME [PeerNext]_vars
  PROVE  Wait \/ EndOfSymetrical \/ Later \/ EndOfTurn \/ Moves
<1> USE DEF Moves, Stopping, BeforeRound, AfterRound
<1>1. CASE Timeout \/ Readable \/ NoHelloRound \/ HelloRound \/ SendSymetrical
  BY <1>1 DEF Timeout, Readable, NoHelloRound, HelloRound, SendSymetrical, tables, KeepLoop
<1>2. ASSUME NEW i, NEW dest, RecvHello(i, dest) PROVE Moves
  BY <1>2 DEF RecvHello, Handling, T!hello
<1>3. ASSUME NEW a, RecvNeighbour(a) PROVE Moves
  BY <1>3 DEF RecvNeighbour, Handling, T!neighbour, tables
<1>4. ASSUME NEW d, RecvData(d) \/ RecvAck(d) PROVE Moves
  BY <1>4 DEF RecvData, RecvAck, Handling, tables
<1>5. CASE RecvGoaway
  BY <1>5 DEF RecvGoaway, Handling, T!remove_neighbor
<1>6. CASE Greet \/ EndOfDatagram \/ SendShortHello \/ StartPass
  BY <1>6 DEF Greet, EndOfDatagram, SendShortHello, StartPass, tables, KeepLoop
<1>7. ASSUME NEW d, ReadLine(d) PROVE Moves
  BY <1>7 DEF ReadLine, tables
<1>8. ASSUME NEW a, SendGoaway(a) PROVE Moves
  BY <1>8 DEF SendGoaway, T!remove_neighbor
<1>9. CASE RemoveOldPotential
  BY <1>9 DEF RemoveOldPotential, T!remove_old_potential, KeepLoop
<1>10. CASE GiveUp
  BY <1>10 DEF GiveUp, InPass, T!remove_neighbor, timers
<1>11. ASSUME NEW w, Transmit(w) PROVE Moves
  BY <1>11 DEF Transmit, tables, KeepLoop
<1>12. CASE EndOfList
  BY <1>12 DEF EndOfList, InPass, tables, timers
<1>13. CASE Disconnect \/ Exit
  BY <1>13 DEF Disconnect, Exit, tables, KeepLoop
<1>14. CASE UNCHANGED vars
  BY <1>14 DEF vars, tables
<1> QED
  BY <1>1, <1>2, <1>3, <1>4, <1>5, <1>6, <1>7, <1>8, <1>9, <1>10, <1>11, <1>12, <1>13,
     <1>14
  DEF PeerNext, Receive, Turn, Stopped

\* The loop never leaves the points where it stops.
LEMMA StaysStopped ==
  ASSUME [PeerNext]_vars, pc \in Stopping
  PROVE  pc' \in Stopping
<1> USE DEF Stopping
<1>1. CASE Exit \/ Stopped
  BY <1>1 DEF Exit, Stopped, vars
<1>2. CASE UNCHANGED vars
  BY <1>2 DEF vars
<1>3. ~(Wait \/ Timeout \/ Readable \/ Disconnect \/ Receive)
  BY DEF Wait, Timeout, Readable, Disconnect, Receive, RecvHello, RecvNeighbour, RecvData,
         RecvAck, RecvGoaway, Handling
<1>4. Turn => Exit
  BY DEF Turn, Greet, EndOfDatagram, NoHelloRound, HelloRound, SendSymetrical,
         EndOfSymetrical, SendGoaway, RemoveOldPotential, SendShortHello, StartPass,
         GiveUp, Transmit, Later, EndOfList, EndOfTurn, ReadLine, InPass
<1> QED
  BY <1>1, <1>2, <1>3, <1>4 DEF PeerNext

LEMMA FloodConstants == FP!FloodAssumption
BY PeerAssumption DEF FP!FloodAssumption, IsFiniteSet, FP!IsFiniteSet

LEMMA FloodTypesInherited == Spec => []FP!FloodTypes
<1>1. FP!FloodSafety => []FP!FloodTypes
  BY FloodConstants, FP!FloodTypesInvariant
<1> QED
  BY <1>1, SameFlood, PTL

\* The date of the entry at which a pass leaves a list.
LEMMA VisitedDate ==
  ASSUME FP!FloodTypes, F!Visiting
  PROVE  F!nw.wait_time \in Nat
<1>1. FP!nw \in FP!NgbEntry
  BY SameVisit, FloodConstants, FP!VisitedTyped
<1> QED
  BY <1>1, SameVisit DEF FP!NgbEntry

LEMMA ClockInit == Init => ClockInv
BY PeerAssumption
DEF Init, T!TablesInit, ClockInv, BeforeRound, AfterRound, Stopping

LEMMA ClockNext ==
  FP!FloodTypes /\ ClockInv /\ [PeerNext]_vars => ClockInv'
<1> SUFFICES ASSUME FP!FloodTypes, ClockInv, [PeerNext]_vars PROVE ClockInv'
  OBVIOUS
<1>0. now \in Nat /\ TIMEHELLO \in Nat \ {0} /\ MaxDelay \in Nat /\ Uptime \in Nat
  BY PeerAssumption DEF FP!FloodTypes, FP!FloodTypeOK
<1> USE DEF BeforeRound, AfterRound, Stopping
<1>1. CASE Wait
  <2>1. /\ pc = "select" /\ pc' = pc /\ now < deadline + MaxDelay /\ now' = now + 1
        /\ UNCHANGED <<NEXTHELLO, NEXTTIME, deadline>>
    BY <1>1 DEF Wait, T!Tick, KeepLoop, timers
  <2> QED
    BY <1>0, <2>1 DEF ClockInv
<1>2. CASE EndOfSymetrical
  <2>1. /\ pc' = "goaway" /\ NEXTHELLO' = now + TIMEHELLO
        /\ UNCHANGED <<now, NEXTTIME, deadline>>
    BY <1>2 DEF EndOfSymetrical, tables
  <2> QED
    BY <1>0, <2>1 DEF ClockInv
<1>3. CASE Later
  <2>1. /\ pc' = "pass" /\ pc = "pass" /\ UNCHANGED <<now, NEXTHELLO, deadline>>
        /\ NEXTTIME' = NEXTTIME \/ NEXTTIME' = F!nw.wait_time
        /\ F!Visiting
    BY <1>3 DEF Later, InPass, tables, F!not_due
  <2>2. NEXTTIME' \in Nat
    BY <2>1, VisitedDate DEF ClockInv
  <2> QED
    BY <1>0, <2>1, <2>2 DEF ClockInv
<1>4. CASE EndOfTurn
  <2>1. /\ pc = "pass" /\ pc' = "select" /\ UNCHANGED <<now, NEXTHELLO>>
        /\ NEXTTIME' = NEXTHELLO
    BY <1>4 DEF EndOfTurn, tables
  <2>2. deadline' \in Nat /\ deadline' <= NEXTHELLO
    BY <1>0, <1>4, <2>1 DEF EndOfTurn, ClockInv
  <2> QED
    BY <1>0, <2>1, <2>2 DEF ClockInv
<1>5. CASE Moves
  <2>1. UNCHANGED <<now, NEXTHELLO, NEXTTIME, deadline>>
    BY <1>5 DEF Moves, timers
  <2> QED
    BY <1>0, <1>5, <2>1 DEF ClockInv, Moves
<1> QED
  BY <1>1, <1>2, <1>3, <1>4, <1>5, ControlStep

LEMMA ClockInvariant == Spec => []ClockInv
BY ClockInit, ClockNext, FloodTypesInherited, PTL DEF Spec
-----------------------------------------------------------------------------
\* What a hello round leaves behind: a neighbour it did not find old, and one that came
\* or said hello since, is silent since at most OldAge seconds before that round.
SilenceInv ==
  /\ \A a \in DOMAIN NEIGHBORS : NEIGHBORS[a].last_hello >= Uptime
  /\ pc \notin Stopping => \A a \in DOMAIN NEIGHBORS :
       \/ pc = "goaway" /\ a \in todo
       \/ NEXTHELLO <= NEIGHBORS[a].last_hello + OldAge + TIMEHELLO
  /\ SilentGone

\* Steps of which the neighbours that stay do not notice anything.
Fewer ==
  /\ DOMAIN NEIGHBORS' \subseteq DOMAIN NEIGHBORS
  /\ \A a \in DOMAIN NEIGHBORS' : NEIGHBORS'[a] = NEIGHBORS[a]

LEMMA NeighborsStep ==
  ASSUME [PeerNext]_vars
  PROVE  Fewer \/ \E i \in Id, dest \in {NoDest, ID} : RecvHello(i, dest)
<1>0. ASSUME UNCHANGED NEIGHBORS PROVE Fewer
  BY <1>0 DEF Fewer
<1>a. ASSUME NEW a, T!remove_neighbor(a) PROVE Fewer
  BY <1>a DEF Fewer, T!remove_neighbor, T!remove_neighbor_aux
<1>1. CASE Wait \/ RemoveOldPotential
  BY <1>0, <1>1 DEF Wait, T!Tick, RemoveOldPotential, T!remove_old_potential
<1>2. ASSUME NEW a, RecvNeighbour(a) PROVE Fewer
  BY <1>0, <1>2 DEF RecvNeighbour, T!neighbour, tables
<1>3. CASE RecvGoaway \/ GiveUp
  BY <1>a, <1>3 DEF RecvGoaway, GiveUp
<1>4. ASSUME NEW a, SendGoaway(a) PROVE Fewer
  BY <1>a, <1>4 DEF SendGoaway
<1>5. ASSUME NEW d, RecvData(d) \/ RecvAck(d) \/ ReadLine(d) PROVE Fewer
  BY <1>0, <1>5 DEF RecvData, RecvAck, ReadLine, tables
<1>6. CASE Timeout \/ Readable \/ Greet \/ EndOfDatagram \/ NoHelloRound \/ HelloRound
           \/ SendSymetrical \/ EndOfSymetrical
  BY <1>0, <1>6 DEF Timeout, Readable, Greet, EndOfDatagram, NoHelloRound, HelloRound,
                    SendSymetrical, EndOfSymetrical, tables
<1>7. CASE SendShortHello \/ StartPass \/ Later \/ EndOfList \/ EndOfTurn \/ Exit
           \/ Disconnect
  BY <1>0, <1>7 DEF SendShortHello, StartPass, Later, EndOfList, EndOfTurn, Exit,
                    Disconnect, tables
<1>8. ASSUME NEW w, Transmit(w) PROVE Fewer
  BY <1>0, <1>8 DEF Transmit, tables
<1>9. CASE UNCHANGED vars
  BY <1>0, <1>9 DEF vars, tables
<1> QED
  BY <1>1, <1>2, <1>3, <1>4, <1>5, <1>6, <1>7, <1>8, <1>9
  DEF PeerNext, Receive, Turn, Stopped

\* A neighbour found old stays in todo until it is removed.
LEMMA TodoStep ==
  ASSUME [PeerNext]_vars, pc = "goaway", pc' \notin Stopping, NEW a \in todo,
         a \in DOMAIN NEIGHBORS'
  PROVE  pc' = "goaway" /\ a \in todo'
<1>1. ASSUME NEW b, SendGoaway(b) PROVE pc' = "goaway" /\ a \in todo'
  BY <1>1 DEF SendGoaway, T!remove_neighbor, T!remove_neighbor_aux
<1>2. CASE UNCHANGED vars
  BY <1>2 DEF vars
<1>3. ~(Wait \/ Timeout \/ Readable \/ Receive \/ Stopped)
  BY DEF Wait, Timeout, Readable, Stopped, Receive, RecvHello, RecvNeighbour, RecvData,
         RecvAck, RecvGoaway, Handling
<1>4. ~Disconnect
  BY DEF Disconnect, Stopping
<1>5. Turn => \E b \in Addr : SendGoaway(b)
  BY DEF Turn, Greet, EndOfDatagram, NoHelloRound, HelloRound, SendSymetrical,
         EndOfSymetrical, RemoveOldPotential, SendShortHello, StartPass,
         GiveUp, Transmit, Later, EndOfList, EndOfTurn, ReadLine, InPass, Exit
<1> QED
  BY <1>1, <1>2, <1>3, <1>4, <1>5 DEF PeerNext

LEMMA SilenceNext ==
  /\ T!TablesTypeOK /\ now >= Uptime /\ ClockInv /\ ClockInv' /\ SilenceInv
  /\ [PeerNext]_vars
  => SilenceInv'
<1> SUFFICES ASSUME T!TablesTypeOK, now >= Uptime, ClockInv, ClockInv', SilenceInv,
                    [PeerNext]_vars
             PROVE  SilenceInv'
  OBVIOUS
<1>0. /\ now \in Nat /\ NEXTHELLO \in Nat /\ MaxDelay \in Nat /\ TIMEHELLO \in Nat
      /\ OldAge \in Nat /\ Uptime \in Nat
      /\ \A a \in DOMAIN NEIGHBORS : NEIGHBORS[a].last_hello \in Nat
  <2>1. \A a \in DOMAIN NEIGHBORS : NEIGHBORS[a] \in T!Ident
    BY DEF T!TablesTypeOK, T!IsTable
  <2> QED
    BY <2>1, PeerAssumption DEF T!TablesTypeOK, T!Ident, ClockInv
<1>1. ASSUME NEW i, NEW dest, RecvHello(i, dest) PROVE SilenceInv'
  <2>1. /\ pc = "recv" /\ pc' \in {"recv", "greet"} /\ UNCHANGED <<now, NEXTHELLO>>
        /\ NEIGHBORS' = T!add_neighbor_aux(NEIGHBORS, peer, T!HelloIdent(i, dest))
    BY <1>1 DEF RecvHello, Handling, T!hello, timers
  <2>2. ASSUME NEW a \in DOMAIN NEIGHBORS'
        PROVE  \/ NEIGHBORS'[a].last_hello = now
               \/ a \in DOMAIN NEIGHBORS /\ NEIGHBORS'[a] = NEIGHBORS[a]
    BY <2>1 DEF T!add_neighbor_aux, T!HelloIdent
  <2>3. pc \notin Stopping
    BY <2>1 DEF Stopping
  <2> QED
    BY <1>0, <2>1, <2>2, <2>3 DEF SilenceInv, SilentGone, ClockInv, Stopping
<1>2. CASE Wait
  <2>1. pc' = "select" /\ pc = "select" /\ UNCHANGED <<NEIGHBORS, NEXTHELLO>> /\ now' = now + 1
    BY <1>2 DEF Wait, T!Tick, KeepLoop, timers
  <2>2. now' <= NEXTHELLO + MaxDelay \/ (NEXTHELLO = 0 /\ now' <= Uptime + MaxDelay)
    BY <2>1 DEF ClockInv, BeforeRound
  <2>3. pc \notin Stopping
    BY <2>1 DEF Stopping
  <2>4. ASSUME NEW a \in DOMAIN NEIGHBORS
        PROVE  now' - NEIGHBORS[a].last_hello <= OldAge + TIMEHELLO + MaxDelay
    <3>1. /\ NEIGHBORS[a].last_hello >= Uptime
          /\ NEXTHELLO <= NEIGHBORS[a].last_hello + OldAge + TIMEHELLO
      BY <2>1, <2>3 DEF SilenceInv
    <3> QED
      BY <1>0, <2>1, <2>2, <3>1
  <2> QED
    BY <2>1, <2>3, <2>4 DEF SilenceInv, SilentGone
<1>3. CASE EndOfSymetrical
  <2>1. /\ pc = "symetrical" /\ pc' = "goaway" /\ NEXTHELLO' = now + TIMEHELLO
        /\ UNCHANGED <<now, NEIGHBORS>> /\ todo' = T!OldNeighbors
    BY <1>3 DEF EndOfSymetrical, tables
  <2>2. \A a \in DOMAIN NEIGHBORS \ T!OldNeighbors : now - NEIGHBORS[a].last_hello <= OldAge
    BY <1>0 DEF T!OldNeighbors, T!is_old
  <2> QED
    BY <1>0, <2>1, <2>2 DEF SilenceInv, SilentGone, Stopping
<1>4. CASE Fewer /\ (Moves \/ Later \/ EndOfTurn)
  <2>1. UNCHANGED <<now, NEXTHELLO>>
    BY <1>4 DEF Moves, Later, EndOfTurn, InPass, tables, timers
  <2>2. pc' \notin Stopping => pc \notin Stopping
    BY StaysStopped
  <2>3. \A a \in DOMAIN NEIGHBORS' : a \in DOMAIN NEIGHBORS /\ NEIGHBORS'[a] = NEIGHBORS[a]
    BY <1>4 DEF Fewer
  <2>4. ASSUME pc' \notin Stopping, NEW a \in DOMAIN NEIGHBORS'
        PROVE  \/ pc' = "goaway" /\ a \in todo'
               \/ NEXTHELLO' <= NEIGHBORS'[a].last_hello + OldAge + TIMEHELLO
    BY <2>1, <2>2, <2>3, <2>4, TodoStep DEF SilenceInv
  <2>5. SilentGone'
    BY <2>1, <2>2, <2>3 DEF SilenceInv, SilentGone, Stopping
  <2> QED
    BY <2>3, <2>4, <2>5 DEF SilenceInv
<1> QED
  BY <1>1, <1>2, <1>3, <1>4, ControlStep, NeighborsStep

\* A neighbour that went silent is gone at most OldAge + TIMEHELLO seconds after its last
\* hello, and the delay of select(): no other event keeps a hello round from coming in
\* time, and none of the removals of the round is skipped (main.c, send_goaway_asymetrical).
THEOREM PeerSilentGone == Spec => []SilentGone
<1>1. Init => SilenceInv
  BY DEF Init, T!TablesInit, SilenceInv, SilentGone
<1>2. SilenceInv => SilentGone
  BY DEF SilenceInv
<1> QED
  BY <1>1, <1>2, SilenceNext, ClockInvariant, TablesInherited, PTL DEF Spec
-----------------------------------------------------------------------------
(***************************************************************************)
(* Transmissions are on time.  A pass leaves no entry behind that is due,  *)
(* and takes the date of every first transmission it leaves behind into    *)
(* NEXTTIME, so select() returns in time for it; for a retransmission it   *)
(* returns at the latest for the next hello round.                         *)
(***************************************************************************)
Entries(F0) ==
  UNION {FP!EntriesOf(F0[f].sym_neighbors) : f \in 1..Len(F0)}

\* What holds of an entry at each control point.
Punctual(e) ==
  /\ Uptime < e.wait_time
  /\ pc = "select" /\ e.times_sent = 0 => deadline <= e.wait_time
  /\ pc \in BeforeRound => NEXTHELLO < e.wait_time + TIMEHELLO
  /\ now < e.wait_time + TIMEHELLO + MaxDelay
  /\ e.times_sent = 0 => now <= e.wait_time + MaxDelay

AllPunctual == \A e \in Entries(DATAF) : Punctual(e)

\* What holds of an entry that the pass has left behind.
LeftBehind(e) ==
  now < e.wait_time /\ (e.times_sent = 0 => NEXTTIME <= e.wait_time)

PassedInv ==
  pc = "pass" => \A f \in 1..Len(DATAF) :
    fi = 0 \/ f < fi => \A e \in FP!EntriesOf(DATAF[f].sym_neighbors) : LeftBehind(e)

LEMMA EntryTyped ==
  ASSUME NEW F0 \in Seq(FP!FloodEntry), NEW f \in 1..Len(F0),
         NEW e \in FP!EntriesOf(F0[f].sym_neighbors)
  PROVE  e.wait_time \in Nat
<1>1. PICK l : l = F0[f].sym_neighbors
  OBVIOUS
<1>2. F0[f] \in FP!FloodEntry
  OBVIOUS
<1>3. l \in Seq(FP!NgbEntry)
  BY <1>1, <1>2 DEF FP!FloodEntry
<1>4. e \in FP!NgbEntry
  BY <1>1, <1>3 DEF FP!EntriesOf
<1> QED
  BY <1>4 DEF FP!NgbEntry

\* The steps inside a pass.
LEMMA IntoPass ==
  ASSUME [PeerNext]_vars, pc' = "pass"
  PROVE  \/ StartPass \/ GiveUp \/ (\E w \in 1..F!MaxWait : Transmit(w))
         \/ Later \/ EndOfList \/ UNCHANGED vars
<1>1. ~(Wait \/ Timeout \/ Readable \/ Disconnect \/ Receive)
  BY DEF Wait, Timeout, Readable, Disconnect, Receive, RecvHello, RecvNeighbour, RecvData,
         RecvAck, RecvGoaway, Handling
<1>2. Turn => \/ StartPass \/ GiveUp \/ (\E w \in 1..F!MaxWait : Transmit(w))
              \/ Later \/ EndOfList
  BY DEF Turn, Greet, EndOfDatagram, NoHelloRound, HelloRound, SendSymetrical,
         EndOfSymetrical, SendGoaway, RemoveOldPotential, SendShortHello, EndOfTurn,
         ReadLine, Exit
<1> QED
  BY <1>1, <1>2 DEF PeerNext, Stopped

LEMMA PassedNext ==
  ASSUME FP!WalkInv, ClockInv, PassedInv, [PeerNext]_vars
  PROVE  PassedInv'
<1> SUFFICES ASSUME pc' = "pass", NEW f \in 1..Len(DATAF'), fi' = 0 \/ f < fi',
                    NEW e \in FP!EntriesOf(DATAF'[f].sym_neighbors)
             PROVE  LeftBehind(e)'
  BY DEF PassedInv
<1>0. /\ FP!FloodTypes /\ now \in Nat /\ NEXTTIME \in Nat /\ fi \in Nat
      /\ Len(DATAF) \in Nat /\ DATAF \in Seq(FP!FloodEntry)
  BY DEF FP!WalkInv, FP!FloodTypes, FP!FloodTypeOK, ClockInv
<1>1. CASE StartPass
  <2>1. FP!flood_messages
    BY <1>1, SamePass DEF StartPass
  <2> QED
    BY <1>0, <2>1 DEF FP!flood_messages, FP!Enter
<1>2. CASE GiveUp \/ \E w \in 1..F!MaxWait : Transmit(w)
  <2>1. FP!handle_inactive \/ \E w \in 1..FP!MaxWait : FP!send_data(w)
    BY <1>2, SamePass, SameSend DEF GiveUp, Transmit
  <2>2. /\ UNCHANGED <<fi, now>> /\ fi # 0 /\ f \in 1..Len(DATAF)
        /\ e \in FP!EntriesOf(DATAF[f].sym_neighbors) \/ FP!Past(e)
    BY <1>0, <2>1, FloodConstants, FP!PassEntries
  <2>3. NEXTTIME' = NEXTTIME /\ pc = "pass"
    BY <1>2 DEF GiveUp, InPass, Transmit, KeepLoop, timers
  <2> QED
    BY <2>2, <2>3 DEF PassedInv, LeftBehind, FP!Past
<1>3. CASE Later \/ EndOfList
  <2>1. FP!not_due \/ FP!end_of_list
    BY <1>3, SamePass DEF Later, EndOfList
  <2>2. fi # 0 /\ UNCHANGED <<DATAF, now>> /\ pc = "pass"
    BY <1>3, <2>1 DEF FP!not_due, FP!end_of_list, FP!Visiting, Later, EndOfList, InPass
  <2>3. /\ NEXTTIME' \in Nat /\ NEXTTIME' <= NEXTTIME
        /\ FP!not_due => NEXTTIME' <= FP!nw.wait_time
    <3>1. CASE Later
      <4>1. F!nw.wait_time \in Nat /\ F!nw = FP!nw
        BY <1>0, <3>1, VisitedDate, SameVisit DEF Later, F!not_due
      <4> QED
        BY <1>0, <3>1, <4>1 DEF Later
    <3>2. CASE EndOfList
      <4>1. tmp = NULL /\ NEXTTIME' = NEXTTIME
        BY <3>2 DEF EndOfList, F!end_of_list
      <4>2. ~FP!not_due
        <5>1. SUFFICES ASSUME FP!Visiting PROVE FALSE
          BY DEF FP!not_due
        <5>2. FP!nw \in FP!NgbEntry /\ FP!nw.sym = tmp
          BY <1>0, <5>1, FloodConstants, FP!VisitedTyped
        <5> QED
          BY <4>1, <5>2, PeerAssumption DEF FP!NgbEntry
      <4> QED
        BY <1>0, <4>1, <4>2
    <3> QED
      BY <1>3, <3>1, <3>2
  <2>4. e.wait_time \in Nat
    BY <1>0, <2>2, EntryTyped
  <2>5. CASE f < fi
    <3>1. LeftBehind(e)
      BY <2>2, <2>5 DEF PassedInv
    <3> QED
      BY <1>0, <2>2, <2>3, <2>4, <3>1 DEF LeftBehind
  <2>6. CASE ~(f < fi)
    <3>1. /\ now < e.wait_time
          /\ e.times_sent = 0 => FP!not_due /\ FP!nw.wait_time <= e.wait_time
      BY <2>1, <2>2, <2>6, FloodConstants, FP!LeftEntries
    <3>2. e.times_sent = 0 => FP!nw.wait_time \in Nat
      <4>1. FP!not_due => FP!nw \in FP!NgbEntry
        BY <1>0, FloodConstants, FP!VisitedTyped DEF FP!not_due
      <4> QED
        BY <3>1, <4>1 DEF FP!NgbEntry
    <3> QED
      BY <2>2, <2>3, <2>4, <3>1, <3>2 DEF LeftBehind
  <2> QED
    BY <2>5, <2>6
<1>4. CASE UNCHANGED vars
  BY <1>4 DEF vars, tables, flood, timers, PassedInv, LeftBehind
<1> QED
  BY <1>1, <1>2, <1>3, <1>4, IntoPass

\* The entries that were there before a step.
LEMMA OldPunctual ==
  ASSUME ClockInv, ClockInv', now \in Nat, AllPunctual, PassedInv, [PeerNext]_vars,
         NEW f \in 1..Len(DATAF), NEW e \in FP!EntriesOf(DATAF[f].sym_neighbors),
         e.wait_time \in Nat
  PROVE  Punctual(e)'
<1>0. /\ NEXTHELLO \in Nat /\ deadline \in Nat /\ NEXTTIME \in Nat /\ MaxDelay \in Nat
      /\ TIMEHELLO \in Nat \ {0} /\ Uptime \in Nat
  BY PeerAssumption DEF ClockInv
<1>1. Punctual(e)
  BY DEF AllPunctual, Entries
<1>2. pc \in Stopping => pc' \in Stopping
  BY StaysStopped
<1> USE DEF BeforeRound, AfterRound, Stopping
<1>3. CASE Wait
  <2>1. /\ pc = "select" /\ pc' = pc /\ now < deadline + MaxDelay /\ now' = now + 1
        /\ UNCHANGED <<NEXTHELLO, NEXTTIME, deadline>>
    BY <1>3 DEF Wait, T!Tick, KeepLoop, timers
  <2>2. now' <= NEXTHELLO + MaxDelay \/ (NEXTHELLO = 0 /\ now' <= Uptime + MaxDelay)
    BY <2>1 DEF ClockInv
  <2>3. /\ Uptime < e.wait_time /\ (e.times_sent = 0 => deadline <= e.wait_time)
        /\ NEXTHELLO < e.wait_time + TIMEHELLO
    BY <1>1, <2>1 DEF Punctual
  <2>4. /\ now' < e.wait_time + TIMEHELLO + MaxDelay
        /\ e.times_sent = 0 => now' <= e.wait_time + MaxDelay
    BY <1>0, <2>1, <2>2, <2>3
  <2> QED
    BY <2>1, <2>3, <2>4 DEF Punctual
<1>4. CASE EndOfSymetrical
  <2>1. pc' = "goaway" /\ pc = "symetrical" /\ UNCHANGED now
    BY <1>4 DEF EndOfSymetrical, tables
  <2> QED
    BY <1>1, <2>1 DEF Punctual
<1>5. CASE Later
  <2>1. pc' = "pass" /\ pc = "pass" /\ UNCHANGED now
    BY <1>5 DEF Later, InPass, tables
  <2> QED
    BY <1>1, <2>1 DEF Punctual
<1>6. CASE EndOfTurn
  <2>1. /\ pc = "pass" /\ pc' = "select" /\ fi = 0 /\ UNCHANGED <<now, NEXTHELLO>>
        /\ deadline' = LET earliest == IF NEXTTIME < NEXTHELLO THEN NEXTTIME ELSE NEXTHELLO
                       IN  IF earliest < now THEN now ELSE earliest
    BY <1>6 DEF EndOfTurn, tables
  <2>2. LeftBehind(e)
    BY <2>1 DEF PassedInv
  <2>3. e.times_sent = 0 => deadline' <= e.wait_time
    BY <1>0, <2>1, <2>2 DEF LeftBehind
  <2>4. NEXTHELLO <= now + TIMEHELLO
    BY DEF ClockInv
  <2> QED
    BY <1>0, <1>1, <2>1, <2>2, <2>3, <2>4 DEF LeftBehind, Punctual
<1>7. CASE Moves
  <2>1. UNCHANGED <<now, NEXTHELLO, deadline>>
    BY <1>7 DEF Moves, timers
  <2> QED
    BY <1>1, <1>2, <1>7, <2>1 DEF Moves, Punctual
<1> QED
  BY <1>3, <1>4, <1>5, <1>6, <1>7, ControlStep

\* Nothing happens to DATAF when select() is called.
LEMMA IntoSelect ==
  ASSUME [PeerNext]_vars, pc' = "select"
  PROVE  DATAF' = DATAF
<1>1. CASE Wait \/ EndOfTurn
  BY <1>1 DEF Wait, EndOfTurn, flood
<1>2. CASE UNCHANGED vars
  BY <1>2 DEF vars, flood
<1>3. ~(Timeout \/ Readable \/ Disconnect \/ Receive)
  BY DEF Timeout, Readable, Disconnect, Receive, RecvHello, RecvNeighbour, RecvData,
         RecvAck, RecvGoaway, Handling
<1>4. Turn => EndOfTurn
  BY DEF Turn, Greet, EndOfDatagram, NoHelloRound, HelloRound, SendSymetrical,
         EndOfSymetrical, SendGoaway, RemoveOldPotential, SendShortHello, StartPass,
         GiveUp, Transmit, Later, EndOfList, ReadLine, InPass, Exit
<1> QED
  BY <1>1, <1>2, <1>3, <1>4 DEF PeerNext, Stopped

LEMMA PunctualNext ==
  ASSUME FP!FloodTypes, now >= Uptime, LoopInv, ClockInv, ClockInv', AllPunctual, PassedInv,
         [PeerNext]_vars
  PROVE  AllPunctual'
<1> SUFFICES ASSUME NEW f \in 1..Len(DATAF'),
                    NEW e \in FP!EntriesOf(DATAF'[f].sym_neighbors)
             PROVE  Punctual(e)'
  BY DEF AllPunctual, Entries
<1>0. /\ now \in Nat /\ Uptime \in Nat /\ NEXTHELLO' \in Nat /\ TIMEHELLO \in Nat
      /\ MaxDelay \in Nat /\ DATAF \in Seq(FP!FloodEntry)
  BY PeerAssumption DEF FP!FloodTypes, FP!FloodTypeOK, ClockInv
<1>1. [FP!FloodNext]_(FP!floodVars)
  BY FloodStep, SameFloodSteps
<1>2. FP!FloodTypes'
  BY <1>1, FloodConstants, FP!DataStep
<1>3. \/ \E g \in 1..Len(DATAF) : e \in FP!EntriesOf(DATAF[g].sym_neighbors)
      \/ DATAF' # DATAF /\ UNCHANGED now /\ now < e.wait_time
  BY <1>1, FloodConstants, FP!EntryStep
<1>4. ASSUME NEW g \in 1..Len(DATAF), e \in FP!EntriesOf(DATAF[g].sym_neighbors)
      PROVE  Punctual(e)'
  BY <1>0, <1>4, EntryTyped, OldPunctual
<1>5. CASE DATAF' # DATAF /\ UNCHANGED now /\ now < e.wait_time
  <2>1. PICK t \in Nat : t = e.wait_time
    <3>1. PICK F0 \in Seq(FP!FloodEntry) : F0 = DATAF'
      BY <1>2 DEF FP!FloodTypes, FP!FloodTypeOK
    <3>2. f \in 1..Len(F0) /\ e \in FP!EntriesOf(F0[f].sym_neighbors)
      BY <3>1
    <3> QED
      BY <3>2, EntryTyped
  <2>2. pc' # "select"
    BY <1>5, IntoSelect
  <2>3. NEXTHELLO' <= now + TIMEHELLO
    BY <1>5 DEF ClockInv
  <2> QED
    BY <1>0, <1>5, <2>1, <2>2, <2>3 DEF Punctual
<1> QED
  BY <1>3, <1>4, <1>5

\* A round of the loop, with the delay of select() and the longest delay of a transmission,
\* is shorter than the dates that a short tells apart: 62 seconds and that delay.
ShortRounds == TIMEHELLO + MaxDelay + FP!MaxWait <= FP!ShortMax

\* So no entry is ever as late as the comparison of dates must not meet.
LEMMA PunctualPrompt ==
  ASSUME ShortRounds, FP!FloodTypes, AllPunctual
  PROVE  FP!Prompt
<1> SUFFICES ASSUME NEW f \in 1..Len(DATAF), NEW e \in FP!EntriesOf(DATAF[f].sym_neighbors)
             PROVE  now + FP!MaxWait <= e.wait_time + FP!ShortMax
  BY DEF FP!Prompt
<1>1. now < e.wait_time + TIMEHELLO + MaxDelay
  BY DEF AllPunctual, Entries, Punctual
<1>2. now \in Nat /\ TIMEHELLO \in Nat /\ MaxDelay \in Nat /\ DATAF \in Seq(FP!FloodEntry)
  BY PeerAssumption DEF FP!FloodTypes, FP!FloodTypeOK
<1>3. e.wait_time \in Nat
  BY <1>2, EntryTyped
<1>4. FP!MaxWait \in Nat /\ FP!ShortMax \in Nat
  BY FloodConstants, FP!MaxWaitPositive DEF FP!ShortMax
<1> QED
  BY <1>1, <1>2, <1>3, <1>4 DEF ShortRounds

\* The walk over the lists and the dates of the loop hold each other up: the lists are sorted
\* because the loop comes round in time, and it does because a pass leaves nothing that is
\* due behind.
LEMMA PunctualInvariant ==
  ASSUME ShortRounds
  PROVE  Spec /\ []FP!NoZeroDate => [](FP!WalkInv /\ FP!Prompt /\ AllPunctual /\ PassedInv)
<1>1. Init => FP!WalkInv /\ AllPunctual /\ PassedInv
  <2>1. Init => FP!FloodInit
    BY DEF Init, T!TablesInit, FP!FloodInit
  <2>2. FP!FloodInit => FP!WalkInv
    BY FloodConstants, FP!WalkInit
  <2> QED
    BY <2>1, <2>2 DEF Init, AllPunctual, Entries, PassedInv
<1>2. FP!WalkInv /\ AllPunctual => FP!Prompt
  BY PunctualPrompt DEF FP!WalkInv
<1>3. /\ FP!WalkInv /\ FP!NoZeroDate /\ LoopInv /\ LoopInv' /\ AllPunctual /\ [PeerNext]_vars
      => FP!WalkInv'
  <2> SUFFICES ASSUME FP!WalkInv, FP!NoZeroDate, LoopInv, LoopInv', AllPunctual, [PeerNext]_vars
               PROVE  FP!WalkInv'
    OBVIOUS
  <2>1. [FP!FloodNext]_(FP!floodVars)
    BY FloodStep, SameFloodSteps
  <2> QED
    BY <1>2, <2>1, FloodConstants, FP!WalkNext
<1>4. /\ FP!WalkInv /\ now >= Uptime /\ LoopInv /\ ClockInv /\ ClockInv'
      /\ AllPunctual /\ PassedInv /\ [PeerNext]_vars
      => AllPunctual' /\ PassedInv'
  BY PunctualNext, PassedNext DEF FP!WalkInv
<1> QED
  BY <1>1, <1>2, <1>3, <1>4, LoopInvariant, ClockInvariant, TablesInherited, PTL DEF Spec

\* As long as no date is a multiple of 2^16, the first transmission of a datum to a neighbour
\* is at most the delay of select() late, whatever wakes the loop in between and resets
\* NEXTTIME (flood_messages, main.c).
THEOREM PeerFirstTransmissionOnTime ==
  ASSUME ShortRounds
  PROVE  Spec /\ []FP!NoZeroDate => []FirstTransmissionOnTime
<1>1. AllPunctual => FirstTransmissionOnTime
  BY DEF AllPunctual, Entries, Punctual, FirstTransmissionOnTime, EveryEntry, FP!EntriesOf
<1> QED
  BY <1>1, PunctualInvariant, PTL

\* Until then a retransmission is less than TIMEHELLO seconds late, and the delay of
\* select(), although its date is never taken into NEXTTIME (flood_messages, main.c).
THEOREM PeerRetransmissionBeforeHello ==
  ASSUME ShortRounds
  PROVE  Spec /\ []FP!NoZeroDate => []RetransmissionBeforeHello
<1>1. AllPunctual => RetransmissionBeforeHello
  BY DEF AllPunctual, Entries, Punctual, RetransmissionBeforeHello, EveryEntry,
         FP!EntriesOf
<1> QED
  BY <1>1, PunctualInvariant, PTL

\* And until then, however long the process runs, every entry points to a neighbour in the
\* tree, the lists are sorted, no neighbour is in a list twice and the cursor of a pass is in
\* its list: the loop never lets an entry get as late as FloodList alone must exclude.
THEOREM PeerListsSound ==
  ASSUME ShortRounds
  PROVE  Spec /\ []FP!NoZeroDate =>
           [](FP!NoDangling /\ FP!SortedByDate /\ FP!OneEntryPerNeighbor /\ FP!CursorValid)
<1>1. FP!WalkInv => FP!NoDangling /\ FP!OneEntryPerNeighbor /\ FP!CursorValid
  BY FloodConstants, FP!FloodInvImplies DEF FP!WalkInv
<1>2. FP!WalkInv => FP!SortedByDate
  BY FloodConstants, FP!WalkSorted
<1> QED
  BY <1>1, <1>2, PunctualInvariant, PTL
-----------------------------------------------------------------------------
(***************************************************************************)
(* The output buffers.                                                     *)
(***************************************************************************)
LEMMA Sizes ==
  /\ Size(ShortHello) = 10 /\ ShortHello \in Tlv
  /\ \A i \in Id : Size(LongHello(i)) = 18 /\ LongHello(i) \in Tlv
  /\ \A a \in Addr : Neighbour(a) \in Tlv
  /\ \A d \in Data : Size(Ack(d)) = 14 /\ Ack(d) \in Tlv
  /\ \A d \in Data : Size(DataTlv(d)) = Length[d] + 2 /\ DataTlv(d) \in Tlv
  /\ Size(Goaway(1)) = 23 /\ Goaway(1) \in Tlv
  /\ Size(Goaway(2)) = 3 /\ Goaway(2) \in Tlv
  /\ Size(Goaway(3)) = 27 /\ Goaway(3) \in Tlv
<1>1. Size(ShortHello) = 10 /\ ShortHello \in Tlv
  BY DEF Size, ShortHello, Tlv
<1>2. \A i \in Id : Size(LongHello(i)) = 18 /\ LongHello(i) \in Tlv
  BY DEF Size, LongHello, Tlv
<1>3. \A a \in Addr : Neighbour(a) \in Tlv
  BY DEF Neighbour, Tlv
<1>4. \A d \in Data : Size(Ack(d)) = 14 /\ Ack(d) \in Tlv
  BY DEF Size, Ack, Tlv
<1>5. \A d \in Data : Size(DataTlv(d)) = Length[d] + 2 /\ DataTlv(d) \in Tlv
  BY DEF Size, DataTlv, Tlv
<1>6. \A c \in 1..3 : Size(Goaway(c)) = <<23, 3, 27>>[c] /\ Goaway(c) \in Tlv
  BY DEF Size, Goaway, Tlv
<1> QED
  BY <1>1, <1>2, <1>3, <1>4, <1>5, <1>6

LEMMA SingleMessage ==
  ASSUME NEW t \in Tlv, Size(t) \in Nat
  PROVE  Single(t) \in O!Message
BY DEF Single, O!Message

LEMMA NeighbourListMessage ==
  ASSUME NEW S \in SUBSET Addr, NEW q \in F!InOrder(S)
  PROVE  /\ NeighbourList(q) \in O!Message
         /\ NeighbourList(q).body_length = 20 * Cardinality(S)
         /\ q \in [1..Cardinality(S) -> Addr] /\ Cardinality(S) \in Nat
<1>1. Cardinality(S) \in Nat
  BY PeerAssumption, FS_Subset, FS_CardinalityType
<1>2. PICK n \in Nat : n = Cardinality(S)
  BY <1>1
<1>3. F!Cardinality(S) = n
  BY <1>2 DEF F!Cardinality, Cardinality
<1>4. q \in [1..n -> Addr] /\ DOMAIN q = 1..n
  BY <1>3 DEF F!InOrder
<1>5. Len(q) = n /\ 20 * n \in Nat
  BY <1>4
<1>6. [i \in DOMAIN q |-> Neighbour(q[i])] \in Seq(Tlv)
  <2>1. [i \in DOMAIN q |-> Neighbour(q[i])] \in [1..n -> Tlv]
    BY <1>4, Sizes
  <2> QED
    BY <2>1
<1> QED
  BY <1>2, <1>4, <1>5, <1>6 DEF NeighbourList, O!Message

\* The messages in the buffers.
Buffers == \A a \in DOMAIN msg : msg[a] \in O!Message

LEMMA AddMessage ==
  ASSUME NEW m \in O!Message, NEW b \in O!Message
  PROVE  /\ O!Pushed(m, b) \in O!Message
         /\ O!Pushed(m, b) = b \/ (/\ O!Pushed(m, b).body_length = m.body_length + b.body_length
                                   /\ O!Pushed(m, b).body = m.body \o b.body)
<1>1. /\ m.body_length \in Nat /\ b.body_length \in Nat
      /\ m.body \in Seq(Tlv) /\ b.body \in Seq(Tlv)
  BY DEF O!Message
<1>2. CASE O!Full(m, b)
  BY <1>2 DEF O!Pushed
<1>3. CASE ~O!Full(m, b)
  <2>1. O!Pushed(m, b) = O!Add(m, b)
    BY <1>3 DEF O!Pushed
  <2>2. PICK n, c : n = m.body_length + b.body_length /\ c = m.body \o b.body
    OBVIOUS
  <2>3. n \in Nat /\ c \in Seq(Tlv)
    BY <1>1, <2>2
  <2>4. O!Add(m, b) = [body_length |-> n, body |-> c]
    BY <2>2 DEF O!Add
  <2> QED
    BY <2>1, <2>2, <2>3, <2>4 DEF O!Message
<1> QED
  BY <1>2, <1>3

LEMMA SendBuffers ==
  ASSUME Buffers, NEW buf, O!send_message(buf), \A a \in DOMAIN buf : buf[a] \in O!Message
  PROVE  Buffers'
<1>1. \A a \in DOMAIN msg : a \in DOMAIN buf => msg'[a] = O!Pushed(msg[a], buf[a])
  BY DEF O!send_message
<1>2. \A a \in DOMAIN msg : a \notin DOMAIN buf => msg'[a] = msg[a]
  BY DEF O!send_message
<1>3. DOMAIN msg' = DOMAIN msg
  BY DEF O!send_message
<1> QED
  BY <1>1, <1>2, <1>3, AddMessage DEF Buffers

LEMMA EmptyMessage == O!Empty \in O!Message
BY DEF O!Empty, O!Message

\* What the loop gives to send_message().
LEMMA LongHelloMessages ==
  ASSUME T!TablesTypeOK, NEW a \in DOMAIN NEIGHBORS
  PROVE  LongHellos[a] \in {Single(LongHello(i)) : i \in Id}
<1>1. NEIGHBORS[a] \in T!Ident
  BY DEF T!TablesTypeOK, T!IsTable
<1> QED
  BY <1>1 DEF T!Ident, LongHellos

\* The TLVs that Transmit puts into the buffer.
DataMessage(d) ==
  [body_length |-> BodyLength(d),
   body |-> IF BodyLength(d) = Size(DataTlv(d)) THEN <<DataTlv(d)>> ELSE <<>>]

LEMMA DataMessageTyped ==
  ASSUME NEW d \in Data, ~(BodyLength(d) < 0)
  PROVE  DataMessage(d) \in O!Message
<1>1. Length[d] \in 0..255
  BY PeerAssumption
<1>2. BodyLength(d) \in Int
  BY <1>1 DEF BodyLength, Signed8
<1>3. BodyLength(d) \in Nat
  BY <1>2
<1>4. DataTlv(d) \in Tlv
  BY Sizes
<1> QED
  BY <1>3, <1>4 DEF DataMessage, O!Message

LEMMA TransmitSends ==
  ASSUME FP!FloodTypes, NEW w, Transmit(w)
  PROVE  \E d \in Data :
           \/ BodyLength(d) < 0 /\ O!quiet /\ pc' = "crash"
           \/ /\ ~(BodyLength(d) < 0) /\ pc' = pc
              /\ O!send_message([a \in {tmp} |-> DataMessage(d)])
<1>1. F!Visiting
  BY DEF Transmit, F!send_data
<1>2. fi \in 1..Len(DATAF)
  BY <1>1, SameVisit, FloodConstants, FP!VisitedTyped
<1>3. DATAF[fi] \in FP!FloodEntry
  BY <1>2 DEF FP!FloodTypes, FP!FloodTypeOK
<1>4. PICK d \in Data : d = DATAF[fi].index
  BY <1>3 DEF FP!FloodEntry
<1> QED
  BY <1>4 DEF Transmit, DataMessage

LEMMA BuffersNext ==
  T!TablesTypeOK /\ FP!FloodTypes /\ LoopInv /\ Buffers /\ [PeerNext]_vars => Buffers'
<1> SUFFICES ASSUME T!TablesTypeOK, FP!FloodTypes, LoopInv, Buffers, [PeerNext]_vars
             PROVE  Buffers'
  OBVIOUS
<1>a. ASSUME UNCHANGED msg PROVE Buffers'
  BY <1>a DEF Buffers
<1>b. ASSUME O!quiet PROVE Buffers'
  BY <1>a, <1>b DEF O!quiet
<1>1. CASE Wait \/ Timeout \/ Readable \/ EndOfDatagram \/ NoHelloRound \/ EndOfSymetrical
           \/ RemoveOldPotential \/ StartPass \/ Later \/ EndOfList
  BY <1>1, <1>b DEF Wait, Timeout, Readable, EndOfDatagram, NoHelloRound, EndOfSymetrical,
         RemoveOldPotential, StartPass, Later, EndOfList
<1>2. ASSUME NEW i, NEW dest, RecvHello(i, dest) PROVE Buffers'
  BY <1>2, <1>b, EmptyMessage DEF RecvHello, O!open, Buffers
<1>3. ASSUME NEW a, RecvNeighbour(a) PROVE Buffers'
  BY <1>3, <1>b DEF RecvNeighbour
<1>4. ASSUME NEW d, RecvData(d) \/ RecvAck(d) \/ ReadLine(d) PROVE Buffers'
  BY <1>4, <1>a, <1>b DEF RecvData, RecvAck, ReadLine, O!send_message_now
<1>5. CASE RecvGoaway
  BY <1>5 DEF RecvGoaway, O!close, Buffers
<1>6. CASE Greet \/ HelloRound
  <2>1. O!send_message(LongHellos)
    BY <1>6 DEF Greet, HelloRound
  <2>2. \A a \in DOMAIN LongHellos : LongHellos[a] \in O!Message
    <3>1. \A i \in Id : Single(LongHello(i)) \in O!Message
      BY Sizes, SingleMessage
    <3> QED
      BY <3>1, LongHelloMessages DEF LongHellos
  <2> QED
    BY <2>1, <2>2, SendBuffers
<1>7. CASE SendSymetrical
  <2>1. PICK S \in SUBSET todo : \E q \in F!InOrder(S) :
          O!send_message([a \in DOMAIN NEIGHBORS |-> NeighbourList(q)])
    BY <1>7 DEF SendSymetrical
  <2>2. PICK q \in F!InOrder(S) :
          O!send_message([a \in DOMAIN NEIGHBORS |-> NeighbourList(q)])
    BY <2>1
  <2>3. S \in SUBSET Addr
    BY DEF LoopInv
  <2>4. NeighbourList(q) \in O!Message
    BY <2>3, NeighbourListMessage
  <2>5. PICK buf : buf = [a \in DOMAIN NEIGHBORS |-> NeighbourList(q)]
    OBVIOUS
  <2> QED
    BY <2>2, <2>4, <2>5, SendBuffers
<1>8. ASSUME NEW a, SendGoaway(a) PROVE Buffers'
  BY <1>8 DEF SendGoaway, O!send_message_close, Buffers
<1>9. CASE GiveUp
  BY <1>9 DEF GiveUp, O!send_message_close, Buffers
<1>10. CASE SendShortHello
  BY <1>10, <1>a, <1>b DEF SendShortHello, O!send_message_now
<1>11. ASSUME NEW w, Transmit(w) PROVE Buffers'
  <2>1. PICK d \in Data :
           \/ BodyLength(d) < 0 /\ O!quiet /\ pc' = "crash"
           \/ /\ ~(BodyLength(d) < 0) /\ pc' = pc
              /\ O!send_message([a \in {tmp} |-> DataMessage(d)])
    BY <1>11, TransmitSends
  <2>2. PICK buf : buf = [a \in {tmp} |-> DataMessage(d)]
    OBVIOUS
  <2>3. CASE O!send_message(buf) /\ ~(BodyLength(d) < 0)
    BY <2>2, <2>3, DataMessageTyped, SendBuffers
  <2> QED
    BY <1>b, <2>1, <2>2, <2>3
<1>12. CASE EndOfTurn \/ Exit
  BY <1>12, EmptyMessage DEF EndOfTurn, Exit, O!send_to_everyone_now, Buffers
<1>13. CASE Disconnect
  <2>1. PICK buf : buf = [a \in DOMAIN NEIGHBORS |-> Single(Goaway(1))]
    OBVIOUS
  <2>2. Single(Goaway(1)) \in O!Message
    BY Sizes, SingleMessage
  <2>3. \A a \in DOMAIN buf : buf[a] \in O!Message
    BY <2>1, <2>2
  <2> QED
    BY <1>13, <2>1, <2>3, SendBuffers DEF Disconnect
<1>14. CASE UNCHANGED vars
  BY <1>14, <1>a DEF vars, outbox
<1> QED
  BY <1>1, <1>2, <1>3, <1>4, <1>5, <1>6, <1>7, <1>8, <1>9, <1>10, <1>11, <1>12, <1>13,
     <1>14
  DEF PeerNext, Receive, Turn, Stopped

LEMMA BuffersInvariant == Spec => []Buffers
<1>1. Init => Buffers
  BY DEF Init, Buffers
<1> QED
  BY <1>1, BuffersNext, LoopInvariant, TablesInherited, FloodTypesInherited, PTL DEF Spec

\* The goaway of disconnect() is in every buffer until the buffers leave.
Farewell ==
  pc = "bye" => \A a \in DOMAIN msg :
    Goaway(1) \in Range(msg[a].body) /\ msg[a].body_length # 0

LEMMA InLast ==
  ASSUME NEW s \in Seq(Tlv), NEW t \in Tlv, NEW r, r = s \o <<t>>
  PROVE  t \in Range(r)
<1>1. r[Len(s) + 1] = t /\ Len(s) + 1 \in DOMAIN r
  OBVIOUS
<1> QED
  BY <1>1 DEF Range

LEMMA FarewellNext == Buffers /\ LoopInv /\ Farewell /\ [PeerNext]_vars => Farewell'
<1> SUFFICES ASSUME Buffers, LoopInv, Farewell, [PeerNext]_vars, pc' = "bye"
             PROVE  \A a \in DOMAIN msg' :
                      Goaway(1) \in Range(msg'[a].body) /\ msg'[a].body_length # 0
  BY DEF Farewell
<1>1. CASE Disconnect
  <2>1. PICK g : g = Single(Goaway(1))
    OBVIOUS
  <2>2. /\ g \in O!Message /\ g.body_length = 23 /\ g.body = <<Goaway(1)>>
        /\ Goaway(1) \in Tlv
    BY <2>1, Sizes, SingleMessage DEF Single
  <2>3. PICK buf : buf = [a \in DOMAIN NEIGHBORS |-> g]
    OBVIOUS
  <2>4. O!send_message(buf)
    BY <1>1, <2>1, <2>3 DEF Disconnect
  <2>5. DOMAIN msg' = DOMAIN msg /\ \A a \in DOMAIN msg : msg'[a] = O!Pushed(msg[a], g)
    BY <2>3, <2>4 DEF O!send_message, LoopInv, BufferPerNeighbor
  <2> SUFFICES ASSUME NEW a \in DOMAIN msg
               PROVE  Goaway(1) \in Range(msg'[a].body) /\ msg'[a].body_length # 0
    BY <2>5
  <2>6. PICK m \in O!Message : m = msg[a]
    BY DEF Buffers
  <2>7. m.body_length \in Nat /\ m.body \in Seq(Tlv)
    BY DEF O!Message
  <2>8. CASE msg'[a] = g
    <3>1. 1 \in DOMAIN <<Goaway(1)>> /\ <<Goaway(1)>>[1] = Goaway(1)
      OBVIOUS
    <3>2. Goaway(1) \in Range(<<Goaway(1)>>)
      BY <3>1 DEF Range
    <3> QED
      BY <2>2, <2>8, <3>2
  <2>9. CASE /\ msg'[a].body_length = m.body_length + g.body_length
             /\ msg'[a].body = m.body \o g.body
    <3>1. Goaway(1) \in Range(msg'[a].body)
      BY <2>2, <2>7, <2>9, InLast
    <3> QED
      BY <2>2, <2>7, <2>9, <3>1
  <2>10. PICK r : r = O!Pushed(m, g)
    OBVIOUS
  <2>11. r = g \/ (r.body_length = m.body_length + g.body_length /\ r.body = m.body \o g.body)
    BY <2>2, <2>10, AddMessage
  <2>12. msg'[a] = r
    BY <2>5, <2>6, <2>10
  <2> QED
    BY <2>8, <2>9, <2>11, <2>12
<1>2. CASE UNCHANGED vars
  BY <1>2 DEF vars, outbox, Farewell
<1>3. ~(Wait \/ Timeout \/ Readable \/ Receive)
  BY DEF Wait, Timeout, Readable, Receive, RecvHello, RecvNeighbour, RecvData,
         RecvAck, RecvGoaway, Handling
<1>4. ~Turn
  BY DEF Turn, Greet, EndOfDatagram, NoHelloRound, HelloRound, SendSymetrical,
         EndOfSymetrical, SendGoaway, RemoveOldPotential, SendShortHello, StartPass,
         GiveUp, Transmit, Later, EndOfList, EndOfTurn, ReadLine, InPass, Exit
<1> QED
  BY <1>1, <1>2, <1>3, <1>4 DEF PeerNext, Stopped

\* SIGINT: when the process ends, every neighbour is sent a goaway, wherever the loop
\* was interrupted and whatever was in the buffer of the neighbour (disconnect).
THEOREM PeerGoodbyeToAll == Spec => GoodbyeToAll
<1> DEFINE Told == pc' = "exit" /\ pc # "exit" => \A a \in DOMAIN NEIGHBORS :
                     \E d \in sent' : d.to = a /\ Goaway(1) \in Range(d.msg.body)
<1>1. Init => Farewell
  BY DEF Init, Farewell
<1>2. ASSUME LoopInv, Farewell, [PeerNext]_vars PROVE [Told]_vars
  <2> SUFFICES ASSUME pc' = "exit", pc # "exit", NEW a \in DOMAIN NEIGHBORS
               PROVE  \E d \in sent' : d.to = a /\ Goaway(1) \in Range(d.msg.body)
    OBVIOUS
  <2>1. ~(Wait \/ Timeout \/ Readable \/ Receive \/ Disconnect \/ Stopped)
    BY DEF Wait, Timeout, Readable, Receive, RecvHello, RecvNeighbour, RecvData,
           RecvAck, RecvGoaway, Handling, Disconnect, Stopped, vars
  <2>2. Turn => Exit
    BY DEF Turn, Greet, EndOfDatagram, NoHelloRound, HelloRound, SendSymetrical,
           EndOfSymetrical, SendGoaway, RemoveOldPotential, SendShortHello, StartPass,
           GiveUp, Transmit, Later, EndOfList, EndOfTurn, ReadLine, InPass
  <2>3. Exit
    BY <1>2, <2>1, <2>2 DEF PeerNext, vars
  <2>4. /\ a \in DOMAIN msg /\ Goaway(1) \in Range(msg[a].body) /\ msg[a].body_length # 0
    BY <1>2, <2>3 DEF Exit, Farewell, LoopInv, BufferPerNeighbor
  <2>5. O!Datagram(a, msg[a]) \in sent'
    BY <2>3, <2>4 DEF Exit, O!send_to_everyone_now
  <2>6. O!Datagram(a, msg[a]).to = a /\ O!Datagram(a, msg[a]).msg = msg[a]
    BY DEF O!Datagram
  <2> QED
    BY <2>4, <2>5, <2>6
<1> QED
  BY <1>1, <1>2, FarewellNext, BuffersInvariant, LoopInvariant, PTL DEF Spec, GoodbyeToAll
-----------------------------------------------------------------------------
\* Every message fits a datagram, and no datum has one of the two lengths that
\* send_data() turns into an empty or a truncated message: read through a char pointer,
\* 254 and 255 are -2 and -1.
MessagesFit ==
  /\ 31 <= PMTU
  /\ \A d \in Data : Length[d] < 254 /\ Length[d] + 6 <= PMTU

LEMMA SinglesFit ==
  /\ \A t \in Tlv : Single(t) \in Messages
  /\ \A t \in Tlv : Single(t).body_length = Size(t)
BY DEF Messages, Single

LEMMA NeighbourListsFit ==
  ASSUME MessagesFit, NEW S \in SUBSET Addr, NEW q \in F!InOrder(S),
         Cardinality(S) \in 1..PerMessage
  PROVE  NeighbourList(q) \in Messages
<1>1. q \in [1..Cardinality(S) -> Addr]
  BY NeighbourListMessage
<1> QED
  BY <1>1 DEF Messages, NeighbourLists

\* send_symetrical_everyone() never puts an empty list or too long a one into a message.
LEMMA ListLength ==
  ASSUME MessagesFit, LoopInv, todo # {}, NEW S \in SUBSET todo,
         Cardinality(S) = IF Cardinality(todo) < PerMessage
                          THEN Cardinality(todo) ELSE PerMessage
  PROVE  Cardinality(S) \in 1..PerMessage
<1>1. PerMessage \in Nat \ {0}
  BY PeerAssumption DEF PerMessage, MessagesFit
<1>2. todo \subseteq Addr
  BY DEF LoopInv
<1>3. IsFiniteSet(todo)
  BY <1>2, PeerAssumption, FS_Subset
<1>4. Cardinality(todo) \in Nat /\ Cardinality(todo) # 0
  BY <1>3, FS_CardinalityType, FS_EmptySet
<1> QED
  BY <1>1, <1>4

LEMMA DataMessageFits ==
  ASSUME MessagesFit, NEW d \in Data, ~(BodyLength(d) < 0)
  PROVE  DataMessage(d) \in Messages
<1>1. Length[d] \in 0..255 /\ Length[d] < 254
  BY PeerAssumption DEF MessagesFit
<1>2. BodyLength(d) = Length[d] + 2
  BY <1>1 DEF BodyLength, Signed8
<1>3. BodyLength(d) = Size(DataTlv(d)) /\ DataTlv(d) \in Tlv
  BY <1>2, Sizes
<1>4. DataMessage(d) = Single(DataTlv(d))
  BY <1>3 DEF DataMessage, Single
<1> QED
  BY <1>3, <1>4, SinglesFit

\* Every step of the loop is one operation of the buffers.
LEMMA OutboxStep ==
  ASSUME MessagesFit, T!TablesTypeOK, FP!FloodTypes, LoopInv, [PeerNext]_vars
  PROVE  [O!OutboxNext]_(O!outboxVars)
<1> SUFFICES ASSUME PeerNext, ~(UNCHANGED vars) PROVE O!OutboxNext
  BY DEF vars, outbox, O!outboxVars
<1>a. ASSUME O!quiet PROVE O!OutboxNext
  BY <1>a DEF O!OutboxNext
<1>b. ASSUME NEW buf, DOMAIN buf \subseteq DOMAIN msg, buf \in [DOMAIN buf -> Messages],
             O!send_message(buf)
      PROVE  O!OutboxNext
  BY <1>b DEF O!OutboxNext
<1>c. ASSUME NEW S \in SUBSET Addr, NEW m \in Messages, O!send_message_now(S, m)
      PROVE  O!OutboxNext
  BY <1>c DEF O!OutboxNext
<1>d. ASSUME NEW m \in Messages, NEW buf, buf = [a \in DOMAIN NEIGHBORS |-> m],
             O!send_message(buf)
      PROVE  O!OutboxNext
  <2>1. DOMAIN buf = DOMAIN NEIGHBORS /\ DOMAIN buf \subseteq DOMAIN msg
    BY <1>d DEF LoopInv, BufferPerNeighbor
  <2>2. buf \in [DOMAIN buf -> Messages]
    BY <1>d, <2>1
  <2> QED
    BY <1>b, <1>d, <2>1, <2>2
<1>1. CASE Wait \/ Timeout \/ Readable \/ EndOfDatagram \/ NoHelloRound \/ EndOfSymetrical
           \/ RemoveOldPotential \/ StartPass \/ Later \/ EndOfList
  BY <1>1, <1>a DEF Wait, Timeout, Readable, EndOfDatagram, NoHelloRound, EndOfSymetrical,
         RemoveOldPotential, StartPass, Later, EndOfList
<1>2. ASSUME NEW i, NEW dest, RecvHello(i, dest) PROVE O!OutboxNext
  <2>1. peer \in Addr /\ (O!quiet \/ O!open(peer))
    BY <1>2 DEF RecvHello, Handling, LoopInv
  <2> QED
    BY <2>1 DEF O!OutboxNext
<1>3. ASSUME NEW a, RecvNeighbour(a) PROVE O!OutboxNext
  BY <1>3, <1>a DEF RecvNeighbour
<1>4. ASSUME NEW d \in Data, RecvData(d) PROVE O!OutboxNext
  <2>1. {peer} \in SUBSET Addr /\ O!send_message_now({peer}, Single(Ack(d)))
    BY <1>4 DEF RecvData, Handling, LoopInv
  <2>2. Single(Ack(d)) \in Messages
    BY Sizes, SinglesFit
  <2> QED
    BY <1>c, <2>1, <2>2
<1>5. ASSUME NEW d, RecvAck(d) \/ ReadLine(d) PROVE O!OutboxNext
  BY <1>5, <1>a DEF RecvAck, ReadLine
<1>6. CASE RecvGoaway
  <2>1. peer \in Addr /\ O!close(peer)
    BY <1>6 DEF RecvGoaway, Handling, LoopInv
  <2> QED
    BY <2>1 DEF O!OutboxNext
<1>7. CASE Greet \/ HelloRound
  <2>1. O!send_message(LongHellos)
    BY <1>7 DEF Greet, HelloRound
  <2>2. \A a \in DOMAIN NEIGHBORS : LongHellos[a] \in Messages
    BY LongHelloMessages, Sizes, SinglesFit
  <2>3. DOMAIN LongHellos = DOMAIN NEIGHBORS
    BY DEF LongHellos
  <2>4. PICK buf : buf = LongHellos
    OBVIOUS
  <2>5. DOMAIN buf \subseteq DOMAIN msg /\ buf \in [DOMAIN buf -> Messages]
    BY <2>2, <2>3, <2>4 DEF LoopInv, BufferPerNeighbor, LongHellos
  <2> QED
    BY <1>b, <2>1, <2>4, <2>5
<1>8. CASE SendSymetrical
  <2>1. PICK S \in SUBSET todo :
          /\ Cardinality(S) = IF Cardinality(todo) < PerMessage
                              THEN Cardinality(todo) ELSE PerMessage
          /\ \E q \in F!InOrder(S) :
               O!send_message([a \in DOMAIN NEIGHBORS |-> NeighbourList(q)])
    BY <1>8 DEF SendSymetrical
  <2>2. PICK q \in F!InOrder(S) :
          O!send_message([a \in DOMAIN NEIGHBORS |-> NeighbourList(q)])
    BY <2>1
  <2>3. S \in SUBSET Addr /\ todo # {}
    BY <1>8 DEF LoopInv, SendSymetrical
  <2>4. Cardinality(S) \in 1..PerMessage
    BY <2>1, <2>3, ListLength
  <2>5. NeighbourList(q) \in Messages
    BY <2>3, <2>4, NeighbourListsFit
  <2>6. PICK m \in Messages : m = NeighbourList(q)
    BY <2>5
  <2> QED
    BY <1>d, <2>2, <2>6
<1>9. ASSUME NEW a \in Addr, SendGoaway(a) PROVE O!OutboxNext
  <2>1. Single(Goaway(2)) \in Messages /\ O!send_message_close(a, Single(Goaway(2)))
    BY <1>9, Sizes, SinglesFit DEF SendGoaway
  <2> QED
    BY <2>1 DEF O!OutboxNext
<1>10. CASE GiveUp
  <2>1. Single(Goaway(3)) \in Messages /\ O!send_message_close(tmp, Single(Goaway(3)))
    BY <1>10, Sizes, SinglesFit DEF GiveUp
  <2>2. tmp \in Addr
    BY <2>1 DEF O!send_message_close, LoopInv, BufferPerNeighbor
  <2> QED
    BY <2>1, <2>2 DEF O!OutboxNext
<1>11. CASE SendShortHello
  <2>1. Single(ShortHello) \in Messages
    BY Sizes, SinglesFit
  <2>2. DOMAIN POTENTIAL \in SUBSET Addr
    BY DEF T!TablesTypeOK, T!IsTable
  <2> QED
    BY <1>11, <1>a, <1>c, <2>1, <2>2 DEF SendShortHello
<1>12. ASSUME NEW w, Transmit(w) PROVE O!OutboxNext
  <2>1. PICK d \in Data :
           \/ BodyLength(d) < 0 /\ O!quiet /\ pc' = "crash"
           \/ /\ ~(BodyLength(d) < 0) /\ pc' = pc
              /\ O!send_message([a \in {tmp} |-> DataMessage(d)])
    BY <1>12, TransmitSends
  <2>2. PICK buf : buf = [a \in {tmp} |-> DataMessage(d)]
    OBVIOUS
  <2>3. CASE O!send_message(buf) /\ ~(BodyLength(d) < 0)
    <3>1. DataMessage(d) \in Messages
      BY <2>3, DataMessageFits
    <3>2. DOMAIN buf \subseteq DOMAIN msg
      BY <2>3 DEF O!send_message
    <3>3. buf \in [DOMAIN buf -> Messages]
      BY <2>2, <3>1
    <3> QED
      BY <1>b, <2>3, <3>2, <3>3
  <2> QED
    BY <1>a, <2>1, <2>2, <2>3
<1>13. CASE EndOfTurn \/ Exit
  BY <1>13 DEF EndOfTurn, Exit, O!OutboxNext
<1>14. CASE Disconnect
  <2>1. PICK m \in Messages : m = Single(Goaway(1))
    BY Sizes, SinglesFit
  <2> QED
    BY <1>d, <1>14, <2>1 DEF Disconnect
<1> QED
  BY <1>1, <1>2, <1>3, <1>4, <1>5, <1>6, <1>7, <1>8, <1>9, <1>10, <1>11, <1>12, <1>13,
     <1>14
  DEF PeerNext, Receive, Turn, Stopped

\* The loop and the handlers use the buffers only in the ways Outbox describes, and what
\* they put into them are messages that fit, unless a datum is 254 or 255 bytes long
\* (net_lib.c, tlv.c, util.c).
THEOREM PeerOutboxRefined ==
  ASSUME MessagesFit
  PROVE  Spec => OutboxRefined
<1>1. Init => O!OutboxInit
  <2> SUFFICES ASSUME Init PROVE O!OutboxInit
    OBVIOUS
  <2>1. Single(ShortHello) \in Messages
    BY Sizes, SinglesFit
  <2>2. sent \in SUBSET {O!Datagram(a, m) : a \in Addr, m \in Messages}
    BY <2>1, PeerAssumption DEF Init
  <2> QED
    BY <2>2 DEF Init, O!OutboxInit
<1>2. T!TablesTypeOK /\ FP!FloodTypes /\ LoopInv /\ [PeerNext]_vars
      => [O!OutboxNext]_(O!outboxVars)
  BY OutboxStep
<1> QED
  BY <1>1, <1>2, LoopInvariant, TablesInherited, FloodTypesInherited, PTL
  DEF Spec, OutboxRefined, O!OutboxSpec

LEMMA SameOutbox == O!OutboxSpec => OP!OutboxSpec
<1>1. O!OutboxInit => OP!OutboxInit
  BY DEF O!OutboxInit, OP!OutboxInit, O!Empty, OP!Empty, O!Datagram, OP!Datagram
<1>2. ASSUME NEW m, NEW b PROVE O!Pushed(m, b) = OP!Pushed(m, b) /\ (O!Full(m, b) <=> OP!Full(m, b))
  BY DEF O!Pushed, OP!Pushed, O!Full, OP!Full, O!Add, OP!Add, O!Header, OP!Header
<1>3. ASSUME NEW S, NEW b PROVE O!Overflow(S, b) = OP!Overflow(S, b)
  BY <1>2 DEF O!Overflow, OP!Overflow, O!Datagram, OP!Datagram
<1>4. ASSUME O!OutboxNext PROVE OP!OutboxNext
  <2>1. CASE O!quiet \/ O!send_to_everyone_now
    BY <2>1 DEF O!quiet, OP!quiet, O!send_to_everyone_now, OP!send_to_everyone_now, O!Empty,
       OP!Empty, O!Datagram, OP!Datagram, OP!OutboxNext
  <2>2. ASSUME NEW a \in Addr, O!open(a) \/ O!close(a) PROVE OP!OutboxNext
    <3>1. OP!open(a) \/ OP!close(a)
      BY <2>2 DEF O!open, OP!open, O!close, OP!close, O!Empty, OP!Empty
    <3> QED
      BY <3>1 DEF OP!OutboxNext
  <2>3. ASSUME NEW a \in Addr, NEW m \in Messages, O!send_message_close(a, m)
        PROVE  OP!OutboxNext
    <3>1. OP!send_message_close(a, m)
      BY <1>3, <2>3 DEF O!send_message_close, OP!send_message_close
    <3> QED
      BY <3>1 DEF OP!OutboxNext
  <2>4. ASSUME NEW S \in SUBSET Addr, NEW m \in Messages, O!send_message_now(S, m)
        PROVE  OP!OutboxNext
    <3>1. OP!send_message_now(S, m)
      BY <2>4 DEF O!send_message_now, OP!send_message_now, O!Datagram, OP!Datagram
    <3> QED
      BY <3>1 DEF OP!OutboxNext
  <2>5. ASSUME NEW S \in SUBSET DOMAIN msg, NEW buf \in [S -> Messages], O!send_message(buf)
        PROVE  OP!OutboxNext
    <3>1. OP!send_message(buf)
      BY <1>2, <1>3, <2>5 DEF O!send_message, OP!send_message
    <3> QED
      BY <3>1 DEF OP!OutboxNext
  <2> QED
    BY <1>4, <2>1, <2>2, <2>3, <2>4, <2>5 DEF O!OutboxNext
<1>5. [O!OutboxNext]_(O!outboxVars) => [OP!OutboxNext]_(OP!outboxVars)
  BY <1>4 DEF O!outboxVars, OP!outboxVars
<1> QED
  BY <1>1, <1>5, PTL DEF O!OutboxSpec, OP!OutboxSpec

LEMMA OutboxConstants ==
  ASSUME MessagesFit
  PROVE  OP!OutboxAssumption
<1>0. PMTU \in Nat /\ OP!Header = 4
  BY PeerAssumption DEF OP!Header
<1>1. ASSUME NEW t \in Tlv PROVE Size(t) \in Nat /\ Size(t) > 0 /\ Size(t) + 4 <= PMTU
  <2>1. \A d \in Data : Length[d] \in 0..255 /\ Length[d] + 6 <= PMTU
    BY PeerAssumption DEF MessagesFit
  <2>2. 31 <= PMTU
    BY DEF MessagesFit
  <2>3. CASE t = ShortHello
    BY <1>0, <2>2, <2>3, Sizes
  <2>4. ASSUME NEW i \in Id, t = LongHello(i) PROVE Size(t) \in Nat /\ Size(t) > 0 /\ Size(t) + 4 <= PMTU
    BY <1>0, <2>2, <2>4, Sizes
  <2>5. ASSUME NEW a \in Addr, t = Neighbour(a) PROVE Size(t) \in Nat /\ Size(t) > 0 /\ Size(t) + 4 <= PMTU
    <3>1. Size(t) = 20
      BY <2>5 DEF Size, Neighbour
    <3> QED
      BY <1>0, <2>2, <3>1
  <2>6. ASSUME NEW d \in Data, t = Ack(d) PROVE Size(t) \in Nat /\ Size(t) > 0 /\ Size(t) + 4 <= PMTU
    BY <1>0, <2>2, <2>6, Sizes
  <2>7. ASSUME NEW d \in Data, t = DataTlv(d) PROVE Size(t) \in Nat /\ Size(t) > 0 /\ Size(t) + 4 <= PMTU
    <3>1. Size(t) = Length[d] + 2
      BY <2>7, Sizes
    <3> QED
      BY <1>0, <2>1, <3>1
  <2>8. ASSUME NEW c \in 1..3, t = Goaway(c) PROVE Size(t) \in Nat /\ Size(t) > 0 /\ Size(t) + 4 <= PMTU
    <3>1. Size(t) \in {3, 23, 27}
      BY <2>8, Sizes
    <3> QED
      BY <1>0, <2>2, <3>1
  <2> QED
    BY <2>3, <2>4, <2>5, <2>6, <2>7, <2>8 DEF Tlv
<1>2. ASSUME NEW t \in Tlv
      PROVE  /\ Single(t) \in OP!Message
             /\ Single(t).body_length > 0 /\ Single(t).body_length + 4 <= PMTU
  BY <1>1 DEF Single, OP!Message
<1>3. ASSUME NEW n \in 1..PerMessage, NEW q \in [1..n -> Addr]
      PROVE  /\ NeighbourList(q) \in OP!Message
             /\ NeighbourList(q).body_length > 0 /\ NeighbourList(q).body_length + 4 <= PMTU
  <2>1. PerMessage \in Nat /\ 20 * PerMessage <= PMTU - 6
    BY <1>0 DEF PerMessage, MessagesFit
  <2>2. n \in Nat /\ n > 0 /\ 20 * n <= PMTU - 6
    BY <1>0, <2>1
  <2>3. Len(q) = n /\ DOMAIN q = 1..n
    BY <2>2
  <2>4. [i \in DOMAIN q |-> Neighbour(q[i])] \in [1..n -> Tlv]
    BY <2>3, Sizes
  <2>5. [i \in DOMAIN q |-> Neighbour(q[i])] \in Seq(Tlv)
    BY <2>2, <2>4
  <2>6. PICK k \in Nat : k = 20 * Len(q) /\ k > 0 /\ k + 4 <= PMTU
    BY <1>0, <2>2, <2>3
  <2> QED
    BY <2>5, <2>6 DEF NeighbourList, OP!Message
<1>4. ASSUME NEW m \in Messages
      PROVE  m \in OP!Message /\ m.body_length > 0 /\ m.body_length + 4 <= PMTU
  BY <1>2, <1>3 DEF Messages, NeighbourLists
<1>5. 4 <= PMTU
  BY <1>0 DEF MessagesFit
<1> QED
  BY <1>0, <1>1, <1>4, <1>5 DEF OP!OutboxAssumption

\* Every datagram of the peer fits the PMTU and none is empty, whatever TLVs a turn of the
\* loop, the handlers and SIGINT add up in the buffers (send_message), unless a datum is
\* 254 or 255 bytes long.
THEOREM PeerDatagramFits ==
  ASSUME MessagesFit
  PROVE  Spec => []O!DatagramFits
<1>1. OP!OutboxSpec => []OP!DatagramFits
  BY OutboxConstants, OP!OutboxDatagramFits
<1>2. OP!DatagramFits => O!DatagramFits
  BY DEF OP!DatagramFits, O!DatagramFits, OP!Header, O!Header
<1>3. Spec => O!OutboxSpec
  BY PeerOutboxRefined DEF OutboxRefined
<1> QED
  BY <1>1, <1>2, <1>3, SameOutbox, PTL
-----------------------------------------------------------------------------
\* The rest of the types: the source of a datagram, the count of symmetric neighbours,
\* and the bound on what is received, which a line read by select() is within.
RestTypes ==
  /\ peer \in Addr \cup {NULL}
  /\ NB_SYMETRICAL \in Nat
  /\ inputs \in 0..MaxInput
  /\ pc = "gui" => inputs < MaxInput

LEMMA RestNext == LoopInv /\ RestTypes /\ [PeerNext]_vars => RestTypes'
<1> SUFFICES ASSUME LoopInv, RestTypes, [PeerNext]_vars PROVE RestTypes'
  OBVIOUS
<1>0. MaxInput \in Nat /\ inputs \in 0..MaxInput
  BY PeerAssumption DEF RestTypes
<1>a. ASSUME UNCHANGED <<peer, NB_SYMETRICAL, inputs>>, pc' # "gui" \/ pc' = pc
      PROVE  RestTypes'
  BY <1>a DEF RestTypes
<1>1. CASE Wait \/ Timeout \/ NoHelloRound \/ Greet \/ SendSymetrical \/ EndOfSymetrical
           \/ RemoveOldPotential \/ SendShortHello \/ StartPass \/ EndOfTurn
  BY <1>1, <1>a DEF Wait, Timeout, NoHelloRound, Greet, SendSymetrical, EndOfSymetrical,
     RemoveOldPotential, SendShortHello, StartPass, EndOfTurn, KeepLoop
<1>2. CASE Readable \/ EndOfDatagram
  BY <1>2 DEF Readable, EndOfDatagram, LineReady, RestTypes
<1>3. CASE Receive
  <2>1. /\ inputs' = inputs + 1 /\ inputs < MaxInput /\ pc' \in {"recv", "greet"}
        /\ UNCHANGED <<peer, NB_SYMETRICAL>>
    BY <1>3 DEF Receive, RecvHello, RecvNeighbour, RecvData, RecvAck, RecvGoaway, Handling
  <2> QED
    BY <1>0, <2>1 DEF RestTypes
<1>4. CASE HelloRound
  <2>1. T!get_symmetrical \subseteq Addr
    BY DEF T!get_symmetrical, LoopInv
  <2>2. Cardinality(T!get_symmetrical) \in Nat
    BY <2>1, PeerAssumption, FS_Subset, FS_CardinalityType
  <2> QED
    BY <1>4, <2>2 DEF HelloRound, RestTypes
<1>5. ASSUME NEW a, SendGoaway(a) PROVE RestTypes'
  BY <1>5, <1>a DEF SendGoaway
<1>6. CASE GiveUp \/ Later \/ EndOfList
  BY <1>6, <1>a DEF GiveUp, Later, EndOfList, InPass
<1>7. ASSUME NEW w, Transmit(w) PROVE RestTypes'
  BY <1>7, <1>a DEF Transmit, KeepLoop
<1>8. ASSUME NEW d, ReadLine(d) PROVE RestTypes'
  BY <1>0, <1>8 DEF ReadLine, RestTypes
<1>9. CASE Disconnect \/ Exit
  BY <1>9, <1>a DEF Disconnect, Exit, KeepLoop
<1>10. CASE UNCHANGED vars
  BY <1>10, <1>a DEF vars
<1> QED
  BY <1>1, <1>2, <1>3, <1>4, <1>5, <1>6, <1>7, <1>8, <1>9, <1>10
  DEF PeerNext, Turn, Stopped

\* The state of the loop keeps its types; in particular what a function of the hello round
\* still has to walk are neighbours, although some are removed while it walks (main.c).
THEOREM PeerTypeCorrect == Spec => []PeerTypeOK
<1>1. Init => RestTypes
  BY PeerAssumption DEF Init, RestTypes
<1>2. LoopInv /\ ClockInv /\ RestTypes => PeerTypeOK
  BY DEF LoopInv, ClockInv, RestTypes, PeerTypeOK, BeforeRound, AfterRound, Stopping
<1> QED
  BY <1>1, <1>2, RestNext, LoopInvariant, ClockInvariant, PTL DEF Spec
=============================================================================
