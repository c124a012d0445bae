----------------------------- MODULE Handshake ------------------------------
(***************************************************************************)
(* Several peers over a network: how they meet, stay in each other's       *)
(* tables and forget those that are gone (send_first_message and the hello *)
(* round of main.c and net_lib.c, hello, neighbour and goaway of tlv.c).   *)
(*                                                                         *)
(* The tables of every peer are those of module Tables, with dates         *)
(* relative to the present: 0 is now, -1 one hello round ago, and Never,   *)
(* the oldest date, also stands for an absent one (machines have been up   *)
(* for two minutes).  A step is what a peer does between two calls of      *)
(* select() for one datagram or one hello round; what it puts into the     *)
(* buffer of one neighbour in that turn leaves as one datagram.  Time is   *)
(* counted in hello rounds, and a datagram lives for less than a round.    *)
(*                                                                         *)
(* Every start draws an identifier of its own.  main() draws it with       *)
(* rand() seeded in seconds, so that this is so only of processes started  *)
(* in different seconds.                                                   *)
(***************************************************************************)
EXTENDS Integers, FiniteSets, Sequences, SequencesExt

CONSTANTS
  Peers,      \* addresses
  Contacts,   \* peer -> the addresses given on its command line
  Boot,       \* the peers that have just been started at the beginning
  Stoppable,  \* the peers that may crash or be interrupted
  OldAge,     \* two minutes, in hello rounds (4)
  MIN_SYM,    \* short hellos are sent up to that many symmetric neighbours (10)
  MaxGen,     \* bound: how often a peer is started
  MaxFaults,  \* bound: datagrams lost, delivered twice or overtaking others
  Window,     \* bound: a datagram overtakes at most Window - 1 others
  NoId, NoDest

ASSUME HandshakeAssumption ==
  /\ IsFiniteSet(Peers)
  /\ Contacts \in [Peers -> SUBSET Peers]
  /\ Boot \subseteq Peers /\ Stoppable \subseteq Peers
  /\ OldAge \in Nat \ {0} /\ MaxGen \in Nat \ {0} /\ MaxFaults \in Nat
  /\ Window \in Nat \ {0}
  /\ \A i \in {NoId, NoDest} : i \notin Peers \X Nat

VARIABLES
  up,         \* peer -> its process runs
  gen,        \* peer -> how often it was started
  NEIGHBORS,  \* peer -> its table of neighbours
  POTENTIAL,  \* peer -> its table of potential neighbours
  told,       \* history: peer -> who was greeted by its current process
  done,       \* peers whose hello round of this interval is over
  net,        \* peer -> datagrams under way to it, in the order they were sent
  faults      \* datagrams lost, delivered twice or overtaking others so far

vars == <<up, gen, NEIGHBORS, POTENTIAL, told, done, net, faults>>

\* ID is drawn anew by every process (and taken to differ from those of all others).
IdOf(p) == <<p, gen[p]>>

Ids == Peers \X (1..MaxGen)

Never == -(OldAge + 1)

T == INSTANCE Tables WITH
       Addr <- Peers, Id <- Ids \cup {NoId}, ID <- NoId, Uptime <- 1, MaxTime <- 0,
       now <- 0, NEIGHBORS <- NEIGHBORS, POTENTIAL <- POTENTIAL, heard <- told

NoTable == [a \in {} |-> NoId]

\* What the expiry keeps of a table, and the table one round later.
Fresh(t) == [a \in {b \in DOMAIN t : ~T!is_old(t[b])} |-> t[a]]

Older(date) == IF date = Never THEN Never ELSE date - 1

Aged(t) == [a \in DOMAIN t |-> [t[a] EXCEPT !.last_hello = Older(@),
                                           !.last_hello_long = Older(@)]]

Symmetric(p) == {a \in DOMAIN NEIGHBORS[p] : T!issymmetrical(NEIGHBORS[p][a])}
-----------------------------------------------------------------------------
\* A datagram: at most one hello (short when dest is NoDest, none when source is
\* NoId), then neighbour TLVs, or a goaway.
Datagram(from, src, dest, ngbs, goaway) ==
  [from |-> from, source |-> src, dest |-> dest, ngbs |-> ngbs, goaway |-> goaway]

ShortHello(p, g) == Datagram(p, <<p, g>>, NoDest, {}, FALSE)

\* Mutant: the two identifiers are swapped.
LongHellos_swapped(p, t, ngbs) ==
  [a \in DOMAIN t |-> Datagram(p, t[a].id, IdOf(p), ngbs, FALSE)]

\* send_hello_everyone(), for the neighbours of table t, with the addresses that
\* send_symetrical_everyone() adds to the same buffers.
LongHellos(p, t, ngbs) ==
  [a \in DOMAIN t |-> Datagram(p, IdOf(p), t[a].id, ngbs, FALSE)]

Same(S, d) == [a \in S |-> d]

\* The datagrams of one turn leave, at most one for each address.
Sent(queues, out) ==
  [a \in Peers |-> IF a \in DOMAIN out THEN Append(queues[a], out[a]) ELSE queues[a]]
-----------------------------------------------------------------------------
\* The hellos of the peers of Boot that were given address a, in any order.
FirstHellos(a) ==
  {[i \in DOMAIN s |-> ShortHello(s[i], 1)] :
     s \in SetToSeqs({p \in Boot : a \in Contacts[p]})}

Init ==
  /\ up = [p \in Peers |-> p \in Boot]
  /\ gen = [p \in Peers |-> IF p \in Boot THEN 1 ELSE 0]
  /\ NEIGHBORS = [p \in Peers |-> NoTable]
  /\ POTENTIAL = [p \in Peers |-> NoTable]
  /\ told = [p \in Peers |-> {}]
  /\ done = {}
  /\ net \in {n \in [Peers -> UNION {FirstHellos(a) : a \in Peers}] :
               \A a \in Peers : n[a] \in FirstHellos(a)}
  /\ faults = 0

\* main() up to the loop: a new identifier, empty tables, one short hello to each
\* address of the contact, which is not recorded anywhere, and a hello round due at once.
Start(p) ==
  /\ ~up[p]
  /\ gen[p] < MaxGen
  /\ up' = [up EXCEPT ![p] = TRUE]
  /\ gen' = [gen EXCEPT ![p] = @ + 1]
  /\ NEIGHBORS' = [NEIGHBORS EXCEPT ![p] = NoTable]
  /\ POTENTIAL' = [POTENTIAL EXCEPT ![p] = NoTable]
  /\ told' = [told EXCEPT ![p] = {}]
  /\ done' = done \ {p}
  /\ net' = Sent(net, Same(Contacts[p], ShortHello(p, gen[p] + 1)))
  /\ UNCHANGED faults

\* The process ends without a word, or by SIGINT with a goaway to every neighbour.
Stop(p, farewell) ==
  /\ up[p]
  /\ p \in Stoppable
  /\ up' = [up EXCEPT ![p] = FALSE]
  /\ net' = Sent(net, farewell)
  /\ UNCHANGED <<gen, NEIGHBORS, POTENTIAL, told, done, faults>>

Crash(p) == Stop(p, Same({}, NoId))

disconnect(p) ==
  Stop(p, Same(DOMAIN NEIGHBORS[p], Datagram(p, NoId, NoDest, {}, TRUE)))
-----------------------------------------------------------------------------
\* Mutant: the destination of a long hello is not looked at.
Taken_any(q, d) == d.source # NoId

\* Does q take the hello of datagram d?  Not a long one for another identifier.
Taken(q, d) == d.source # NoId /\ d.dest \in {NoDest, IdOf(q)}

\* hello(): the table of q after the hello of d, if any.
Greeted(q, d) ==
  IF Taken(q, d)
  THEN T!add_neighbor_aux(NEIGHBORS[q], d.from,
         [id |-> d.source, last_hello |-> 0,
          last_hello_long |-> IF d.dest = NoDest THEN Never ELSE 0])
  ELSE NEIGHBORS[q]

\* Mutant: the test is the wrong way round.
Announced_reversed(t, nbrs, S) ==
  [a \in DOMAIN t \cup (S \cap DOMAIN nbrs) |->
     IF a \in S \cap DOMAIN nbrs
     THEN [id |-> NoId, last_hello |-> 0, last_hello_long |-> Never]
     ELSE t[a]]

\* neighbour(), for every address of the list S that is not a neighbour.
Announced(t, nbrs, S) ==
  [a \in DOMAIN t \cup (S \ DOMAIN nbrs) |->
     IF a \in S \ DOMAIN nbrs
     THEN [id |-> IF a \in DOMAIN t THEN t[a].id ELSE NoId,
           last_hello |-> 0, last_hello_long |-> Never]
     ELSE t[a]]

\* handle_message_h() and the flush at the end of the turn: hello, then the
\* neighbours; a new neighbour leaves POTENTIAL and makes the peer greet
\* everyone.  A goaway removes its sender.
Handle(q, d, rest) ==
  LET nbrs == IF d.goaway THEN T!remove_neighbor_aux(NEIGHBORS[q], d.from)
              ELSE Greeted(q, d)
      new == d.from \in DOMAIN nbrs \ DOMAIN NEIGHBORS[q]
      pot == IF new THEN T!remove_neighbor_aux(POTENTIAL[q], d.from)
             ELSE POTENTIAL[q]
  IN  /\ NEIGHBORS' = [NEIGHBORS EXCEPT ![q] = nbrs]
      /\ POTENTIAL' = [POTENTIAL EXCEPT ![q] = Announced(pot, nbrs, d.ngbs)]
      /\ told' = IF d.source = IdOf(d.from)
                 THEN [told EXCEPT ![d.from] = @ \cup {q}] ELSE told
      /\ net' = Sent(rest, IF new THEN LongHellos(q, nbrs, {}) ELSE Same({}, NoId))

\* Datagram i of those under way to q, which is gone from rest.
Arrives(q, i) == i \in 1..Len(net[q]) /\ i <= Window

Without(q, i) == [net EXCEPT ![q] = RemoveAt(@, i)]

\* A datagram reaches its address, where the process may be gone, and may overtake others.
Deliver(q, i) ==
  /\ Arrives(q, i)
  /\ IF up[q] THEN Handle(q, net[q][i], Without(q, i))
     ELSE /\ net' = Without(q, i)
          /\ UNCHANGED <<NEIGHBORS, POTENTIAL, told>>
  /\ IF i = 1 THEN UNCHANGED faults ELSE faults < MaxFaults /\ faults' = faults + 1
  /\ UNCHANGED <<up, gen, done>>

Lose(q, i) ==
  /\ Arrives(q, i)
  /\ faults < MaxFaults
  /\ faults' = faults + 1
  /\ net' = Without(q, i)
  /\ UNCHANGED <<up, gen, NEIGHBORS, POTENTIAL, told, done>>

\* A copy of the datagram is still under way.
Duplicate(q, i) ==
  /\ Arrives(q, i)
  /\ up[q]
  /\ faults < MaxFaults
  /\ faults' = faults + 1
  /\ Handle(q, net[q][i], net)
  /\ UNCHANGED <<up, gen, done>>
-----------------------------------------------------------------------------
\* Mutant: the potential neighbours are announced too.
Round_gossips(p) ==
  LET nbrs == Fresh(NEIGHBORS[p])
      pot == Fresh(POTENTIAL[p])
  IN  /\ up[p]
      /\ p \notin done
      /\ done' = done \cup {p}
      /\ NEIGHBORS' = [NEIGHBORS EXCEPT ![p] = nbrs]
      /\ POTENTIAL' = [POTENTIAL EXCEPT ![p] = pot]
      /\ net' = Sent(Sent(net, LongHellos(p, nbrs, Symmetric(p) \cup DOMAIN pot)),
                     Same(DOMAIN pot, ShortHello(p, gen[p])))
      /\ UNCHANGED <<up, gen, told, faults>>

\* The hello round: long hellos and the symmetric neighbours to every neighbour,
\* the silent ones removed together with the buffers those were put into, the
\* stale potential ones removed, short hellos to the others if there are few
\* symmetric neighbours.
Round(p) ==
  LET nbrs == Fresh(NEIGHBORS[p])
      pot == Fresh(POTENTIAL[p])
  IN  /\ up[p]
      /\ p \notin done
      /\ done' = done \cup {p}
      /\ NEIGHBORS' = [NEIGHBORS EXCEPT ![p] = nbrs]
      /\ POTENTIAL' = [POTENTIAL EXCEPT ![p] = pot]
      /\ net' = Sent(Sent(net, LongHellos(p, nbrs, Symmetric(p))),
                     Same(IF Cardinality(Symmetric(p)) <= MIN_SYM
                          THEN DOMAIN pot ELSE {}, ShortHello(p, gen[p])))
      /\ UNCHANGED <<up, gen, told, faults>>

\* One interval passes: everything becomes a round older.
Tick ==
  /\ \A p \in Peers : net[p] = <<>> /\ (up[p] => p \in done)
  /\ done' = {}
  /\ NEIGHBORS' = [p \in Peers |-> Aged(NEIGHBORS[p])]
  /\ POTENTIAL' = [p \in Peers |-> Aged(POTENTIAL[p])]
  /\ UNCHANGED <<up, gen, told, net, faults>>

Next ==
  \/ \E p \in Peers : Start(p) \/ Crash(p) \/ disconnect(p) \/ Round(p)
  \/ \E q \in Peers, i \in 1..Window : Deliver(q, i) \/ Lose(q, i) \/ Duplicate(q, i)
  \/ Tick

\* What happens by itself; the rest is up to users and to the network.
Progress == (\E p \in Peers : Deliver(p, 1) \/ Round(p)) \/ Tick

Spec == Init /\ [][Next]_vars /\ WF_vars(Progress)
-----------------------------------------------------------------------------
Message == {m \in [from : Peers, source : Ids \cup {NoId},
                   dest : Ids \cup {NoDest}, ngbs : SUBSET Peers,
                   goaway : BOOLEAN] : m.goaway = (m.source = NoId)}

RelTable(t) ==
  /\ DOMAIN t \subseteq Peers
  /\ t \in [DOMAIN t -> [id : Ids \cup {NoId}, last_hello : Never..0,
                         last_hello_long : Never..0]]

\* The tables keep their types in every peer and a process announces no
\* identifier but its own or one it was told.
HandshakeTypeOK ==
  /\ up \in [Peers -> BOOLEAN]
  /\ gen \in [Peers -> 0..MaxGen]
  /\ \A p \in Peers : RelTable(NEIGHBORS[p]) /\ RelTable(POTENTIAL[p])
  /\ told \in [Peers -> SUBSET Peers]
  /\ done \subseteq Peers
  /\ net \in [Peers -> Seq(Message)]
  /\ faults \in 0..MaxFaults

\* A peer only counts another as symmetric if a hello of its own current process
\* reached that one: long hellos meant for an earlier process on the same
\* address, delayed or repeated, do not make anybody symmetric (the test of
\* dest_id in hello()).
SymmetricWasTold ==
  \A p \in Peers : up[p] => Symmetric(p) \subseteq told[p]

AllUp == \A p \in Peers : up[p]

Mutual(p, q) == q \in Symmetric(p) /\ p \in Symmetric(q)

\* What an earlier process left behind between p and q: its identifier in the
\* table of the other (add_neighbor_aux() keeps it when the address is heard of
\* again), or datagrams that are still under way.
Traces(p, q) ==
  \/ q \in DOMAIN NEIGHBORS[p] /\ NEIGHBORS[p][q].id # IdOf(q)
  \/ \E d \in ToSet(net[p]) :
       d.from = q /\ (d.source # IdOf(q) \/ d.dest \notin {NoDest, IdOf(p)})

\* When a hello of p has reached q, both end up symmetric for each other, unless
\* one of them stops: a hello lost on the way costs a round, not the meeting.  With
\* traces of an earlier process on one of the two addresses the meeting may fail:
\* its identifier goes on being named in long hellos, which are then ignored.
MeetingSucceeds ==
  \A p \in Peers : \A q \in Peers \ {p} :
    (up[p] /\ up[q] /\ p \in DOMAIN NEIGHBORS[q] /\ ~Traces(p, q) /\ ~Traces(q, p))
      ~> (Mutual(p, q) \/ ~up[p] \/ ~up[q])

\* Once every first hello has arrived, all peers find each other through the
\* announcements of the common contact, become symmetric and stay so: short
\* hellos, which erase symmetry, stop.
Converges ==
  (AllUp /\ \A p \in Peers : \A c \in Contacts[p] : p \in DOMAIN NEIGHBORS[c])
    ~> [](AllUp => \A p, q \in Peers : Mutual(p, q))

\* A peer that is gone, with or without a goaway, is forgotten by everyone in both
\* tables unless it comes back: announcements, which refresh POTENTIAL, do not keep
\* a dead address going round for ever.
GoneForgotten ==
  \A p \in Stoppable : ~up[p] ~> (up[p] \/ \A q \in Peers : up[q] =>
     p \notin DOMAIN NEIGHBORS[q] \cup DOMAIN POTENTIAL[q])
=============================================================================
