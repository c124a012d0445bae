-------------------------- MODULE Handshake_proofs --------------------------
(***************************************************************************)
(* Proofs about the handshake, for any number of peers and contacts, any   *)
(* number of restarts, and a network that loses, repeats and reorders: a   *)
(* peer counts another as symmetric only if a hello of its own process     *)
(* reached that one.  The argument follows an identifier round: it is in a *)
(* table of q only if q was greeted by its owner, a long hello names it    *)
(* only out of such a table, and only that hello makes anybody symmetric.  *)
(***************************************************************************)
EXTENDS Handshake, FiniteSetTheorems, SequenceTheorems, TLAPS

\* Identifiers that were drawn by now.
Issued(i) == i \in Ids /\ i[2] <= gen[i[1]]

\* What may be under way to q: identifiers that exist, and the current one of q
\* only from somebody that was greeted by q.
GoodMsgs(q) ==
  {d \in Message :
     d.source # NoId =>
       /\ Issued(d.source)
       /\ d.dest # NoDest => Issued(d.dest)
       /\ d.dest = IdOf(q) => d.from \in told[q]}

\* What table t of p may hold: identifiers that exist, the current one of a only
\* when a greeted p, and symmetry only when p greeted a.
GoodEntry(p, a, v) ==
  /\ v \in [id : Ids, last_hello : Never..0, last_hello_long : Never..0]
  /\ Issued(v.id)
  /\ v.id = IdOf(a) => p \in told[a]
  /\ T!issymmetrical(v) => a \in told[p]

GoodTable(p, t) ==
  /\ DOMAIN t \subseteq Peers
  /\ t = [a \in DOMAIN t |-> t[a]]
  /\ \A a \in DOMAIN t : GoodEntry(p, a, t[a])

HandshakeTypes ==
  /\ up \in [Peers -> BOOLEAN]
  /\ gen \in [Peers -> 0..MaxGen]
  /\ \A p \in Peers : up[p] => gen[p] >= 1
  /\ DOMAIN NEIGHBORS = Peers /\ NEIGHBORS = [p \in Peers |-> NEIGHBORS[p]]
  /\ DOMAIN POTENTIAL = Peers /\ POTENTIAL = [p \in Peers |-> POTENTIAL[p]]
  /\ \A p \in Peers : RelTable(POTENTIAL[p])
  /\ told \in [Peers -> SUBSET Peers]
  /\ done \subseteq Peers
  /\ faults \in 0..MaxFaults

TablesGood == \A p \in Peers : GoodTable(p, NEIGHBORS[p])

QueuesOf(n, M) ==
  /\ DOMAIN n = Peers /\ n = [q \in Peers |-> n[q]]
  /\ \A q \in Peers : n[q] \in Seq(M[q])

Good == [q \in Peers |-> GoodMsgs(q)]

HandshakeInv == HandshakeTypes /\ TablesGood /\ QueuesOf(net, Good)
-----------------------------------------------------------------------------
LEMMA NeverIs == Never \in Int /\ Never < 0 /\ -Never > OldAge /\ OldAge \in Nat
BY HandshakeAssumption DEF Never

LEMMA IdFacts ==
  /\ NoId \notin Ids /\ NoDest \notin Ids
  /\ \A p \in Peers, g \in 1..MaxGen : <<p, g>> \in Ids
  /\ \A i \in Ids : i[1] \in Peers /\ i[2] \in 1..MaxGen /\ i = <<i[1], i[2]>>
BY HandshakeAssumption DEF Ids

LEMMA OwnId ==
  ASSUME HandshakeTypes, NEW p \in Peers, up[p]
  PROVE  IdOf(p) \in Ids /\ Issued(IdOf(p)) /\ IdOf(p) # NoId
<1>1. gen[p] \in 1..MaxGen
  BY HandshakeAssumption DEF HandshakeTypes
<1>2. <<p, gen[p]>> \in Ids
  BY <1>1 DEF Ids
<1> QED
  BY <1>1, <1>2, IdFacts DEF IdOf, Issued

\* A list of messages, longer or shorter.
LEMMA AppendSeq ==
  ASSUME NEW S, NEW s \in Seq(S), NEW x \in S
  PROVE  Append(s, x) \in Seq(S)
OBVIOUS

LEMMA RemoveAtSeq ==
  ASSUME NEW S, NEW s \in Seq(S), NEW i \in 1..Len(s)
  PROVE  RemoveAt(s, i) \in Seq(S)
<1> DEFINE a == SubSeq(s, 1, i - 1)
           b == SubSeq(s, i + 1, Len(s))
<1>1. a \in Seq(S) /\ b \in Seq(S)
  OBVIOUS
<1>2. a \o b \in Seq(S)
  <2> HIDE DEF a, b
  <2> QED BY <1>1
<1> QED
  BY <1>2 DEF RemoveAt

LEMMA LargerSeq ==
  ASSUME NEW S, NEW R, S \subseteq R, NEW s \in Seq(S)
  PROVE  s \in Seq(R)
OBVIOUS

\* The queues after one turn, without one datagram, and with more allowed.
LEMMA SentQueues ==
  ASSUME NEW n, NEW M, QueuesOf(n, M), NEW out,
         \A a \in DOMAIN out \cap Peers : out[a] \in M[a]
  PROVE  QueuesOf(Sent(n, out), M)
<1>1. PICK r : r = Sent(n, out)
  OBVIOUS
<1>2. r = [a \in Peers |-> IF a \in DOMAIN out THEN Append(n[a], out[a]) ELSE n[a]]
  BY <1>1 DEF Sent
<1>3. ASSUME NEW q \in Peers PROVE r[q] \in Seq(M[q])
  <2>1. n[q] \in Seq(M[q])
    BY DEF QueuesOf
  <2>2. CASE q \in DOMAIN out
    <3>1. out[q] \in M[q]
      BY <2>2
    <3>2. Append(n[q], out[q]) \in Seq(M[q])
      BY <2>1, <3>1, AppendSeq
    <3> QED
      BY <1>2, <2>2, <3>2
  <2>3. CASE q \notin DOMAIN out
    BY <1>2, <2>1, <2>3
  <2> QED
    BY <2>2, <2>3
<1>4. DOMAIN r = Peers /\ r = [q \in Peers |-> r[q]]
  BY <1>2
<1> QED
  BY <1>1, <1>3, <1>4 DEF QueuesOf

LEMMA NothingSent ==
  ASSUME NEW n, NEW M, QueuesOf(n, M)
  PROVE  QueuesOf(Sent(n, Same({}, NoId)), M)
<1>1. PICK out : out = Same({}, NoId)
  OBVIOUS
<1>2. DOMAIN out = {}
  BY <1>1 DEF Same
<1> QED
  BY <1>1, <1>2, SentQueues

LEMMA RemovedQueues ==
  ASSUME NEW n, NEW M, QueuesOf(n, M), NEW q \in Peers, NEW i \in 1..Len(n[q]),
         NEW r, r = [n EXCEPT ![q] = RemoveAt(@, i)]
  PROVE  QueuesOf(r, M) /\ n[q][i] \in M[q]
<1>1. n[q] \in Seq(M[q])
  BY DEF QueuesOf
<1>2. RemoveAt(n[q], i) \in Seq(M[q])
  BY <1>1, RemoveAtSeq
<1>3. DOMAIN r = Peers /\ r = [a \in Peers |-> r[a]]
      /\ \A a \in Peers : r[a] = IF a = q THEN RemoveAt(n[q], i) ELSE n[a]
  BY DEF QueuesOf
<1>4. \A a \in Peers : r[a] \in Seq(M[a])
  BY <1>2, <1>3 DEF QueuesOf
<1>5. n[q][i] \in M[q]
  BY <1>1
<1> QED
  BY <1>3, <1>4, <1>5 DEF QueuesOf

LEMMA LargerQueues ==
  ASSUME NEW n, NEW M, NEW N, QueuesOf(n, M), \A q \in Peers : M[q] \subseteq N[q]
  PROVE  QueuesOf(n, N)
<1>1. \A q \in Peers : n[q] \in Seq(N[q])
  BY LargerSeq DEF QueuesOf
<1> QED
  BY <1>1 DEF QueuesOf
-----------------------------------------------------------------------------
\* More greetings make nothing wrong that was right.
MoreTold == gen' = gen /\ \A p \in Peers : told[p] \subseteq told'[p]

LEMMA GoodStays ==
  ASSUME HandshakeTypes, MoreTold
  PROVE  /\ \A q \in Peers : Good[q] \subseteq Good'[q]
         /\ \A p, a \in Peers : \A v : GoodEntry(p, a, v) => GoodEntry(p, a, v)'
<1>1. ASSUME NEW q \in Peers, NEW d \in GoodMsgs(q) PROVE d \in GoodMsgs(q)'
  BY <1>1 DEF GoodMsgs, MoreTold, Issued, IdOf
<1>2. ASSUME NEW p \in Peers, NEW a \in Peers, NEW v, GoodEntry(p, a, v)
      PROVE  GoodEntry(p, a, v)'
  BY <1>2 DEF GoodEntry, MoreTold, Issued, IdOf, T!issymmetrical
<1> QED
  BY <1>1, <1>2 DEF Good

LEMMA QueuesStay ==
  ASSUME HandshakeTypes, MoreTold, NEW n, QueuesOf(n, Good)
  PROVE  QueuesOf(n, Good')
<1>1. PICK M, N : M = Good /\ N = Good'
  OBVIOUS
<1>2. \A q \in Peers : M[q] \subseteq N[q]
  BY <1>1, GoodStays
<1> QED
  BY <1>1, <1>2, LargerQueues

LEMMA TableStays ==
  ASSUME HandshakeTypes, MoreTold, NEW p \in Peers, NEW t, GoodTable(p, t)
  PROVE  GoodTable(p, t)'
BY GoodStays DEF GoodTable

\* Messages that are always good: short hellos and goaways.
LEMMA PlainMessages ==
  ASSUME NEW p \in Peers
  PROVE  /\ \A g \in 1..MaxGen : ShortHello(p, g) \in Message
                                  /\ ShortHello(p, g).source = <<p, g>>
                                  /\ ShortHello(p, g).dest = NoDest
         /\ Datagram(p, NoId, NoDest, {}, TRUE) \in Message
         /\ Datagram(p, NoId, NoDest, {}, TRUE).source = NoId
<1>1. \A g \in 1..MaxGen : <<p, g>> \in Ids /\ <<p, g>> # NoId
  BY IdFacts
<1> QED
  BY <1>1 DEF Message, ShortHello, Datagram

LEMMA ShortHelloGood ==
  ASSUME HandshakeTypes, NEW p \in Peers, up[p], NEW q \in Peers
  PROVE  ShortHello(p, gen[p]) \in GoodMsgs(q)
<1>1. gen[p] \in 1..MaxGen /\ gen[q] \in 0..MaxGen
  BY DEF HandshakeTypes
<1>2. Issued(<<p, gen[p]>>)
  BY OwnId DEF IdOf
<1>3. NoDest # IdOf(q)
  BY <1>1, HandshakeAssumption DEF IdOf
<1> QED
  BY <1>1, <1>2, <1>3, PlainMessages DEF GoodMsgs

LEMMA GoawayGood ==
  ASSUME NEW p \in Peers, NEW q \in Peers
  PROVE  Datagram(p, NoId, NoDest, {}, TRUE) \in GoodMsgs(q)
BY PlainMessages DEF GoodMsgs

\* The long hellos of a process name identifiers out of a good table.
LEMMA LongHellosGood ==
  ASSUME HandshakeTypes, MoreTold, NEW p \in Peers, up[p], NEW t, GoodTable(p, t)',
         NEW S \in SUBSET Peers, NEW a \in DOMAIN t
  PROVE  LongHellos(p, t, S)[a] \in GoodMsgs(a)'
<1>1. PICK d : d = Datagram(p, IdOf(p), t[a].id, S, FALSE)
  OBVIOUS
<1>2. LongHellos(p, t, S)[a] = d
  BY <1>1 DEF LongHellos
<1>3. /\ d.from = p /\ d.source = IdOf(p) /\ d.dest = t[a].id /\ d.ngbs = S
      /\ d.goaway = FALSE
      /\ d = [from |-> p, source |-> IdOf(p), dest |-> t[a].id, ngbs |-> S, goaway |-> FALSE]
  BY <1>1 DEF Datagram
<1>4. GoodEntry(p, a, t[a])'
  BY DEF GoodTable
<1>5. t[a].id \in Ids /\ Issued(t[a].id)' /\ (t[a].id = IdOf(a)' => p \in told'[a])
  BY <1>4 DEF GoodEntry
<1>6. IdOf(p) \in Ids /\ Issued(IdOf(p)) /\ IdOf(p) # NoId
  BY OwnId
<1>7. d \in Message
  BY <1>3, <1>5, <1>6 DEF Message
<1>8. \A i : Issued(i) => Issued(i)'
  BY DEF Issued, MoreTold
<1> QED
  BY <1>2, <1>3, <1>5, <1>6, <1>7, <1>8 DEF GoodMsgs
-----------------------------------------------------------------------------
\* A new process: its identifier is in no table and no datagram.
LEMMA NewIdUnknown ==
  ASSUME HandshakeTypes, NEW p \in Peers,
         gen' = [gen EXCEPT ![p] = @ + 1], told' = [told EXCEPT ![p] = {}]
  PROVE  /\ \A q \in Peers : Good[q] \subseteq Good'[q]
         /\ \A r \in Peers \ {p} : \A a \in Peers : \A v :
              GoodEntry(r, a, v) => GoodEntry(r, a, v)'
<1>1. /\ \A q \in Peers : gen[q] \in Nat /\ gen'[q] = IF q = p THEN gen[q] + 1 ELSE gen[q]
      /\ \A q \in Peers : told'[q] = IF q = p THEN {} ELSE told[q]
  BY DEF HandshakeTypes
<1>2. ASSUME NEW i, Issued(i) PROVE Issued(i)'
  <2>1. i \in Ids /\ i[1] \in Peers /\ i[2] \in 1..MaxGen /\ i[2] <= gen[i[1]]
    BY <1>2, IdFacts DEF Issued
  <2>2. i[2] <= gen'[i[1]]
    BY <1>1, <2>1
  <2> QED
    BY <2>1, <2>2 DEF Issued
<1>3. ASSUME NEW i, NEW q \in Peers, Issued(i), i = IdOf(q)'
      PROVE  q # p /\ i = IdOf(q)
  <2>1. i[2] <= gen[i[1]] /\ i = <<q, gen'[q]>>
    BY <1>3 DEF Issued, IdOf
  <2>2. gen'[q] <= gen[q]
    BY <2>1
  <2> QED
    BY <1>1, <2>1, <2>2 DEF IdOf
<1>4. ASSUME NEW q \in Peers, NEW d \in GoodMsgs(q) PROVE d \in GoodMsgs(q)'
  <2>1. d \in Message
    BY DEF GoodMsgs
  <2> SUFFICES ASSUME d.source # NoId
               PROVE  /\ Issued(d.source)'
                      /\ d.dest # NoDest => Issued(d.dest)'
                      /\ d.dest = IdOf(q)' => d.from \in told'[q]
    BY <2>1 DEF GoodMsgs
  <2>2. Issued(d.source) /\ (d.dest # NoDest => Issued(d.dest))
        /\ (d.dest = IdOf(q) => d.from \in told[q])
    BY DEF GoodMsgs
  <2>3. ASSUME d.dest = IdOf(q)' PROVE d.from \in told'[q]
    <3>1. d.dest # NoDest
      <4>1. IdOf(q)' = <<q, gen'[q]>> /\ gen'[q] \in Nat
        BY <1>1 DEF IdOf
      <4> QED
        BY <2>3, <4>1, HandshakeAssumption
    <3>2. q # p /\ d.dest = IdOf(q)
      BY <1>3, <2>2, <2>3, <3>1
    <3> QED
      BY <1>1, <2>2, <3>2
  <2> QED
    BY <1>2, <2>2, <2>3
<1>5. ASSUME NEW r \in Peers \ {p}, NEW a \in Peers, NEW v, GoodEntry(r, a, v)
      PROVE  GoodEntry(r, a, v)'
  <2>1. Issued(v.id)' /\ (v.id = IdOf(a)' => r \in told'[a])
    BY <1>1, <1>2, <1>3, <1>5 DEF GoodEntry
  <2>2. told'[r] = told[r]
    BY <1>1
  <2> QED
    BY <1>5, <2>1, <2>2 DEF GoodEntry, T!issymmetrical
<1> QED
  BY <1>4, <1>5 DEF Good

LEMMA EmptyTable ==
  ASSUME NEW p
  PROVE  GoodTable(p, NoTable) /\ GoodTable(p, NoTable)' /\ RelTable(NoTable)
BY DEF GoodTable, NoTable, RelTable

\* The part of the inductive step about the tables of neighbours.
LEMMA TablesGoodStep ==
  ASSUME HandshakeTypes, TablesGood, MoreTold, NEW p \in Peers, NEW t,
         NEIGHBORS' = [NEIGHBORS EXCEPT ![p] = t], GoodTable(p, t)'
  PROVE  /\ DOMAIN NEIGHBORS' = Peers /\ NEIGHBORS' = [r \in Peers |-> NEIGHBORS'[r]]
         /\ TablesGood'
<1>1. /\ DOMAIN NEIGHBORS' = Peers /\ NEIGHBORS' = [r \in Peers |-> NEIGHBORS'[r]]
      /\ \A r \in Peers : NEIGHBORS'[r] = IF r = p THEN t ELSE NEIGHBORS[r]
  BY DEF HandshakeTypes
<1>2. ASSUME NEW r \in Peers
      PROVE  /\ DOMAIN NEIGHBORS'[r] \subseteq Peers
             /\ NEIGHBORS'[r] = [a \in DOMAIN NEIGHBORS'[r] |-> NEIGHBORS'[r][a]]
             /\ \A a \in DOMAIN NEIGHBORS'[r] : GoodEntry(r, a, NEIGHBORS[r][a])'
  <2>1. PICK u : u = NEIGHBORS'[r]
    OBVIOUS
  <2>2. CASE r = p
    <3>1. u = t
      BY <1>1, <2>1, <2>2
    <3>2. /\ DOMAIN t \subseteq Peers /\ t = [a \in DOMAIN t |-> t[a]]
          /\ \A a \in DOMAIN t : GoodEntry(p, a, t[a])'
      BY DEF GoodTable
    <3> QED
      BY <2>1, <2>2, <3>1, <3>2 DEF GoodEntry, Issued, IdOf, T!issymmetrical
  <2>3. CASE r # p
    <3>1. u = NEIGHBORS[r]
      BY <1>1, <2>1, <2>3
    <3>2. GoodTable(r, u)
      BY <3>1 DEF TablesGood
    <3>3. /\ DOMAIN u \subseteq Peers /\ u = [a \in DOMAIN u |-> u[a]]
          /\ \A a \in DOMAIN u : GoodEntry(r, a, u[a])'
      BY <3>2, GoodStays DEF GoodTable
    <3> QED
      BY <2>1, <3>3 DEF GoodEntry, Issued, IdOf, T!issymmetrical
  <2> QED
    BY <2>2, <2>3
<1> QED
  BY <1>1, <1>2 DEF TablesGood, GoodTable

\* Fewer entries, and the entry that a hello writes.
LEMMA FewerEntries ==
  ASSUME NEW p \in Peers, NEW t, GoodTable(p, t), NEW S \in SUBSET DOMAIN t, NEW u,
         u = [a \in S |-> t[a]]
  PROVE  GoodTable(p, u)
<1>1. DOMAIN u = S /\ \A a \in S : u[a] = t[a]
  OBVIOUS
<1> QED
  BY <1>1 DEF GoodTable

LEMMA FewerPotential ==
  ASSUME NEW t, RelTable(t), NEW S \in SUBSET DOMAIN t, NEW u, u = [a \in S |-> t[a]]
  PROVE  RelTable(u)
BY DEF RelTable

LEMMA HelloEntry ==
  ASSUME HandshakeTypes, TablesGood, MoreTold, NEW q \in Peers, NEW d \in GoodMsgs(q),
         Taken(q, d), d.source = IdOf(d.from) => q \in told'[d.from],
         NEW u, u = Greeted(q, d)
  PROVE  GoodTable(q, u)'
<1>1. PICK t : t = NEIGHBORS[q]
  OBVIOUS
<1>2. PICK f \in Peers : f = d.from
  BY DEF GoodMsgs, Message
<1>3. GoodTable(q, t)
  BY <1>1 DEF TablesGood
<1>4. /\ d.source \in Ids /\ Issued(d.source) /\ d.dest \in {NoDest, IdOf(q)}
      /\ d.dest = IdOf(q) => f \in told[q]
  BY <1>2 DEF GoodMsgs, Message, Taken
<1>5. 0 \in Never..0 /\ Never \in Never..0 /\ ~(0 - Never < OldAge)
  BY NeverIs
<1>6. PICK long : long = IF d.dest = NoDest THEN Never ELSE 0
  OBVIOUS
<1>7. PICK i : i = IF f \in DOMAIN t THEN t[f].id ELSE d.source
  OBVIOUS
<1>8. PICK val : val = [id |-> i, last_hello |-> 0, last_hello_long |-> long]
  OBVIOUS
<1>9. u = [a \in DOMAIN t \cup {f} |-> IF a # f THEN t[a] ELSE val]
  <2>1. u = T!add_neighbor_aux(t, f, [id |-> d.source, last_hello |-> 0,
                                      last_hello_long |-> long])
    BY <1>1, <1>2, <1>6 DEF Greeted
  <2> QED
    BY <2>1, <1>7, <1>8 DEF T!add_neighbor_aux
<1>10. GoodEntry(q, f, val)'
  <2>1. i \in Ids /\ Issued(i) /\ (i = IdOf(f) => q \in told'[f])
    <3>1. CASE f \in DOMAIN t
      <4>1. GoodEntry(q, f, t[f])
        BY <1>3, <3>1 DEF GoodTable
      <4> QED
        BY <4>1, <3>1, <1>7 DEF GoodEntry, MoreTold
    <3>2. CASE f \notin DOMAIN t
      BY <3>2, <1>2, <1>4, <1>7
    <3> QED
      BY <3>1, <3>2
  <2>2. long \in Never..0
    BY <1>5, <1>6
  <2>3. val \in [id : Ids, last_hello : Never..0, last_hello_long : Never..0]
        /\ val.id = i /\ val.last_hello_long = long
    BY <1>5, <1>8, <2>1, <2>2
  <2>4. Issued(i)' /\ (i = IdOf(f)' => q \in told'[f])
    BY <2>1 DEF Issued, IdOf, MoreTold
  <2>5. ASSUME T!issymmetrical(val)' PROVE f \in told'[q]
    <3>1. 0 - long < OldAge
      BY <2>3, <2>5 DEF T!issymmetrical
    <3>2. d.dest # NoDest
      BY <3>1, <1>5, <1>6
    <3> QED
      BY <3>2, <1>4 DEF MoreTold
  <2> QED
    BY <2>3, <2>4, <2>5 DEF GoodEntry
<1>11. /\ DOMAIN u = DOMAIN t \cup {f} /\ u = [a \in DOMAIN u |-> u[a]]
       /\ \A a \in DOMAIN t : a # f => u[a] = t[a]
       /\ u[f] = val
  BY <1>9
<1>12. \A a \in DOMAIN t : GoodEntry(q, a, t[a])'
  BY <1>3, GoodStays DEF GoodTable
<1>13. \A a \in DOMAIN u : GoodEntry(q, a, u[a])'
  BY <1>10, <1>11, <1>12
<1>14. DOMAIN u \subseteq Peers
  BY <1>3, <1>11 DEF GoodTable
<1> QED
  BY <1>11, <1>13, <1>14 DEF GoodTable

\* neighbour() keeps POTENTIAL a table.
LEMMA AnnouncedType ==
  ASSUME NEW t, RelTable(t), NEW nbrs, NEW S \in SUBSET Peers
  PROVE  RelTable(Announced(t, nbrs, S))
<1> DEFINE N == S \ DOMAIN nbrs
           Entry == [id : Ids \cup {NoId}, last_hello : Never..0, last_hello_long : Never..0]
           new(a) == [id |-> IF a \in DOMAIN t THEN t[a].id ELSE NoId,
                      last_hello |-> 0, last_hello_long |-> Never]
<1>1. 0 \in Never..0 /\ Never \in Never..0
  BY NeverIs
<1>2. DOMAIN t \subseteq Peers /\ \A a \in DOMAIN t : t[a] \in Entry
  BY DEF RelTable
<1>3. ASSUME NEW a \in N PROVE new(a) \in Entry
  BY <1>1, <1>2
<1>4. PICK u : u = Announced(t, nbrs, S)
  OBVIOUS
<1>5. u = [a \in DOMAIN t \cup N |-> IF a \in N THEN new(a) ELSE t[a]]
  BY <1>4 DEF Announced
<1> HIDE DEF new, N, Entry
<1>6. DOMAIN u = DOMAIN t \cup N /\ u \in [DOMAIN u -> Entry]
  BY <1>2, <1>3, <1>5
<1>7. DOMAIN u \subseteq Peers
  BY <1>2, <1>6 DEF N
<1> QED
  BY <1>4, <1>6, <1>7 DEF RelTable, Entry
-----------------------------------------------------------------------------
\* handle_message_h(), whatever of the queues is left.
LEMMA HandleKept ==
  ASSUME HandshakeInv, NEW q \in Peers, up[q], NEW d \in GoodMsgs(q),
         NEW rest, QueuesOf(rest, Good), Handle(q, d, rest), UNCHANGED <<up, gen>>
  PROVE  /\ DOMAIN NEIGHBORS' = Peers /\ NEIGHBORS' = [p \in Peers |-> NEIGHBORS'[p]]
         /\ DOMAIN POTENTIAL' = Peers /\ POTENTIAL' = [p \in Peers |-> POTENTIAL'[p]]
         /\ \A p \in Peers : RelTable(POTENTIAL'[p])
         /\ told' \in [Peers -> SUBSET Peers]
         /\ TablesGood'
         /\ QueuesOf(net', Good')
<1> USE DEF HandshakeInv
<1>1. PICK nbrs : nbrs = IF d.goaway THEN T!remove_neighbor_aux(NEIGHBORS[q], d.from)
                         ELSE Greeted(q, d)
  OBVIOUS
<1> DEFINE new == d.from \in DOMAIN nbrs \ DOMAIN NEIGHBORS[q]
<1>3. PICK pot : pot = IF new THEN T!remove_neighbor_aux(POTENTIAL[q], d.from)
                       ELSE POTENTIAL[q]
  OBVIOUS
<1>4. /\ NEIGHBORS' = [NEIGHBORS EXCEPT ![q] = nbrs]
      /\ POTENTIAL' = [POTENTIAL EXCEPT ![q] = Announced(pot, nbrs, d.ngbs)]
      /\ told' = IF d.source = IdOf(d.from)
                 THEN [told EXCEPT ![d.from] = @ \cup {q}] ELSE told
      /\ net' = Sent(rest, IF new THEN LongHellos(q, nbrs, {}) ELSE Same({}, NoId))
  BY <1>1, <1>3 DEF Handle
<1> HIDE DEF new
<1>5. d \in Message /\ d.from \in Peers /\ d.ngbs \in SUBSET Peers
  BY DEF GoodMsgs, Message
<1>6. /\ told' \in [Peers -> SUBSET Peers] /\ MoreTold
      /\ d.source = IdOf(d.from) => q \in told'[d.from]
  BY <1>4, <1>5 DEF HandshakeTypes, MoreTold
<1>7. GoodTable(q, nbrs)'
  <2>1. PICK t : t = NEIGHBORS[q]
    OBVIOUS
  <2>2. GoodTable(q, t)
    BY <2>1 DEF TablesGood
  <2>3. CASE d.goaway
    <3>1. nbrs = [a \in DOMAIN t \ {d.from} |-> t[a]]
      BY <1>1, <2>1, <2>3 DEF T!remove_neighbor_aux
    <3>2. GoodTable(q, nbrs)
      BY <2>2, <3>1, FewerEntries
    <3> QED
      BY <3>2, <1>6, TableStays
  <2>4. CASE ~d.goaway /\ Taken(q, d)
    BY <1>1, <1>6, <2>4, HelloEntry
  <2>5. CASE ~d.goaway /\ ~Taken(q, d)
    <3>1. nbrs = t
      BY <1>1, <2>1, <2>5 DEF Greeted
    <3> QED
      BY <2>2, <3>1, <1>6, TableStays
  <2> QED
    BY <2>3, <2>4, <2>5
<1>8. /\ DOMAIN NEIGHBORS' = Peers /\ NEIGHBORS' = [p \in Peers |-> NEIGHBORS'[p]]
      /\ TablesGood'
  BY <1>4, <1>6, <1>7, TablesGoodStep
<1>9. /\ DOMAIN POTENTIAL' = Peers /\ POTENTIAL' = [p \in Peers |-> POTENTIAL'[p]]
      /\ \A p \in Peers : RelTable(POTENTIAL'[p])
  <2>1. RelTable(POTENTIAL[q])
    BY DEF HandshakeTypes
  <2>2. RelTable(pot)
    <3>1. CASE new
      <4>1. PICK t : t = POTENTIAL[q]
        OBVIOUS
      <4>2. pot = [a \in DOMAIN t \ {d.from} |-> t[a]]
        BY <1>3, <3>1, <4>1 DEF T!remove_neighbor_aux
      <4> QED
        BY <2>1, <4>1, <4>2, FewerPotential
    <3>2. CASE ~new
      BY <1>3, <2>1, <3>2
    <3> QED
      BY <3>1, <3>2
  <2>3. PICK u : u = Announced(pot, nbrs, d.ngbs)
    OBVIOUS
  <2>4. RelTable(u)
    BY <1>5, <2>2, <2>3, AnnouncedType
  <2>5. /\ DOMAIN POTENTIAL' = Peers /\ POTENTIAL' = [p \in Peers |-> POTENTIAL'[p]]
        /\ \A p \in Peers : POTENTIAL'[p] = IF p = q THEN u ELSE POTENTIAL[p]
    BY <1>4, <2>3 DEF HandshakeTypes
  <2> QED
    BY <2>4, <2>5 DEF HandshakeTypes
<1>10. QueuesOf(net', Good')
  <2>1. QueuesOf(rest, Good')
    BY <1>6, QueuesStay
  <2>2. CASE new
    <3>1. PICK out : out = LongHellos(q, nbrs, {})
      OBVIOUS
    <3>2. DOMAIN out = DOMAIN nbrs
      BY <3>1 DEF LongHellos
    <3>3. \A a \in DOMAIN nbrs : out[a] \in GoodMsgs(a)'
      BY <1>6, <1>7, <3>1, LongHellosGood
    <3>4. \A a \in DOMAIN out \cap Peers : out[a] \in Good'[a]
      BY <3>2, <3>3 DEF Good
    <3> QED
      BY <1>4, <2>1, <2>2, <3>1, <3>4, SentQueues
  <2>3. CASE ~new
    BY <1>4, <2>1, <2>3, NothingSent
  <2> QED
    BY <2>2, <2>3
<1> QED
  BY <1>6, <1>8, <1>9, <1>10

LEMMA DeliverInv ==
  ASSUME HandshakeInv, NEW q \in Peers, NEW i, Deliver(q, i)
  PROVE  HandshakeInv'
<1>1. i \in 1..Len(net[q]) /\ UNCHANGED <<up, gen, done>> /\ faults' \in 0..MaxFaults
  BY HandshakeAssumption DEF Deliver, Arrives, HandshakeInv, HandshakeTypes
<1>2. QueuesOf(Without(q, i), Good) /\ net[q][i] \in GoodMsgs(q)
  BY <1>1, RemovedQueues DEF HandshakeInv, Without, Good
<1>3. CASE up[q]
  <2>1. Handle(q, net[q][i], Without(q, i))
    BY <1>3 DEF Deliver
  <2>2. PICK d, rest : d = net[q][i] /\ rest = Without(q, i)
    OBVIOUS
  <2>3. Handle(q, d, rest) /\ d \in GoodMsgs(q) /\ QueuesOf(rest, Good)
    BY <2>1, <2>2, <1>2
  <2> QED
    BY <1>1, <1>3, <2>3, HandleKept DEF HandshakeInv, HandshakeTypes
<1>4. CASE ~up[q]
  <2>1. net' = Without(q, i) /\ UNCHANGED <<NEIGHBORS, POTENTIAL, told>>
    BY <1>4 DEF Deliver
  <2>2. HandshakeTypes' /\ Good' = Good
    BY <1>1, <2>1 DEF HandshakeInv, HandshakeTypes, Good, GoodMsgs, Issued, IdOf
  <2>3. TablesGood'
    BY <1>1, <2>1 DEF HandshakeInv, TablesGood, GoodTable, GoodEntry, Issued, IdOf,
                      T!issymmetrical
  <2> QED
    BY <1>2, <2>1, <2>2, <2>3 DEF HandshakeInv
<1> QED
  BY <1>3, <1>4

LEMMA LoseInv ==
  ASSUME HandshakeInv, NEW q \in Peers, NEW i, Lose(q, i)
  PROVE  HandshakeInv'
<1>1. /\ i \in 1..Len(net[q]) /\ net' = Without(q, i)
      /\ UNCHANGED <<up, gen, NEIGHBORS, POTENTIAL, told, done>>
      /\ faults < MaxFaults /\ faults' = faults + 1
  BY DEF Lose, Arrives
<1>2. QueuesOf(Without(q, i), Good)
  BY <1>1, RemovedQueues DEF HandshakeInv, Without
<1>3. HandshakeTypes' /\ Good' = Good
  BY <1>1, HandshakeAssumption DEF HandshakeInv, HandshakeTypes, Good, GoodMsgs, Issued, IdOf
<1>4. TablesGood'
  BY <1>1 DEF HandshakeInv, TablesGood, GoodTable, GoodEntry, Issued, IdOf, T!issymmetrical
<1> QED
  BY <1>1, <1>2, <1>3, <1>4 DEF HandshakeInv

LEMMA DuplicateInv ==
  ASSUME HandshakeInv, NEW q \in Peers, NEW i, Duplicate(q, i)
  PROVE  HandshakeInv'
<1>1. /\ i \in 1..Len(net[q]) /\ up[q] /\ UNCHANGED <<up, gen, done>>
      /\ faults < MaxFaults /\ faults' = faults + 1
      /\ Handle(q, net[q][i], net)
  BY DEF Duplicate, Arrives
<1>2. PICK d, rest : d = net[q][i] /\ rest = net
  OBVIOUS
<1>3. Handle(q, d, rest) /\ QueuesOf(rest, Good)
  BY <1>1, <1>2 DEF HandshakeInv
<1>4. d \in GoodMsgs(q)
  <2>1. rest[q] \in Seq(GoodMsgs(q))
    BY <1>3 DEF QueuesOf, Good
  <2> QED
    BY <1>1, <1>2, <2>1
<1>5. faults' \in 0..MaxFaults
  BY <1>1, HandshakeAssumption DEF HandshakeInv, HandshakeTypes
<1> QED
  BY <1>1, <1>3, <1>4, <1>5, HandleKept DEF HandshakeInv, HandshakeTypes

LEMMA StopInv ==
  ASSUME HandshakeInv, NEW p \in Peers, NEW farewell, Stop(p, farewell),
         \A a \in DOMAIN farewell \cap Peers : farewell[a] \in GoodMsgs(a)
  PROVE  HandshakeInv'
<1>1. /\ up' = [up EXCEPT ![p] = FALSE] /\ net' = Sent(net, farewell)
      /\ UNCHANGED <<gen, NEIGHBORS, POTENTIAL, told, done, faults>>
  BY DEF Stop
<1>2. QueuesOf(Sent(net, farewell), Good)
  BY SentQueues DEF HandshakeInv, Good
<1>3. HandshakeTypes' /\ Good' = Good
  BY <1>1 DEF HandshakeInv, HandshakeTypes, Good, GoodMsgs, Issued, IdOf
<1>4. TablesGood'
  BY <1>1 DEF HandshakeInv, TablesGood, GoodTable, GoodEntry, Issued, IdOf, T!issymmetrical
<1> QED
  BY <1>1, <1>2, <1>3, <1>4 DEF HandshakeInv

LEMMA CrashInv ==
  ASSUME HandshakeInv, NEW p \in Peers, Crash(p) \/ disconnect(p)
  PROVE  HandshakeInv'
<1>1. CASE Crash(p)
  <2>1. PICK out : out = Same({}, NoId)
    OBVIOUS
  <2>2. DOMAIN out = {}
    BY <2>1 DEF Same
  <2> QED
    BY <1>1, <2>1, <2>2, StopInv DEF Crash
<1>2. CASE disconnect(p)
  <2>1. PICK bye : bye = Datagram(p, NoId, NoDest, {}, TRUE)
    OBVIOUS
  <2>2. PICK out : out = Same(DOMAIN NEIGHBORS[p], bye)
    OBVIOUS
  <2>3. \A a \in DOMAIN out : out[a] = bye
    BY <2>2 DEF Same
  <2>4. \A a \in Peers : bye \in GoodMsgs(a)
    BY <2>1, GoawayGood
  <2> QED
    BY <1>2, <2>1, <2>2, <2>3, <2>4, StopInv DEF disconnect
<1> QED
  BY <1>1, <1>2

LEMMA StartInv ==
  ASSUME HandshakeInv, NEW p \in Peers, Start(p)
  PROVE  HandshakeInv'
<1> USE DEF HandshakeInv
<1>1. /\ gen[p] < MaxGen
      /\ up' = [up EXCEPT ![p] = TRUE]
      /\ gen' = [gen EXCEPT ![p] = @ + 1]
      /\ NEIGHBORS' = [NEIGHBORS EXCEPT ![p] = NoTable]
      /\ POTENTIAL' = [POTENTIAL EXCEPT ![p] = NoTable]
      /\ told' = [told EXCEPT ![p] = {}]
      /\ net' = Sent(net, Same(Contacts[p], ShortHello(p, gen[p] + 1)))
      /\ done' = done \ {p} /\ UNCHANGED faults
  BY DEF Start
<1>2. gen[p] + 1 \in 1..MaxGen /\ gen'[p] = gen[p] + 1
  BY <1>1, HandshakeAssumption DEF HandshakeTypes
<1>3. HandshakeTypes'
  <2>1. up' \in [Peers -> BOOLEAN] /\ told' \in [Peers -> SUBSET Peers]
    BY <1>1 DEF HandshakeTypes
  <2>2. gen' \in [Peers -> 0..MaxGen]
    BY <1>1, <1>2, HandshakeAssumption DEF HandshakeTypes
  <2>3. \A r \in Peers : up'[r] => gen'[r] >= 1
    BY <1>1, <1>2, HandshakeAssumption DEF HandshakeTypes
  <2>4. /\ DOMAIN NEIGHBORS' = Peers /\ NEIGHBORS' = [r \in Peers |-> NEIGHBORS'[r]]
        /\ DOMAIN POTENTIAL' = Peers /\ POTENTIAL' = [r \in Peers |-> POTENTIAL'[r]]
    BY <1>1 DEF HandshakeTypes
  <2>5. \A r \in Peers : RelTable(POTENTIAL'[r])
    <3>1. PICK e : e = NoTable
      OBVIOUS
    <3>2. RelTable(e)
      BY <3>1, EmptyTable
    <3>3. \A r \in Peers : POTENTIAL'[r] = IF r = p THEN e ELSE POTENTIAL[r]
      BY <1>1, <3>1 DEF HandshakeTypes
    <3> QED
      BY <3>2, <3>3 DEF HandshakeTypes
  <2> QED
    BY <1>1, <2>1, <2>2, <2>3, <2>4, <2>5 DEF HandshakeTypes
<1>4. /\ \A q \in Peers : Good[q] \subseteq Good'[q]
      /\ \A r \in Peers \ {p} : \A a \in Peers : \A v :
           GoodEntry(r, a, v) => GoodEntry(r, a, v)'
  BY <1>1, NewIdUnknown
<1>5. TablesGood'
  <2> SUFFICES ASSUME NEW r \in Peers
               PROVE  /\ DOMAIN NEIGHBORS'[r] \subseteq Peers
                      /\ NEIGHBORS'[r] = [a \in DOMAIN NEIGHBORS'[r] |-> NEIGHBORS'[r][a]]
                      /\ \A a \in DOMAIN NEIGHBORS'[r] : GoodEntry(r, a, NEIGHBORS[r][a])'
    BY DEF TablesGood, GoodTable
  <2>1. PICK u : u = NEIGHBORS'[r]
    OBVIOUS
  <2>2. CASE r = p
    <3>1. u = NoTable
      BY <1>1, <2>1, <2>2 DEF HandshakeTypes
    <3> QED
      BY <2>1, <3>1 DEF NoTable
  <2>3. CASE r # p
    <3>1. u = NEIGHBORS[r]
      BY <1>1, <2>1, <2>3 DEF HandshakeTypes
    <3>2. GoodTable(r, u)
      BY <3>1 DEF TablesGood
    <3>3. /\ DOMAIN u \subseteq Peers /\ u = [a \in DOMAIN u |-> u[a]]
          /\ \A a \in DOMAIN u : GoodEntry(r, a, u[a])'
      BY <3>2, <1>4, <2>3 DEF GoodTable
    <3> QED
      BY <2>1, <3>3 DEF GoodEntry, Issued, IdOf, T!issymmetrical
  <2> QED
    BY <2>2, <2>3
<1>6. QueuesOf(net', Good')
  <2>1. PICK M, N : M = Good /\ N = Good'
    OBVIOUS
  <2>2. QueuesOf(net, N)
    BY <1>4, <2>1, LargerQueues
  <2>3. PICK d, g : g = gen[p] + 1 /\ d = ShortHello(p, g)
    OBVIOUS
  <2>4. d \in Message /\ d.source = <<p, g>> /\ d.dest = NoDest
    BY <1>2, <2>3, PlainMessages
  <2>5. Issued(<<p, g>>)'
    BY <1>2, <2>3, IdFacts DEF Issued
  <2>6. ASSUME NEW a \in Peers PROVE d \in N[a]
    <3>1. IdOf(a)' # NoDest
      <4>1. gen'[a] \in Nat
        BY <1>3 DEF HandshakeTypes
      <4> QED
        BY <4>1, HandshakeAssumption DEF IdOf
    <3>2. Issued(d.source)'
      BY <2>4, <2>5
    <3>3. d \in GoodMsgs(a)'
      BY <2>4, <3>1, <3>2 DEF GoodMsgs
    <3> QED
      BY <3>3, <2>1 DEF Good
  <2>7. PICK out : out = Same(Contacts[p], d)
    OBVIOUS
  <2>8. \A a \in DOMAIN out \cap Peers : out[a] \in N[a]
    BY <2>6, <2>7 DEF Same
  <2>9. QueuesOf(Sent(net, out), N)
    BY <2>2, <2>8, SentQueues
  <2> QED
    BY <1>1, <2>1, <2>3, <2>7, <2>9
<1> QED
  BY <1>3, <1>5, <1>6

LEMMA RoundInv ==
  ASSUME HandshakeInv, NEW p \in Peers, Round(p)
  PROVE  HandshakeInv'
<1> USE DEF HandshakeInv
<1>1. PICK t, pot : t = Fresh(NEIGHBORS[p]) /\ pot = Fresh(POTENTIAL[p])
  OBVIOUS
<1>2. PICK S : S = IF Cardinality(Symmetric(p)) <= MIN_SYM THEN DOMAIN pot ELSE {}
  OBVIOUS
<1>3. /\ up[p] /\ done' = done \cup {p}
      /\ NEIGHBORS' = [NEIGHBORS EXCEPT ![p] = t]
      /\ POTENTIAL' = [POTENTIAL EXCEPT ![p] = pot]
      /\ net' = Sent(Sent(net, LongHellos(p, t, Symmetric(p))),
                     Same(S, ShortHello(p, gen[p])))
      /\ UNCHANGED <<up, gen, told, faults>>
  BY <1>1, <1>2 DEF Round
<1>4. MoreTold
  BY <1>3 DEF MoreTold
<1>5. GoodTable(p, t)'
  <2>1. PICK u : u = NEIGHBORS[p]
    OBVIOUS
  <2>2. GoodTable(p, u)
    BY <2>1 DEF TablesGood
  <2>3. PICK D : D = {b \in DOMAIN u : ~T!is_old(u[b])}
    OBVIOUS
  <2>4. t = [a \in D |-> u[a]] /\ D \subseteq DOMAIN u
    BY <1>1, <2>1, <2>3 DEF Fresh
  <2>5. GoodTable(p, t)
    BY <2>2, <2>4, FewerEntries
  <2> QED
    BY <2>5, <1>4, TableStays
<1>6. RelTable(pot)
  <2>1. PICK u : u = POTENTIAL[p]
    OBVIOUS
  <2>2. RelTable(u)
    BY <2>1 DEF HandshakeTypes
  <2>3. PICK D : D = {b \in DOMAIN u : ~T!is_old(u[b])}
    OBVIOUS
  <2>4. pot = [a \in D |-> u[a]] /\ D \subseteq DOMAIN u
    BY <1>1, <2>1, <2>3 DEF Fresh
  <2> QED
    BY <2>2, <2>4, FewerPotential
<1>7. /\ DOMAIN NEIGHBORS' = Peers /\ NEIGHBORS' = [r \in Peers |-> NEIGHBORS'[r]]
      /\ TablesGood'
  BY <1>3, <1>4, <1>5, TablesGoodStep
<1>8. /\ DOMAIN POTENTIAL' = Peers /\ POTENTIAL' = [r \in Peers |-> POTENTIAL'[r]]
      /\ \A r \in Peers : POTENTIAL'[r] = IF r = p THEN pot ELSE POTENTIAL[r]
  BY <1>3 DEF HandshakeTypes
<1>9. HandshakeTypes'
  BY <1>3, <1>6, <1>7, <1>8 DEF HandshakeTypes
<1>10. QueuesOf(net', Good')
  <2>1. PICK N : N = Good'
    OBVIOUS
  <2>2. QueuesOf(net, N)
    BY <2>1, <1>4, QueuesStay
  <2>3. Symmetric(p) \in SUBSET Peers
    BY DEF Symmetric, TablesGood, GoodTable
  <2>4. PICK out : out = LongHellos(p, t, Symmetric(p))
    OBVIOUS
  <2>5. DOMAIN out = DOMAIN t
    BY <2>4 DEF LongHellos
  <2>6. \A a \in DOMAIN t : out[a] \in GoodMsgs(a)'
    BY <1>3, <1>4, <1>5, <2>3, <2>4, LongHellosGood
  <2>7. \A a \in DOMAIN out \cap Peers : out[a] \in N[a]
    BY <2>1, <2>5, <2>6 DEF Good
  <2>8. PICK n : n = Sent(net, out)
    OBVIOUS
  <2>9. QueuesOf(n, N)
    BY <2>2, <2>7, <2>8, SentQueues
  <2>10. PICK short : short = Same(S, ShortHello(p, gen[p]))
    OBVIOUS
  <2>11. \A a \in DOMAIN short : short[a] = ShortHello(p, gen[p])
    BY <2>10 DEF Same
  <2>12. \A a \in DOMAIN short \cap Peers : short[a] \in N[a]
    <3>1. \A a \in Peers : ShortHello(p, gen[p]) \in Good[a]
      BY <1>3, ShortHelloGood DEF Good
    <3> QED
      BY <3>1, <2>1, <2>11, <1>4, GoodStays
  <2>13. QueuesOf(Sent(n, short), N)
    BY <2>9, <2>12, SentQueues
  <2> QED
    BY <1>3, <2>1, <2>4, <2>8, <2>10, <2>13
<1> QED
  BY <1>7, <1>9, <1>10

\* An entry that is a round older is less symmetric.
LEMMA OlderDate ==
  ASSUME NEW date \in Never..0
  PROVE  Older(date) \in Never..0 /\ Older(date) <= date
BY NeverIs DEF Older

Entries(I) == [id : I, last_hello : Never..0, last_hello_long : Never..0]

LEMMA AgedFields ==
  ASSUME NEW I, NEW t, NEW u, u = Aged(t),
         t \in [DOMAIN t -> Entries(I)]
  PROVE  /\ DOMAIN u = DOMAIN t /\ u = [a \in DOMAIN u |-> u[a]]
         /\ \A a \in DOMAIN t :
              /\ u[a] \in Entries(I)
              /\ u[a].id = t[a].id /\ u[a].last_hello_long <= t[a].last_hello_long
<1>1. u = [a \in DOMAIN t |-> [t[a] EXCEPT !.last_hello = Older(@),
                                           !.last_hello_long = Older(@)]]
  BY DEF Aged
<1>2. DOMAIN u = DOMAIN t /\ u = [a \in DOMAIN u |-> u[a]]
  BY <1>1
<1>3. ASSUME NEW a \in DOMAIN t
      PROVE  /\ u[a] \in Entries(I)
             /\ u[a].id = t[a].id /\ u[a].last_hello_long <= t[a].last_hello_long
  <2>1. PICK v \in Entries(I) : v = t[a]
    OBVIOUS
  <2>2. u[a] = [v EXCEPT !.last_hello = Older(v.last_hello),
                         !.last_hello_long = Older(v.last_hello_long)]
    BY <1>1, <2>1 DEF Entries
  <2>3. /\ Older(v.last_hello) \in Never..0
        /\ Older(v.last_hello_long) \in Never..0
        /\ Older(v.last_hello_long) <= v.last_hello_long
    BY <2>1, OlderDate DEF Entries
  <2> QED
    BY <2>1, <2>2, <2>3 DEF Entries
<1> QED
  BY <1>2, <1>3

LEMMA TickInv ==
  ASSUME HandshakeInv, Tick
  PROVE  HandshakeInv'
<1> USE DEF HandshakeInv
<1>1. /\ done' = {} /\ NEIGHBORS' = [p \in Peers |-> Aged(NEIGHBORS[p])]
      /\ POTENTIAL' = [p \in Peers |-> Aged(POTENTIAL[p])]
      /\ UNCHANGED <<up, gen, told, net, faults>>
  BY DEF Tick
<1>2. Good' = Good /\ MoreTold
  BY <1>1 DEF Good, GoodMsgs, Issued, IdOf, MoreTold
<1>3. ASSUME NEW p \in Peers PROVE RelTable(POTENTIAL'[p])
  <2>1. PICK t, u, I : t = POTENTIAL[p] /\ u = Aged(t) /\ I = Ids \cup {NoId}
    OBVIOUS
  <2>2. DOMAIN t \subseteq Peers
        /\ t \in [DOMAIN t -> Entries(I)]
    BY <2>1 DEF HandshakeTypes, RelTable, Entries
  <2>3. /\ DOMAIN u = DOMAIN t /\ u = [a \in DOMAIN u |-> u[a]]
        /\ \A a \in DOMAIN t :
             u[a] \in Entries(I)
    <3>1. u = Aged(t)
      BY <2>1
    <3> QED
      BY ONLY <3>1, <2>2, AgedFields
  <2>4. POTENTIAL'[p] = u
    BY <1>1, <2>1
  <2>5. u \in [DOMAIN u -> Entries(I)]
    BY <2>3
  <2> QED
    BY <2>1, <2>2, <2>3, <2>4, <2>5 DEF RelTable, Entries
<1>4. TablesGood'
  <2> SUFFICES ASSUME NEW p \in Peers
               PROVE  /\ DOMAIN NEIGHBORS'[p] \subseteq Peers
                      /\ NEIGHBORS'[p] = [a \in DOMAIN NEIGHBORS'[p] |-> NEIGHBORS'[p][a]]
                      /\ \A a \in DOMAIN NEIGHBORS'[p] : GoodEntry(p, a, NEIGHBORS[p][a])'
    BY DEF TablesGood, GoodTable
  <2>1. PICK t, u : t = NEIGHBORS[p] /\ u = Aged(t)
    OBVIOUS
  <2>2. GoodTable(p, t) /\ NEIGHBORS'[p] = u
    BY <1>1, <2>1 DEF TablesGood
  <2>3. /\ DOMAIN t \subseteq Peers /\ t = [a \in DOMAIN t |-> t[a]]
        /\ \A a \in DOMAIN t : GoodEntry(p, a, t[a])
    BY <2>2 DEF GoodTable
  <2>4. t \in [DOMAIN t -> Entries(Ids)]
    BY <2>3 DEF GoodEntry, Entries
  <2>5. /\ DOMAIN u = DOMAIN t /\ u = [a \in DOMAIN u |-> u[a]]
        /\ \A a \in DOMAIN t :
             /\ u[a] \in Entries(Ids)
             /\ u[a].id = t[a].id /\ u[a].last_hello_long <= t[a].last_hello_long
    BY <2>1, <2>4, AgedFields
  <2>6. ASSUME NEW a \in DOMAIN t PROVE GoodEntry(p, a, u[a])
    <3>1. GoodEntry(p, a, t[a])
      BY <2>3
    <3>2. T!issymmetrical(u[a]) => T!issymmetrical(t[a])
      <4>1. /\ u[a].last_hello_long \in Int /\ t[a].last_hello_long \in Int
            /\ u[a].last_hello_long <= t[a].last_hello_long
        BY <2>4, <2>5, NeverIs DEF Entries
      <4> QED
        BY <4>1, NeverIs DEF T!issymmetrical
    <3> QED
      BY <3>1, <3>2, <2>5 DEF GoodEntry, Entries
  <2>7. \A a \in DOMAIN u : GoodEntry(p, a, u[a])'
    BY <2>3, <2>5, <2>6, <1>2, GoodStays
  <2> QED
    BY <2>2, <2>3, <2>5, <2>7 DEF GoodEntry, Issued, IdOf, T!issymmetrical
<1>5. HandshakeTypes'
  BY <1>1, <1>3 DEF HandshakeTypes
<1> QED
  BY <1>1, <1>2, <1>4, <1>5

-----------------------------------------------------------------------------
\* What is under way at first.
LEMMA FirstQueues ==
  ASSUME NEW a \in Peers, NEW s \in FirstHellos(a),
         gen = [p \in Peers |-> IF p \in Boot THEN 1 ELSE 0],
         told = [p \in Peers |-> {}]
  PROVE  s \in Seq(GoodMsgs(a))
<1>1. PICK B : B = {p \in Boot : a \in Contacts[p]}
  OBVIOUS
<1>2. B \subseteq Peers /\ B \subseteq Boot
  BY <1>1, HandshakeAssumption
<1>3. Cardinality(B) \in Nat
  BY <1>2, HandshakeAssumption, FS_Subset, FS_CardinalityType
<1>4. PICK n \in Nat : n = Cardinality(B)
  BY <1>3
<1>5. PICK o \in [1..n -> B] : s = [i \in DOMAIN o |-> ShortHello(o[i], 1)]
  <2>1. PICK o \in SetToSeqs(B) : s = [i \in DOMAIN o |-> ShortHello(o[i], 1)]
    BY <1>1 DEF FirstHellos
  <2>2. o \in [1..n -> B]
    BY <2>1, <1>4 DEF SetToSeqs
  <2> QED
    BY <2>1, <2>2
<1>6. IdOf(a) # NoDest
  <2>1. gen[a] \in Nat
    OBVIOUS
  <2> QED
    BY <2>1, HandshakeAssumption DEF IdOf
<1>7. ASSUME NEW p \in B PROVE ShortHello(p, 1) \in GoodMsgs(a)
  <2>1. p \in Peers /\ gen[p] = 1 /\ 1 \in 1..MaxGen
    BY <1>2, HandshakeAssumption
  <2>2. PICK d : d = ShortHello(p, 1)
    OBVIOUS
  <2>3. d \in Message /\ d.source = <<p, 1>> /\ d.dest = NoDest
    BY <2>1, <2>2, PlainMessages
  <2>4. Issued(<<p, 1>>)
    BY <2>1, IdFacts DEF Issued
  <2> QED
    BY <1>6, <2>2, <2>3, <2>4 DEF GoodMsgs
<1>8. DOMAIN s = 1..n /\ s = [i \in 1..n |-> s[i]]
      /\ \A i \in 1..n : s[i] \in GoodMsgs(a)
  BY <1>5, <1>7
<1>9. PICK M : M = GoodMsgs(a)
  OBVIOUS
<1>10. s = [i \in 1..n |-> s[i]] /\ \A i \in 1..n : s[i] \in M
  BY <1>8, <1>9
<1>11. s \in Seq(M)
  BY ONLY <1>10, n \in Nat
<1> QED
  BY <1>9, <1>11

LEMMA HandshakeInitInv == Init => HandshakeInv
<1> SUFFICES ASSUME Init PROVE HandshakeInv
  OBVIOUS
<1> USE DEF Init
<1>1. HandshakeTypes
  <2>1. up \in [Peers -> BOOLEAN] /\ \A p \in Peers : up[p] => p \in Boot
    <3>1. up = [p \in Peers |-> p \in Boot]
      OBVIOUS
    <3>2. up \in [Peers -> BOOLEAN]
      BY ONLY <3>1, SMT
    <3>3. \A p \in Peers : up[p] => p \in Boot
      BY ONLY <3>1, Zenon
    <3> QED
      BY ONLY <3>2, <3>3
  <2>2. gen \in [Peers -> 0..MaxGen] /\ \A p \in Boot : gen[p] >= 1
    BY HandshakeAssumption
  <2>3. \A p \in Peers : RelTable(POTENTIAL[p])
    BY EmptyTable
  <2>4. /\ DOMAIN NEIGHBORS = Peers /\ NEIGHBORS = [p \in Peers |-> NEIGHBORS[p]]
        /\ DOMAIN POTENTIAL = Peers /\ POTENTIAL = [p \in Peers |-> POTENTIAL[p]]
    OBVIOUS
  <2> QED
    BY <2>1, <2>2, <2>3, <2>4, HandshakeAssumption DEF HandshakeTypes
<1>2. TablesGood
  BY DEF TablesGood, GoodTable, NoTable
<1>3. QueuesOf(net, Good)
  <2>1. DOMAIN net = Peers /\ net = [q \in Peers |-> net[q]]
        /\ \A q \in Peers : net[q] \in FirstHellos(q)
    OBVIOUS
  <2>2. \A q \in Peers : net[q] \in Seq(GoodMsgs(q))
    BY <2>1, FirstQueues
  <2> QED
    BY <2>1, <2>2 DEF QueuesOf, Good
<1> QED
  BY <1>1, <1>2, <1>3 DEF HandshakeInv

LEMMA HandshakeNextInv == HandshakeInv /\ [Next]_vars => HandshakeInv'
<1> SUFFICES ASSUME HandshakeInv, [Next]_vars PROVE HandshakeInv'
  OBVIOUS
<1>1. ASSUME NEW p \in Peers, Start(p) PROVE HandshakeInv'
  BY <1>1, StartInv
<1>2. ASSUME NEW p \in Peers, Crash(p) PROVE HandshakeInv'
  BY <1>2, CrashInv
<1>3. ASSUME NEW p \in Peers, disconnect(p) PROVE HandshakeInv'
  BY <1>3, CrashInv
<1>4. ASSUME NEW p \in Peers, Round(p) PROVE HandshakeInv'
  BY <1>4, RoundInv
<1>5. ASSUME NEW q \in Peers, NEW i \in 1..Window, Deliver(q, i) PROVE HandshakeInv'
  BY <1>5, DeliverInv
<1>6. ASSUME NEW q \in Peers, NEW i \in 1..Window, Lose(q, i) PROVE HandshakeInv'
  BY <1>6, LoseInv
<1>7. ASSUME NEW q \in Peers, NEW i \in 1..Window, Duplicate(q, i) PROVE HandshakeInv'
  BY <1>7, DuplicateInv
<1>8. CASE Tick
  BY <1>8, TickInv
<1>9. CASE UNCHANGED vars
  <2>1. HandshakeTypes'
    BY <1>9 DEF vars, HandshakeInv, HandshakeTypes, RelTable
  <2>2. TablesGood'
    BY <1>9 DEF vars, HandshakeInv, TablesGood, GoodTable, GoodEntry, Issued, IdOf,
                T!issymmetrical
  <2>3. QueuesOf(net, Good)'
    <3>1. Good' = Good
      BY <1>9 DEF vars, Good, GoodMsgs, Issued, IdOf
    <3> QED
      BY <1>9, <3>1 DEF vars, HandshakeInv, QueuesOf
  <2> QED
    BY <2>1, <2>2, <2>3 DEF HandshakeInv
<1> QED
  BY <1>1, <1>2, <1>3, <1>4, <1>5, <1>6, <1>7, <1>8, <1>9 DEF Next

LEMMA HandshakeInvariant == Spec => []HandshakeInv
BY HandshakeInitInv, HandshakeNextInv, PTL DEF Spec
-----------------------------------------------------------------------------
LEMMA HandshakeInvTypes == HandshakeInv => HandshakeTypeOK
<1> SUFFICES ASSUME HandshakeInv PROVE HandshakeTypeOK
  OBVIOUS
<1> USE DEF HandshakeInv
<1>1. ASSUME NEW p \in Peers PROVE RelTable(NEIGHBORS[p])
  <2>1. PICK t : t = NEIGHBORS[p]
    OBVIOUS
  <2>2. GoodTable(p, t)
    BY <2>1 DEF TablesGood
  <2>3. /\ DOMAIN t \subseteq Peers /\ t = [a \in DOMAIN t |-> t[a]]
        /\ \A a \in DOMAIN t :
             t[a] \in [id : Ids, last_hello : Never..0, last_hello_long : Never..0]
    BY <2>2 DEF GoodTable, GoodEntry
  <2> QED
    BY <2>1, <2>3 DEF RelTable
<1>2. net \in [Peers -> Seq(Message)]
  <2>1. \A q \in Peers : net[q] \in Seq(Message)
    BY LargerSeq DEF QueuesOf, Good, GoodMsgs
  <2> QED
    BY <2>1 DEF QueuesOf
<1> QED
  BY <1>1, <1>2 DEF HandshakeTypes, HandshakeTypeOK

LEMMA HandshakeInvTold == HandshakeInv => SymmetricWasTold
BY DEF HandshakeInv, TablesGood, GoodTable, GoodEntry, SymmetricWasTold, Symmetric

\* The state of every peer and of the network between them keeps its type, through
\* restarts, losses and repetitions: the tables hold no identifier that was never
\* drawn by gen_id(), and what send_first_message() and the hello round put on the
\* network are well-formed datagrams.
THEOREM HandshakeTypeCorrect == Spec => []HandshakeTypeOK
BY HandshakeInvariant, HandshakeInvTypes, PTL

\* A peer counts another as symmetric only if a hello of its own current process
\* reached that one, whatever the network loses, repeats or reorders and however
\* often the peers restart (the test of dest_id in hello()).
THEOREM HandshakeSymmetricWasTold == Spec => []SymmetricWasTold
BY HandshakeInvariant, HandshakeInvTold, PTL
=============================================================================
