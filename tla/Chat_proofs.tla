---------------------------- MODULE Chat_proofs -----------------------------
(***************************************************************************)
(* Proofs about the network of peers that flood lines of chat, for any     *)
(* peers, links, seeds, authors and limits, and a network that loses,      *)
(* repeats and reorders: first the functions on one list of data, then     *)
(* what a step may do to the lists, the messages and the screens           *)
(* (ChatInv), then the broadcast that users see.                           *)
(***************************************************************************)
EXTENDS Chat, FiniteSetTheorems, SequenceTheorems, WellFoundedInduction, TLAPS

\* The least element of a set of positions.
LEMMA LeastPosition ==
  ASSUME NEW I \in SUBSET Nat, I # {}
  PROVE  Min(I) \in I
<1> DEFINE Below == {ss \in Nat \X Nat : ss[1] < ss[2]}
<1>1. IsWellFoundedOn(Below, Nat)
  BY NatLessThanWellFounded, Zenon DEF OpToRel
<1>2. PICK x \in I : \A y \in I : <<y, x>> \notin Below
  <2> HIDE DEF Below
  <2> QED BY <1>1, WFMin
<1>3. ASSUME NEW y \in I PROVE x <= y
  <2>1. ~(y < x)
    BY <1>2
  <2> QED
    BY <2>1
<1> QED
  BY <1>3 DEF Min

Index == Nat \X Nat

Counts == UNION {[S -> 0..MaxSent] : S \in SUBSET Peers}

LEMMA CountsAre ==
  ASSUME NEW f
  PROVE  f \in Counts <=> DOMAIN f \subseteq Peers /\ f \in [DOMAIN f -> 0..MaxSent]
BY DEF Counts

LEMMA DatumFields ==
  ASSUME NEW e
  PROVE  e \in Datum => /\ e = [index |-> e.index, text |-> e.text, times_sent |-> e.times_sent]
                        /\ e.index \in Index /\ e.text \in Lines
                        /\ e.times_sent \in Counts
BY DEF Datum, Counts, Index

\* Data F became G: in place, with the same neighbours still to be sent to, but for
\* q in the entries of an index in X.
Relieved(F, G, X, q) ==
  /\ G \in Seq(Datum) /\ Len(G) = Len(F)
  /\ \A i \in 1..Len(F) :
       /\ G[i].index = F[i].index /\ G[i].text = F[i].text
       /\ DOMAIN F[i].times_sent \ DOMAIN G[i].times_sent
            \subseteq (IF F[i].index \in X THEN {q} ELSE {})

\* One datum, not to be sent to q any more.
Spared(e, q) == [e EXCEPT !.times_sent = [r \in DOMAIN @ \ {q} |-> @[r]]]

LEMMA OneRelieved ==
  ASSUME NEW e \in Datum, NEW q, NEW g, g = Spared(e, q)
  PROVE  /\ g \in Datum /\ g.index = e.index /\ g.text = e.text
         /\ DOMAIN g.times_sent = DOMAIN e.times_sent \ {q}
<1> DEFINE c == e.times_sent
           h == [r \in DOMAIN c \ {q} |-> c[r]]
<1>1. /\ e = [index |-> e.index, text |-> e.text, times_sent |-> c]
      /\ e.index \in Index /\ e.text \in Lines /\ c \in Counts
  BY DatumFields
<1>2. DOMAIN c \subseteq Peers /\ c \in [DOMAIN c -> 0..MaxSent]
  BY <1>1, CountsAre
<1>3. DOMAIN h \subseteq Peers /\ h \in [DOMAIN h -> 0..MaxSent]
  BY <1>2
<1>4. h \in Counts
  BY <1>3, CountsAre
<1>5. g = [index |-> e.index, text |-> e.text, times_sent |-> h]
  BY <1>1 DEF Spared
<1> QED
  BY <1>1, <1>4, <1>5 DEF Datum, Counts, Index

\* remove_neighbor_from_flood() touches an entry of that index, if any.
LEMMA HasRelieves ==
  ASSUME NEW F \in Seq(Datum), NEW x, NEW q
  PROVE  Relieved(F, Has(F, x, q), {x}, q)
<1> DEFINE I == {i \in 1..Len(F) : F[i].index = x}
<1>1. PICK k : k = SelectInSeq(F, LAMBDA f : f.index = x)
  OBVIOUS
<1>2. k \in 1..Len(F) => F[k].index = x
  <2>1. k = IF I # {} THEN Min(I) ELSE 0
    BY <1>1 DEF SelectInSeq
  <2>2. I \in SUBSET Nat
    OBVIOUS
  <2>3. I # {} => k \in I
    <3> HIDE DEF I
    <3> QED BY <2>1, <2>2, LeastPosition
  <2> QED
    BY <2>1, <2>3
<1>3. PICK G : G = Has(F, x, q)
  OBVIOUS
<1>4. G = [i \in DOMAIN F |->
             IF i # k THEN F[i]
             ELSE Spared(F[i], q)]
  BY <1>1, <1>3 DEF Has, Spared
<1>5. DOMAIN F = 1..Len(F) /\ Len(F) \in Nat /\ \A i \in 1..Len(F) : F[i] \in Datum
  OBVIOUS
<1>6. ASSUME NEW i \in 1..Len(F)
      PROVE  /\ G[i] \in Datum /\ G[i].index = F[i].index /\ G[i].text = F[i].text
             /\ DOMAIN F[i].times_sent \ DOMAIN G[i].times_sent
                  \subseteq (IF F[i].index \in {x} THEN {q} ELSE {})
  <2>1. CASE i # k
    BY <1>4, <1>5, <2>1
  <2>2. CASE i = k
    <3>1. G[i] = Spared(F[i], q)
      BY <1>4, <1>5, <2>2
    <3>2. F[i].index = x
      BY <1>2, <2>2
    <3> QED
      BY <3>1, <3>2, <1>5, OneRelieved
  <2> QED
    BY <2>1, <2>2
<1>7. G \in Seq(Datum) /\ Len(G) = Len(F)
  <2>1. G \in [1..Len(F) -> Datum]
    BY <1>4, <1>5, <1>6
  <2> QED
    BY <2>1, <1>5
<1> QED
  BY <1>3, <1>6, <1>7 DEF Relieved

\* remove_neighbor_everywhere() touches them all.
LEMMA ForgetRelieves ==
  ASSUME NEW F \in Seq(Datum), NEW q
  PROVE  Relieved(F, Forget(F, q), Index, q)
<1>1. PICK G : G = Forget(F, q)
  OBVIOUS
<1>2. DOMAIN F = 1..Len(F) /\ Len(F) \in Nat /\ \A i \in 1..Len(F) : F[i] \in Datum
  OBVIOUS
<1>3. G = [i \in 1..Len(F) |->
             Spared(F[i], q)]
  BY <1>1, <1>2 DEF Forget, Spared
<1>4. ASSUME NEW i \in 1..Len(F)
      PROVE  /\ G[i] \in Datum /\ G[i].index = F[i].index /\ G[i].text = F[i].text
             /\ DOMAIN F[i].times_sent \ DOMAIN G[i].times_sent \subseteq {q}
             /\ F[i].index \in Index
  <2>1. G[i] = Spared(F[i], q)
    BY <1>3
  <2> QED
    BY <2>1, <1>2, OneRelieved, DatumFields
<1>5. G \in Seq(Datum) /\ Len(G) = Len(F)
  <2>1. G \in [1..Len(F) -> Datum]
    BY <1>3, <1>4
  <2> QED
    BY <2>1, <1>2
<1> QED
  BY <1>1, <1>4, <1>5 DEF Relieved

\* A transmission is counted, nobody is taken off.
LEMMA TransmitRelieves ==
  ASSUME NEW F \in Seq(Datum), NEW i \in DOMAIN F, NEW q \in DOMAIN F[i].times_sent,
         F[i].times_sent[q] < MaxSent,
         NEW G, G = [F EXCEPT ![i].times_sent[q] = @ + 1]
  PROVE  Relieved(F, G, {}, q)
<1> DEFINE c == F[i].times_sent
           h == [c EXCEPT ![q] = @ + 1]
<1>1. DOMAIN F = 1..Len(F) /\ Len(F) \in Nat /\ \A j \in 1..Len(F) : F[j] \in Datum
  OBVIOUS
<1>2. /\ F[i] = [index |-> F[i].index, text |-> F[i].text, times_sent |-> c]
      /\ F[i].index \in Index /\ F[i].text \in Lines /\ c \in Counts
  BY <1>1, DatumFields
<1>3. DOMAIN c \subseteq Peers /\ c \in [DOMAIN c -> 0..MaxSent]
  BY <1>2, CountsAre
<1>4. DOMAIN h = DOMAIN c /\ h \in [DOMAIN h -> 0..MaxSent]
  <2>1. c[q] + 1 \in 0..MaxSent
    BY <1>3, ChatAssumption
  <2> QED
    BY <2>1, <1>3
<1>5. h \in Counts
  BY <1>3, <1>4, CountsAre
<1>6. G = [F EXCEPT ![i] = [index |-> F[i].index, text |-> F[i].text, times_sent |-> h]]
  <2>1. G = [F EXCEPT ![i] = [F[i] EXCEPT !.times_sent = h]]
    OBVIOUS
  <2>2. [F[i] EXCEPT !.times_sent = h]
          = [index |-> F[i].index, text |-> F[i].text, times_sent |-> h]
    <3>1. F[i] = [index |-> F[i].index, text |-> F[i].text, times_sent |-> c]
      BY <1>2
    <3> HIDE DEF h, c
    <3> QED
      BY <3>1
  <2> QED
    BY <2>1, <2>2
<1>7. [index |-> F[i].index, text |-> F[i].text, times_sent |-> h] \in Datum
  BY <1>2, <1>5 DEF Datum, Counts, Index
<1>8. G \in Seq(Datum) /\ Len(G) = Len(F)
  <2>1. G \in [1..Len(F) -> Datum]
    BY <1>1, <1>6, <1>7
  <2> QED
    BY <2>1, <1>1
<1> HIDE DEF h, c
<1>9. ASSUME NEW j \in 1..Len(F)
      PROVE  /\ G[j].index = F[j].index /\ G[j].text = F[j].text
             /\ DOMAIN F[j].times_sent \ DOMAIN G[j].times_sent \subseteq {}
  <2>1. CASE j = i
    BY <1>1, <1>4, <1>6, <2>1 DEF c
  <2>2. CASE j # i
    BY <1>1, <1>6, <2>2
  <2> QED
    BY <2>1, <2>2
<1> QED
  BY <1>8, <1>9 DEF Relieved

\* add_message_to_flood(): one more datum, of which S are to be told, and maybe one
\* less.
NewDatum(x, m, S) == [index |-> x, text |-> m, times_sent |-> [q \in S |-> 0]]

LEMMA NewDatumIs ==
  ASSUME NEW x \in Index, NEW m \in Lines, NEW S \in SUBSET Peers
  PROVE  /\ NewDatum(x, m, S) \in Datum
         /\ NewDatum(x, m, S).index = x /\ NewDatum(x, m, S).text = m
         /\ DOMAIN NewDatum(x, m, S).times_sent = S
<1> DEFINE h == [q \in S |-> 0]
<1>1. DOMAIN h \subseteq Peers /\ h \in [DOMAIN h -> 0..MaxSent]
  BY ChatAssumption
<1>2. h \in Counts
  BY <1>1, CountsAre
<1> QED
  BY <1>2 DEF NewDatum, Datum, Counts, Index

LEMMA FloodingAdds ==
  ASSUME NEW F \in Seq(Datum), Len(F) <= NBDATA,
         NEW x \in Index, NEW m \in Lines, NEW S \in SUBSET Peers,
         NEW G, G = Flooding(F, x, m, S)
  PROVE  /\ G \in Seq(Datum) /\ Len(G) <= NBDATA
         /\ \A i \in 1..Len(G) : \/ G[i] = NewDatum(x, m, S)
                                 \/ \E j \in 1..Len(F) : G[i] = F[j]
         /\ Len(F) < NBDATA => G = Append(F, NewDatum(x, m, S))
<1>1. PICK e : e = NewDatum(x, m, S)
  OBVIOUS
<1>2. e \in Datum
  BY <1>1, NewDatumIs
<1>3. PICK A : A = Append(F, e)
  OBVIOUS
<1>4. A \in Seq(Datum) /\ Len(A) = Len(F) + 1 /\ Len(F) \in Nat
      /\ \A i \in 1..Len(A) : A[i] = IF i = Len(F) + 1 THEN e ELSE F[i]
  BY <1>2, <1>3
<1>5. G = IF Len(A) > NBDATA THEN Tail(A) ELSE A
  BY <1>1, <1>3 DEF Flooding, NewDatum
<1>6. CASE Len(A) > NBDATA
  <2>1. G = Tail(A)
    BY <1>5, <1>6
  <2>2. A # <<>>
    BY <1>4
  <2>3. G \in Seq(Datum) /\ Len(G) = Len(F) /\ \A i \in 1..Len(G) : G[i] = A[i + 1]
    BY <2>1, <2>2, <1>4
  <2>4. \A i \in 1..Len(G) : i + 1 \in 1..Len(A)
                              /\ (i + 1 # Len(F) + 1 => i + 1 \in 1..Len(F))
    BY <2>3, <1>4
  <2>5. \A i \in 1..Len(G) : G[i] = e \/ \E j \in 1..Len(F) : G[i] = F[j]
    BY <2>3, <2>4, <1>4
  <2> QED
    BY <2>3, <2>5, <1>1, <1>4, <1>6, ChatAssumption
<1>7. CASE ~(Len(A) > NBDATA)
  <2>1. G = A
    BY <1>5, <1>7
  <2>2. \A i \in 1..Len(A) : i # Len(F) + 1 => i \in 1..Len(F)
    BY <1>4
  <2> QED
    BY <2>1, <2>2, <1>1, <1>3, <1>4, <1>7, ChatAssumption
<1> QED
  BY <1>6, <1>7
-----------------------------------------------------------------------------
\* Peer p shows line m, which was given index x.
Knows(p, m, x) == m \in ToSet(shown[p]) /\ m \in DOMAIN said /\ said[m] = x

DataMsg == [type : {"data"}, from : Peers, to : Peers, index : Index, text : Lines]

AckMsg == [type : {"ack"}, from : Peers, to : Peers, index : Index]

ChatTypes ==
  /\ DATAF \in [Peers -> Seq(Datum)]
  /\ \A p \in Peers : Len(DATAF[p]) <= NBDATA
  /\ nbrs \in [Peers -> SUBSET Peers]
  /\ draws \in [Peers -> Nat]
  /\ DOMAIN said \subseteq Lines /\ said \in [DOMAIN said -> Index]
  /\ shown \in [Peers -> Seq(Lines)]
  /\ \A p \in Peers : ToSet(shown[p]) \subseteq DOMAIN said
  /\ cut \in BOOLEAN

\* Who has a datum shows it ...
HolderShows ==
  \A p \in Peers : \A i \in 1..Len(DATAF[p]) :
    Knows(p, DATAF[p][i].text, DATAF[p][i].index)

\* ... who sends it has it, and who acknowledges it shows a line of that index.
SenderShows ==
  \A d \in net :
    \/ d \in DataMsg /\ Knows(d.from, d.text, d.index)
    \/ d \in AckMsg /\ \E m \in Lines : Knows(d.from, m, d.index)

\* A neighbour that is not to be sent a datum shows it.
RestShows ==
  \A p \in Peers : \A i \in 1..Len(DATAF[p]) :
    \A q \in nbrs[p] \ DOMAIN DATAF[p][i].times_sent :
      DATAF[p][i].text \in ToSet(shown[q]) \/ Clash

ChatInv == ChatTypes /\ HolderShows /\ SenderShows /\ RestShows

\* Lines stay on the screens and keep their indices.
Grows ==
  /\ \A p \in Peers : ToSet(shown[p]) \subseteq ToSet(shown'[p])
  /\ DOMAIN said \subseteq DOMAIN said'
  /\ \A m \in DOMAIN said : said'[m] = said[m]

LEMMA KnowsStays ==
  ASSUME Grows
  PROVE  /\ \A p \in Peers : \A m, x : Knows(p, m, x) => Knows(p, m, x)'
         /\ Clash => Clash'
<1>1. ASSUME NEW p \in Peers, NEW m, NEW x, Knows(p, m, x) PROVE Knows(p, m, x)'
  BY <1>1 DEF Grows, Knows
<1>2. ASSUME Clash PROVE Clash'
  <2>1. PICK k, m \in DOMAIN said : k # m /\ said[k] = said[m]
    BY <1>2 DEF Clash
  <2>2. k \in DOMAIN said' /\ m \in DOMAIN said' /\ said'[k] = said'[m]
    BY <2>1 DEF Grows
  <2> QED
    BY <2>1, <2>2 DEF Clash
<1> QED
  BY <1>1, <1>2

\* Two lines of one index are the same, or clash.
LEMMA SameOrClash ==
  ASSUME NEW p, NEW q, NEW k, NEW m, NEW x, Knows(p, k, x), Knows(q, m, x)
  PROVE  k = m \/ Clash
BY DEF Knows, Clash

LEMMA NothingShown ==
  ASSUME UNCHANGED <<said, shown>>
  PROVE  Grows
BY DEF Grows

\* What a change of one list has to keep.
ListsKept ==
  /\ DATAF' \in [Peers -> Seq(Datum)]
  /\ \A p \in Peers : Len(DATAF'[p]) <= NBDATA
  /\ HolderShows'
  /\ RestShows'

LEMMA RelievedKept ==
  ASSUME ChatInv, NEW p \in Peers, NEW G, NEW X, NEW q,
         Relieved(DATAF[p], G, X, q), DATAF' = [DATAF EXCEPT ![p] = G],
         nbrs' \in [Peers -> SUBSET Peers], \A r \in Peers : nbrs'[r] \subseteq nbrs[r],
         UNCHANGED <<said, shown>>,
         \A i \in 1..Len(DATAF[p]) : DATAF[p][i].index \in X =>
           q \notin nbrs'[p] \/ DATAF[p][i].text \in ToSet(shown[q]) \/ Clash
  PROVE  ListsKept
<1> USE DEF ChatInv, ChatTypes
<1>0. PICK F : F = DATAF[p]
  OBVIOUS
<1>1. /\ F \in Seq(Datum) /\ Len(F) <= NBDATA
      /\ G \in Seq(Datum) /\ Len(G) = Len(F)
      /\ \A i \in 1..Len(F) :
           /\ G[i].index = F[i].index /\ G[i].text = F[i].text
           /\ DOMAIN F[i].times_sent \ DOMAIN G[i].times_sent
                \subseteq (IF F[i].index \in X THEN {q} ELSE {})
  BY <1>0 DEF Relieved
<1>2. Clash' <=> Clash
  BY DEF Clash
<1>3. DATAF' \in [Peers -> Seq(Datum)] /\ \A r \in Peers : Len(DATAF'[r]) <= NBDATA
  BY <1>1
<1>4. ASSUME NEW r \in Peers, NEW i \in 1..Len(DATAF'[r])
      PROVE  /\ i \in 1..Len(DATAF[r])
             /\ DATAF'[r][i].index = DATAF[r][i].index
             /\ DATAF'[r][i].text = DATAF[r][i].text
             /\ r # p => DATAF'[r] = DATAF[r]
             /\ r = p => DATAF'[r] = G /\ DATAF[r] = F
  BY <1>0, <1>1
<1>5. HolderShows'
  <2> SUFFICES ASSUME NEW r \in Peers, NEW i \in 1..Len(DATAF'[r])
               PROVE  Knows(r, DATAF[r][i].text, DATAF[r][i].index)'
    BY DEF HolderShows
  <2>1. Knows(r, DATAF[r][i].text, DATAF[r][i].index)
    BY <1>4 DEF HolderShows
  <2> QED
    BY <2>1, <1>4 DEF Knows
<1>6. RestShows'
  <2> SUFFICES ASSUME NEW r \in Peers, NEW i \in 1..Len(DATAF'[r]),
                      NEW s \in nbrs'[r] \ DOMAIN DATAF'[r][i].times_sent
               PROVE  DATAF'[r][i].text \in ToSet(shown[s]) \/ Clash
    BY <1>2 DEF RestShows
  <2>1. s \in nbrs[r] /\ i \in 1..Len(DATAF[r]) /\ DATAF'[r][i].text = DATAF[r][i].text
    BY <1>4
  <2>2. CASE s \notin DOMAIN DATAF[r][i].times_sent
    BY <2>1, <2>2 DEF RestShows
  <2>3. CASE s \in DOMAIN DATAF[r][i].times_sent
    <3>1. r = p /\ DATAF'[r] = G /\ DATAF[r] = F
      BY <1>4, <2>3
    <3>2. F[i].index \in X /\ s = q
      BY <3>1, <2>1, <2>3, <1>1
    <3> QED
      BY <3>1, <3>2, <2>1
  <2> QED
    BY <2>2, <2>3
<1> QED
  BY <1>3, <1>5, <1>6 DEF ListsKept

LEMMA FloodingKept ==
  ASSUME ChatInv, NEW p \in Peers, NEW x \in Index, NEW m \in Lines,
         NEW S \in SUBSET Peers,
         DATAF' = [DATAF EXCEPT ![p] = Flooding(@, x, m, S)],
         nbrs' = nbrs, Grows, Knows(p, m, x)',
         \A q \in nbrs[p] \ S : m \in ToSet(shown'[q])
  PROVE  ListsKept
<1> USE DEF ChatInv, ChatTypes
<1>0. PICK F : F = DATAF[p]
  OBVIOUS
<1>1. PICK G : G = Flooding(F, x, m, S)
  BY Zenon
<1>2. PICK e : e = NewDatum(x, m, S)
  OBVIOUS
<1>3. /\ F \in Seq(Datum) /\ G \in Seq(Datum) /\ Len(G) <= NBDATA
      /\ \A i \in 1..Len(G) : G[i] = e \/ \E j \in 1..Len(F) : G[i] = F[j]
  <2>1. F \in Seq(Datum) /\ Len(F) <= NBDATA
    BY <1>0
  <2>2. /\ G \in Seq(Datum) /\ Len(G) <= NBDATA
        /\ \A i \in 1..Len(G) : \/ G[i] = NewDatum(x, m, S)
                                \/ \E j \in 1..Len(F) : G[i] = F[j]
    BY <2>1, <1>1, FloodingAdds
  <2> QED
    BY <2>1, <2>2, <1>2
<1>4. e.index = x /\ e.text = m /\ DOMAIN e.times_sent = S
  BY <1>2, NewDatumIs
<1>5. DATAF' = [DATAF EXCEPT ![p] = G]
  BY <1>0, <1>1
<1>6. DATAF' \in [Peers -> Seq(Datum)] /\ \A r \in Peers : Len(DATAF'[r]) <= NBDATA
  BY <1>3, <1>5
<1>7. ASSUME NEW r \in Peers, NEW i \in 1..Len(DATAF'[r])
      PROVE  \/ r = p /\ DATAF'[r][i] = e
             \/ \E j \in 1..Len(DATAF[r]) : DATAF'[r][i] = DATAF[r][j]
  <2>1. CASE r = p
    BY <1>0, <1>3, <1>5, <2>1
  <2>2. CASE r # p
    BY <1>5, <2>2
  <2> QED
    BY <2>1, <2>2
<1>8. HolderShows'
  <2> SUFFICES ASSUME NEW r \in Peers, NEW i \in 1..Len(DATAF'[r])
               PROVE  Knows(r, DATAF[r][i].text, DATAF[r][i].index)'
    BY DEF HolderShows
  <2>1. CASE r = p /\ DATAF'[r][i] = e
    BY <2>1, <1>4 DEF Knows
  <2>2. ASSUME NEW j \in 1..Len(DATAF[r]), DATAF'[r][i] = DATAF[r][j]
        PROVE  Knows(r, DATAF[r][i].text, DATAF[r][i].index)'
    <3>1. Knows(r, DATAF[r][j].text, DATAF[r][j].index)
      BY DEF HolderShows
    <3> QED
      BY <2>2, <3>1 DEF Knows, Grows
  <2> QED
    BY <2>1, <2>2, <1>7
<1>9. RestShows'
  <2> SUFFICES ASSUME NEW r \in Peers, NEW i \in 1..Len(DATAF'[r]),
                      NEW s \in nbrs[r] \ DOMAIN DATAF'[r][i].times_sent
               PROVE  DATAF'[r][i].text \in ToSet(shown'[s]) \/ Clash'
    BY DEF RestShows
  <2>1. CASE r = p /\ DATAF'[r][i] = e
    BY <2>1, <1>4
  <2>2. ASSUME NEW j \in 1..Len(DATAF[r]), DATAF'[r][i] = DATAF[r][j]
        PROVE  DATAF'[r][i].text \in ToSet(shown'[s]) \/ Clash'
    <3>1. DATAF[r][j].text \in ToSet(shown[s]) \/ Clash
      BY <2>2 DEF RestShows
    <3>2. s \in Peers
      OBVIOUS
    <3> QED
      BY <2>2, <3>1, <3>2, KnowsStays DEF Grows
  <2> QED
    BY <2>1, <2>2, <1>7
<1> QED
  BY <1>6, <1>8, <1>9 DEF ListsKept

\* Messages stay true.
LEMMA MessagesKept ==
  ASSUME SenderShows, Grows,
         \A d \in net' \ net :
           \/ d \in DataMsg /\ Knows(d.from, d.text, d.index)'
           \/ d \in AckMsg /\ \E m \in Lines : Knows(d.from, m, d.index)'
  PROVE  SenderShows'
<1> SUFFICES ASSUME NEW d \in net'
             PROVE  \/ d \in DataMsg /\ Knows(d.from, d.text, d.index)'
                    \/ d \in AckMsg /\ \E m \in Lines : Knows(d.from, m, d.index)'
  BY DEF SenderShows, Knows
<1>1. CASE d \in net
  <2>1. CASE d \in DataMsg /\ Knows(d.from, d.text, d.index)
    <3>1. d.from \in Peers
      BY <2>1 DEF DataMsg
    <3> QED
      BY <2>1, <3>1, KnowsStays
  <2>2. CASE d \in AckMsg /\ \E m \in Lines : Knows(d.from, m, d.index)
    <3>1. d.from \in Peers
      BY <2>2 DEF AckMsg
    <3> QED
      BY <2>2, <3>1, KnowsStays
  <2> QED
    BY <1>1, <2>1, <2>2 DEF SenderShows
<1>2. CASE d \notin net
  BY <1>2
<1> QED
  BY <1>1, <1>2

LEMMA ChatInitInv == Init => ChatInv
<1> SUFFICES ASSUME Init PROVE ChatInv
  OBVIOUS
<1>1. ChatTypes
  <2>1. DATAF \in [Peers -> Seq(Datum)] /\ \A p \in Peers : DATAF[p] = <<>>
    BY DEF Init
  <2>2. shown \in [Peers -> Seq(Lines)] /\ \A p \in Peers : shown[p] = <<>>
    BY DEF Init
  <2>3. DOMAIN said = {} /\ said \in [DOMAIN said -> Index]
    BY DEF Init
  <2>4. nbrs \in [Peers -> SUBSET Peers] /\ draws \in [Peers -> Nat] /\ cut \in BOOLEAN
    BY ChatAssumption DEF Init
  <2>5. \A p \in Peers : Len(DATAF[p]) <= NBDATA
    BY <2>1, ChatAssumption
  <2>6. \A p \in Peers : ToSet(shown[p]) \subseteq DOMAIN said
    BY <2>2 DEF ToSet
  <2> QED
    BY <2>1, <2>2, <2>3, <2>4, <2>5, <2>6 DEF ChatTypes
<1>2. HolderShows /\ SenderShows /\ RestShows
  BY DEF Init, HolderShows, SenderShows, RestShows
<1> QED
  BY <1>1, <1>2 DEF ChatInv

\* A line more on one screen.
LEMMA OneMoreShown ==
  ASSUME ChatTypes, NEW p \in Peers, NEW m \in Lines,
         shown' = [shown EXCEPT ![p] = Append(@, m)]
  PROVE  /\ shown' \in [Peers -> Seq(Lines)]
         /\ \A r \in Peers \ {p} : shown'[r] = shown[r]
         /\ ToSet(shown'[p]) = ToSet(shown[p]) \cup {m}
<1>1. shown[p] \in Seq(Lines) /\ shown'[p] = Append(shown[p], m)
  BY DEF ChatTypes
<1>2. ToSet(Append(shown[p], m)) = ToSet(shown[p]) \cup {m}
  <2>1. PICK s \in Seq(Lines) : s = shown[p]
    BY <1>1
  <2>2. Len(s) \in Nat /\ DOMAIN s = 1..Len(s) /\ DOMAIN Append(s, m) = 1..(Len(s) + 1)
        /\ \A i \in 1..(Len(s) + 1) : Append(s, m)[i] = IF i = Len(s) + 1 THEN m ELSE s[i]
    BY <2>1
  <2>3. \A i \in 1..(Len(s) + 1) : i = Len(s) + 1 \/ i \in 1..Len(s)
    BY <2>2
  <2>4. \A i \in 1..Len(s) : i \in 1..(Len(s) + 1) /\ i # Len(s) + 1
    BY <2>2
  <2>5. Len(s) + 1 \in 1..(Len(s) + 1)
    BY <2>2
  <2> QED
    BY <2>1, <2>2, <2>3, <2>4, <2>5 DEF ToSet
<1> QED
  BY <1>1, <1>2 DEF ChatTypes

LEMMA ReadLineInv ==
  ASSUME ChatInv, NEW p \in Peers, NEW m \in Lines, ReadLine(p, m)
  PROVE  ChatInv'
<1> USE DEF ChatInv
<1>1. PICK x : x = NewIndex(p)
  OBVIOUS
<1>2. x \in Index
  BY <1>1, ChatAssumption DEF NewIndex, ChatTypes, Index
<1>3. /\ m \notin DOMAIN said
      /\ said' = [k \in DOMAIN said \cup {m} |-> IF k = m THEN x ELSE said[k]]
      /\ draws' = [draws EXCEPT ![p] = @ + 4]
      /\ DATAF' = [DATAF EXCEPT ![p] = Flooding(@, x, m, nbrs[p])]
      /\ shown' = [shown EXCEPT ![p] = Append(@, m)]
      /\ UNCHANGED <<nbrs, net, cut>>
  BY <1>1 DEF ReadLine
<1>4. /\ shown' \in [Peers -> Seq(Lines)]
      /\ \A r \in Peers \ {p} : shown'[r] = shown[r]
      /\ ToSet(shown'[p]) = ToSet(shown[p]) \cup {m}
  BY <1>3, OneMoreShown
<1>5. /\ DOMAIN said' = DOMAIN said \cup {m} /\ said'[m] = x
      /\ \A k \in DOMAIN said : said'[k] = said[k]
  BY <1>3
<1>6. Grows
  <2>1. \A r \in Peers : ToSet(shown[r]) \subseteq ToSet(shown'[r])
    BY <1>4
  <2> QED
    BY <2>1, <1>5 DEF Grows
<1>7. Knows(p, m, x)'
  BY <1>4, <1>5 DEF Knows
<1>8. ListsKept
  <2>1. nbrs[p] \in SUBSET Peers /\ nbrs' = nbrs
    BY <1>3 DEF ChatTypes
  <2> QED
    BY <2>1, <1>2, <1>3, <1>6, <1>7, FloodingKept
<1>9. SenderShows'
  BY <1>3, <1>6, MessagesKept
<1>10. ChatTypes'
  <2>1. said' \in [DOMAIN said' -> Index] /\ DOMAIN said' \subseteq Lines
    BY <1>2, <1>3, <1>5 DEF ChatTypes
  <2>2. draws' \in [Peers -> Nat] /\ nbrs' \in [Peers -> SUBSET Peers] /\ cut' \in BOOLEAN
    BY <1>3 DEF ChatTypes
  <2>3. \A r \in Peers : ToSet(shown'[r]) \subseteq DOMAIN said'
    BY <1>4, <1>5 DEF ChatTypes
  <2> QED
    BY <2>1, <2>2, <2>3, <1>4, <1>8 DEF ChatTypes, ListsKept
<1> QED
  BY <1>8, <1>9, <1>10 DEF ListsKept

\* The fields of a message under way.
LEMMA MessageFields ==
  ASSUME ChatInv, NEW d \in net
  PROVE  /\ d.from \in Peers /\ d.to \in Peers /\ d.index \in Index
         /\ d.type = "data" => d.text \in Lines /\ Knows(d.from, d.text, d.index)
         /\ \E m \in Lines : Knows(d.from, m, d.index)
<1>1. CASE d \in DataMsg /\ Knows(d.from, d.text, d.index)
  BY <1>1 DEF DataMsg
<1>2. CASE d \in AckMsg /\ \E m \in Lines : Knows(d.from, m, d.index)
  BY <1>2 DEF AckMsg
<1> QED
  BY <1>1, <1>2 DEF ChatInv, SenderShows

\* Nothing but the list of one peer changes: what d acknowledges.
LEMMA AcknowledgedKept ==
  ASSUME ChatInv, NEW d \in net, NEW p \in Peers,
         DATAF' = [DATAF EXCEPT ![p] = Has(@, d.index, d.from)],
         UNCHANGED <<nbrs, said, shown>>
  PROVE  ListsKept
<1>1. PICK G : G = Has(DATAF[p], d.index, d.from)
  OBVIOUS
<1>2. DATAF[p] \in Seq(Datum)
  BY DEF ChatInv, ChatTypes
<1>3. Relieved(DATAF[p], G, {d.index}, d.from)
  BY <1>1, <1>2, HasRelieves
<1>4. DATAF' = [DATAF EXCEPT ![p] = G]
  BY <1>1
<1>5. ASSUME NEW i \in 1..Len(DATAF[p]), DATAF[p][i].index \in {d.index}
      PROVE  DATAF[p][i].text \in ToSet(shown[d.from]) \/ Clash
  <2>1. PICK m \in Lines : Knows(d.from, m, d.index)
    BY MessageFields
  <2>2. Knows(p, DATAF[p][i].text, d.index)
    BY <1>5 DEF ChatInv, HolderShows
  <2>3. DATAF[p][i].text = m \/ Clash
    BY <2>1, <2>2, SameOrClash
  <2> QED
    BY <2>1, <2>3 DEF Knows
<1>6. nbrs' \in [Peers -> SUBSET Peers] /\ \A r \in Peers : nbrs'[r] \subseteq nbrs[r]
  BY DEF ChatInv, ChatTypes
<1> QED
  BY <1>3, <1>4, <1>5, <1>6, RelievedKept

LEMMA RecvAckInv ==
  ASSUME ChatInv, NEW d \in net, RecvAck(d)
  PROVE  ChatInv'
<1>1. d.to \in Peers
  BY MessageFields
<1>2. ListsKept
  BY <1>1, AcknowledgedKept DEF RecvAck
<1>3. SenderShows'
  BY NothingShown, MessagesKept DEF RecvAck, ChatInv
<1>4. UNCHANGED <<nbrs, draws, said, shown, cut>>
  BY DEF RecvAck
<1> QED
  BY <1>2, <1>3, <1>4 DEF ChatInv, ChatTypes, ListsKept

\* The acknowledgement that data() sends is true: the line is shown by then.
LEMMA AckTrue ==
  ASSUME ChatInv, Grows, NEW d \in net, NEW m \in Lines,
         net' = net \cup {Ack(d.to, d.from, d.index)}, Knows(d.to, m, d.index)'
  PROVE  SenderShows'
<1>1. PICK a : a = Ack(d.to, d.from, d.index)
  OBVIOUS
<1>2. a \in AckMsg /\ a.from = d.to /\ a.index = d.index
  BY <1>1, MessageFields DEF Ack, AckMsg
<1>3. Knows(a.from, m, a.index)'
  BY <1>2
<1>4. \A e \in net' \ net : e \in AckMsg /\ \E k \in Lines : Knows(e.from, k, e.index)'
  BY <1>1, <1>2, <1>3
<1> QED
  BY <1>4, MessagesKept DEF ChatInv

\* A datum that is there: its sender has it.
LEMMA RecvOldInv ==
  ASSUME ChatInv, NEW d \in net, RecvData(d), d.index \in Indices(d.to)
  PROVE  ChatInv'
<1>1. d.to \in Peers
  BY MessageFields
<1>2. /\ net' = net \cup {Ack(d.to, d.from, d.index)}
      /\ DATAF' = [DATAF EXCEPT ![d.to] = Has(@, d.index, d.from)]
      /\ UNCHANGED <<nbrs, draws, said, shown, cut>>
  BY DEF RecvData
<1>3. ListsKept
  BY <1>1, <1>2, AcknowledgedKept
<1>4. PICK i \in 1..Len(DATAF[d.to]) : DATAF[d.to][i].index = d.index
  BY DEF Indices
<1>5. PICK m \in Lines : Knows(d.to, m, d.index)
  <2>1. Knows(d.to, DATAF[d.to][i].text, d.index)
    BY <1>1, <1>4 DEF ChatInv, HolderShows
  <2>2. DATAF[d.to][i].text \in Lines
    BY <2>1 DEF Knows, ChatInv, ChatTypes
  <2> QED
    BY <2>1, <2>2
<1>6. Grows /\ Knows(d.to, m, d.index)'
  BY <1>1, <1>2, <1>5, NothingShown, KnowsStays
<1>7. SenderShows'
  BY <1>2, <1>6, AckTrue
<1> QED
  BY <1>2, <1>3, <1>7 DEF ChatInv, ChatTypes, ListsKept

\* A datum that is new: it is shown, and flooded to all but its sender.
LEMMA RecvNewInv ==
  ASSUME ChatInv, NEW d \in net, RecvData(d), d.index \notin Indices(d.to)
  PROVE  ChatInv'
<1>1. /\ d.from \in Peers /\ d.to \in Peers /\ d.index \in Index /\ d.text \in Lines
      /\ Knows(d.from, d.text, d.index)
  BY MessageFields DEF RecvData
<1>2. PICK q, m, x : q = d.to /\ m = d.text /\ x = d.index
  OBVIOUS
<1>3. /\ net' = net \cup {Ack(q, d.from, x)}
      /\ DATAF' = [DATAF EXCEPT ![q] = Flooding(@, x, m, nbrs[q] \ {d.from})]
      /\ shown' = [shown EXCEPT ![q] = Append(@, m)]
      /\ UNCHANGED <<nbrs, draws, said, cut>>
  BY <1>2 DEF RecvData
<1>4. /\ shown' \in [Peers -> Seq(Lines)]
      /\ \A r \in Peers \ {q} : shown'[r] = shown[r]
      /\ ToSet(shown'[q]) = ToSet(shown[q]) \cup {m}
  BY <1>1, <1>2, <1>3, OneMoreShown DEF ChatInv
<1>5. Grows
  <2>1. \A r \in Peers : ToSet(shown[r]) \subseteq ToSet(shown'[r])
    BY <1>1, <1>2, <1>4
  <2> QED
    BY <2>1, <1>3 DEF Grows
<1>6. Knows(q, m, x)' /\ m \in DOMAIN said
  BY <1>1, <1>2, <1>3, <1>4 DEF Knows
<1>7. ListsKept
  <2>1. nbrs[q] \ {d.from} \in SUBSET Peers
    BY <1>1, <1>2 DEF ChatInv, ChatTypes
  <2>2. \A r \in nbrs[q] \ (nbrs[q] \ {d.from}) : m \in ToSet(shown'[r])
    BY <1>1, <1>2, <1>5 DEF Knows, Grows
  <2> QED
    BY <2>1, <2>2, <1>1, <1>2, <1>3, <1>5, <1>6, FloodingKept
<1>8. SenderShows'
  BY <1>1, <1>2, <1>3, <1>5, <1>6, AckTrue
<1>9. ChatTypes'
  <2>1. \A r \in Peers : ToSet(shown'[r]) \subseteq DOMAIN said'
    BY <1>3, <1>4, <1>6 DEF ChatInv, ChatTypes
  <2> QED
    BY <2>1, <1>3, <1>4, <1>7 DEF ChatInv, ChatTypes, ListsKept
<1> QED
  BY <1>7, <1>8, <1>9 DEF ChatInv, ListsKept

LEMMA TransmitInv ==
  ASSUME ChatInv, NEW p \in Peers, NEW i, NEW q \in Peers, Transmit(p, i, q)
  PROVE  ChatInv'
<1>1. PICK F \in Seq(Datum) : F = DATAF[p]
  BY DEF ChatInv, ChatTypes
<1>2. PICK G : G = [F EXCEPT ![i].times_sent[q] = @ + 1]
  OBVIOUS
<1>3. DATAF' = [DATAF EXCEPT ![p] = G]
  BY <1>1, <1>2 DEF Transmit
<1>4. i \in DOMAIN F /\ q \in DOMAIN F[i].times_sent /\ F[i].times_sent[q] < MaxSent
  BY <1>1 DEF Transmit
<1>5. Relieved(F, G, {}, q)
  BY <1>2, <1>4, TransmitRelieves
<1>6. UNCHANGED <<nbrs, said, shown, cut>> /\ draws' = [draws EXCEPT ![p] = @ + 1]
  BY DEF Transmit
<1>7. ListsKept
  <2>1. nbrs' \in [Peers -> SUBSET Peers] /\ \A r \in Peers : nbrs'[r] \subseteq nbrs[r]
    BY <1>6 DEF ChatInv, ChatTypes
  <2> QED
    BY <2>1, <1>1, <1>3, <1>5, <1>6, RelievedKept
<1>8. SenderShows'
  <2>1. PICK d : d = DataTlv(p, q, F[i].index, F[i].text)
    OBVIOUS
  <2>2. net' = net \cup {d}
    BY <2>1, <1>1 DEF Transmit
  <2>3. F[i].index \in Index /\ F[i].text \in Lines /\ Knows(p, F[i].text, F[i].index)
    <3>1. i \in 1..Len(F) /\ F[i] \in Datum
      BY <1>4
    <3> QED
      BY <3>1, <1>1, DatumFields DEF ChatInv, HolderShows
  <2>4. d \in DataMsg /\ d.from = p /\ d.text = F[i].text /\ d.index = F[i].index
    BY <2>1, <2>3 DEF DataTlv, DataMsg
  <2>5. Grows
    BY <1>6, NothingShown
  <2>6. Knows(p, F[i].text, F[i].index)'
    BY <2>3, <2>5, KnowsStays
  <2>7. Knows(d.from, d.text, d.index)'
    BY <2>4, <2>6
  <2> QED
    BY <2>2, <2>4, <2>5, <2>7, MessagesKept DEF ChatInv
<1>9. draws' \in [Peers -> Nat]
  BY <1>6 DEF ChatInv, ChatTypes
<1> QED
  BY <1>6, <1>7, <1>8, <1>9 DEF ChatInv, ChatTypes, ListsKept

LEMMA GiveUpInv ==
  ASSUME ChatInv, NEW p \in Peers, NEW i, NEW q \in Peers, GiveUp(p, i, q)
  PROVE  ChatInv'
<1>1. PICK G : G = Forget(DATAF[p], q)
  OBVIOUS
<1>2. DATAF[p] \in Seq(Datum)
  BY DEF ChatInv, ChatTypes
<1>3. Relieved(DATAF[p], G, Index, q)
  BY <1>1, <1>2, ForgetRelieves
<1>4. /\ DATAF' = [DATAF EXCEPT ![p] = G] /\ nbrs' = [nbrs EXCEPT ![p] = @ \ {q}]
      /\ cut' = TRUE /\ UNCHANGED <<draws, net, said, shown>>
  BY <1>1 DEF GiveUp
<1>5. /\ nbrs' \in [Peers -> SUBSET Peers] /\ \A r \in Peers : nbrs'[r] \subseteq nbrs[r]
      /\ q \notin nbrs'[p]
  BY <1>4 DEF ChatInv, ChatTypes
<1>6. ListsKept
  BY <1>3, <1>4, <1>5, RelievedKept
<1>7. SenderShows'
  BY <1>4, NothingShown, MessagesKept DEF ChatInv
<1> QED
  BY <1>4, <1>5, <1>6, <1>7 DEF ChatInv, ChatTypes, ListsKept

LEMMA ChatNextInv == ChatInv /\ [Next]_vars => ChatInv'
<1> SUFFICES ASSUME ChatInv, [Next]_vars PROVE ChatInv'
  OBVIOUS
<1>1. ASSUME NEW p \in Peers, NEW m \in Lines, ReadLine(p, m) PROVE ChatInv'
  BY <1>1, ReadLineInv
<1>2. ASSUME NEW d \in net, RecvData(d) PROVE ChatInv'
  BY <1>2, RecvOldInv, RecvNewInv
<1>3. ASSUME NEW d \in net, RecvAck(d) PROVE ChatInv'
  BY <1>3, RecvAckInv
<1>4. ASSUME NEW p \in Peers, Pass(p) PROVE ChatInv'
  BY <1>4, TransmitInv, GiveUpInv DEF Pass
<1>5. CASE UNCHANGED vars
  <2>1. ChatTypes'
    BY <1>5 DEF ChatInv, ChatTypes, vars
  <2>2. HolderShows' /\ SenderShows' /\ RestShows'
    BY <1>5 DEF ChatInv, HolderShows, SenderShows, RestShows, Knows, Clash, vars
  <2> QED
    BY <2>1, <2>2 DEF ChatInv
<1> QED
  BY <1>1, <1>2, <1>3, <1>4, <1>5 DEF Next

LEMMA ChatInvariant == Spec => []ChatInv
BY ChatInitInv, ChatNextInv, PTL DEF Spec

\* The lists hold data, of which none is sent more than MaxSent times to anybody and
\* at most NBDATA are kept, and nothing is shown that nobody typed
\* (add_message_to_flood, flood_message_to_neighbours).
THEOREM ChatTypeCorrect == Spec => []ChatTypeOK
<1>1. ChatInv => ChatTypeOK
  <2> SUFFICES ASSUME ChatInv PROVE ChatTypeOK
    OBVIOUS
  <2>1. ASSUME NEW p \in Peers PROVE ToSet(DATAF[p]) \subseteq Datum
    BY DEF ChatInv, ChatTypes, ToSet
  <2> QED
    BY <2>1 DEF ChatInv, ChatTypes, ChatTypeOK, Index
<1> QED
  BY <1>1, ChatInvariant, PTL

\* For any network of peers and any behaviour of it, a peer that does not have to
\* send a datum to a neighbour it still has is right: the neighbour shows it, or two
\* lines clash (data, ack, remove_neighbor_from_flood).
THEOREM ChatAckedMeansShown == Spec => []AckedMeansShown
<1>1. ChatInv => AckedMeansShown
  <2> SUFFICES ASSUME ChatInv, NEW p \in Peers, NEW i \in DOMAIN DATAF[p],
                      NEW q \in nbrs[p] \ DOMAIN DATAF[p][i].times_sent
               PROVE  DATAF[p][i].text \in ToSet(shown[q]) \/ Clash
    BY DEF AckedMeansShown
  <2>1. DATAF[p] \in Seq(Datum)
    BY DEF ChatInv, ChatTypes
  <2>2. i \in 1..Len(DATAF[p])
    BY <2>1
  <2> QED
    BY <2>2 DEF ChatInv, RestShows
<1> QED
  BY <1>1, ChatInvariant, PTL
-----------------------------------------------------------------------------
\* No datum has to leave DATAF to make room: what is proved about the broadcast
\* rests on it, a datum that was dropped being new when it comes again.
RoomForAll == IsFiniteSet(Lines) /\ Cardinality(Lines) <= NBDATA

\* Every line on a screen is still in DATAF, once.
ShownIsHeld ==
  \A p \in Peers :
    /\ \A m \in ToSet(shown[p]) : \E i \in 1..Len(DATAF[p]) : DATAF[p][i].text = m
    /\ \A i, j \in 1..Len(DATAF[p]) : DATAF[p][i].text = DATAF[p][j].text => i = j

\* Data of different lines, one line missing, are fewer than the lines.
LEMMA FewerData ==
  ASSUME RoomForAll, NEW F \in Seq(Datum), NEW m \in Lines,
         \A i, j \in 1..Len(F) : F[i].text = F[j].text => i = j,
         \A i \in 1..Len(F) : F[i].text # m
  PROVE  Len(F) < NBDATA
<1> DEFINE f == [i \in 1..Len(F) |-> F[i].text]
           Rest == Lines \ {m}
<1>1. Len(F) \in Nat /\ \A i \in 1..Len(F) : F[i] \in Datum
  OBVIOUS
<1>2. f \in [1..Len(F) -> Rest]
  BY <1>1, DatumFields
<1>3. ~ \E i, j \in 1..Len(F) : i # j /\ f[i] = f[j]
  OBVIOUS
<1>4. IsFiniteSet(1..Len(F)) /\ Cardinality(1..Len(F)) = Len(F)
  <2>1. 1 \in Int /\ Len(F) \in Int
    BY <1>1
  <2>2. /\ IsFiniteSet(1..Len(F))
        /\ Cardinality(1..Len(F)) = IF 1 > Len(F) THEN 0 ELSE Len(F) - 1 + 1
    BY <2>1, FS_Interval
  <2> QED
    BY <1>1, <2>2
<1>5. IsFiniteSet(Rest) /\ Cardinality(Rest) = Cardinality(Lines) - 1
      /\ Cardinality(Lines) \in Nat
  BY FS_RemoveElement, FS_CardinalityType DEF RoomForAll
<1>6. ~(Cardinality(Rest) < Cardinality(1..Len(F)))
  <2> HIDE DEF f, Rest
  <2> QED
    BY <1>2, <1>3, <1>4, <1>5, FS_PigeonHole
<1> QED
  BY <1>1, <1>4, <1>5, <1>6, ChatAssumption DEF RoomForAll

LEMMA HeldAfterRelief ==
  ASSUME ChatInv, ShownIsHeld, NEW p \in Peers, NEW G, NEW X, NEW q,
         Relieved(DATAF[p], G, X, q), DATAF' = [DATAF EXCEPT ![p] = G], shown' = shown
  PROVE  ShownIsHeld'
<1>1. \A r \in Peers : /\ Len(DATAF'[r]) = Len(DATAF[r])
                       /\ \A i \in 1..Len(DATAF[r]) : DATAF'[r][i].text = DATAF[r][i].text
  BY DEF ChatInv, ChatTypes, Relieved
<1> SUFFICES ASSUME NEW r \in Peers
             PROVE  /\ \A m \in ToSet(shown[r]) :
                         \E i \in 1..Len(DATAF'[r]) : DATAF'[r][i].text = m
                    /\ \A i, j \in 1..Len(DATAF'[r]) :
                         DATAF'[r][i].text = DATAF'[r][j].text => i = j
  BY DEF ShownIsHeld
<1> QED
  BY <1>1 DEF ShownIsHeld

\* A line that is new to p was not shown by it and is held afterwards.
LEMMA HeldAfterFlooding ==
  ASSUME RoomForAll, ChatInv, ShownIsHeld,
         NEW p \in Peers, NEW x \in Index, NEW m \in Lines, NEW S \in SUBSET Peers,
         DATAF' = [DATAF EXCEPT ![p] = Flooding(@, x, m, S)],
         shown' = [shown EXCEPT ![p] = Append(@, m)],
         \A i \in 1..Len(DATAF[p]) : DATAF[p][i].text # m
  PROVE  m \notin ToSet(shown[p]) /\ ShownIsHeld'
<1>1. PICK F \in Seq(Datum) : F = DATAF[p] /\ Len(F) <= NBDATA
  BY DEF ChatInv, ChatTypes
<1>2. PICK e \in Datum : e = NewDatum(x, m, S) /\ e.text = m
  BY NewDatumIs
<1>3. Len(F) < NBDATA
  BY <1>1, FewerData DEF ShownIsHeld
<1>4. Flooding(F, x, m, S) = Append(F, e)
  BY <1>1, <1>2, <1>3, FloodingAdds
<1>5. PICK G : G = Append(F, e)
  OBVIOUS
<1>6. Len(F) \in Nat /\ Len(G) = Len(F) + 1
      /\ \A i \in 1..Len(G) : G[i] = IF i = Len(F) + 1 THEN e ELSE F[i]
  BY <1>5
<1>7. DATAF' = [DATAF EXCEPT ![p] = G]
  BY <1>1, <1>4, <1>5
<1>8. /\ \A r \in Peers \ {p} : shown'[r] = shown[r] /\ DATAF'[r] = DATAF[r]
      /\ ToSet(shown'[p]) = ToSet(shown[p]) \cup {m} /\ DATAF'[p] = G
  BY <1>7, OneMoreShown DEF ChatInv, ChatTypes
<1>9. m \notin ToSet(shown[p])
  BY DEF ShownIsHeld
<1>10. ASSUME NEW k \in ToSet(shown'[p])
       PROVE  \E i \in 1..Len(G) : G[i].text = k
  <2>1. CASE k = m
    <3>1. Len(F) + 1 \in 1..Len(G)
      BY <1>6
    <3> QED
      BY <2>1, <3>1, <1>2, <1>6
  <2>2. CASE k # m
    <3>0. k \in ToSet(shown[p])
      BY <1>8, <1>10, <2>2
    <3>1. PICK i \in 1..Len(F) : F[i].text = k
      BY <1>1, <3>0 DEF ShownIsHeld
    <3>2. i \in 1..Len(G) /\ i # Len(F) + 1
      BY <1>6
    <3> QED
      BY <3>1, <3>2, <1>6
  <2> QED
    BY <2>1, <2>2
<1>11. ASSUME NEW i \in 1..Len(G), NEW j \in 1..Len(G), G[i].text = G[j].text
       PROVE  i = j
  <2>1. \A h \in 1..Len(G) : h = Len(F) + 1 \/ h \in 1..Len(F)
    BY <1>6
  <2>2. CASE i = Len(F) + 1 /\ j # Len(F) + 1
    BY <1>1, <1>2, <1>6, <1>11, <2>1, <2>2
  <2>3. CASE i # Len(F) + 1 /\ j = Len(F) + 1
    BY <1>1, <1>2, <1>6, <1>11, <2>1, <2>3
  <2>4. CASE i # Len(F) + 1 /\ j # Len(F) + 1
    <3>1. F[i].text = F[j].text /\ i \in 1..Len(F) /\ j \in 1..Len(F)
      BY <1>6, <1>11, <2>1, <2>4
    <3> QED
      BY <3>1, <1>1 DEF ShownIsHeld
  <2> QED
    BY <2>2, <2>3, <2>4
<1>12. ShownIsHeld'
  <2> SUFFICES ASSUME NEW r \in Peers
               PROVE  /\ \A k \in ToSet(shown'[r]) :
                           \E i \in 1..Len(DATAF'[r]) : DATAF'[r][i].text = k
                      /\ \A i, j \in 1..Len(DATAF'[r]) :
                           DATAF'[r][i].text = DATAF'[r][j].text => i = j
    BY DEF ShownIsHeld
  <2>1. CASE r = p
    BY <2>1, <1>8, <1>10, <1>11
  <2>2. CASE r # p
    BY <2>2, <1>8 DEF ShownIsHeld
  <2> QED
    BY <2>1, <2>2
<1> QED
  BY <1>9, <1>12

\* The lines that are new to a peer, in the two actions that flood.
LEMMA TypedIsNew ==
  ASSUME ChatInv, NEW p \in Peers, NEW m, m \notin DOMAIN said
  PROVE  \A i \in 1..Len(DATAF[p]) : DATAF[p][i].text # m
BY DEF ChatInv, HolderShows, Knows

LEMMA ReceivedIsNew ==
  ASSUME ChatInv, NEW d \in net, d.type = "data", d.index \notin Indices(d.to)
  PROVE  \A i \in 1..Len(DATAF[d.to]) : DATAF[d.to][i].text # d.text
<1> SUFFICES ASSUME NEW i \in 1..Len(DATAF[d.to]), DATAF[d.to][i].text = d.text
             PROVE  d.index \in Indices(d.to)
  OBVIOUS
<1>1. d.to \in Peers /\ Knows(d.from, d.text, d.index)
  BY MessageFields
<1>2. Knows(d.to, d.text, DATAF[d.to][i].index)
  BY <1>1 DEF ChatInv, HolderShows
<1>3. DATAF[d.to][i].index = d.index
  BY <1>1, <1>2 DEF Knows
<1> QED
  BY <1>3 DEF Indices

\* What is shown and said does not change: the broadcast does not move, except that
\* it may be cut.
LEMMA SilentStep ==
  ASSUME UNCHANGED <<said, shown>>, cut' = cut \/ cut' = TRUE
  PROVE  [B!BroadcastNext]_B!broadcastVars
<1>1. Clash' = Clash
  BY DEF Clash
<1>2. CASE cut' = cut
  BY <1>1, <1>2 DEF B!broadcastVars
<1>3. CASE cut' = TRUE
  <2>1. B!Cut
    BY <1>3 DEF B!Cut
  <2> QED
    BY <2>1 DEF B!BroadcastNext
<1> QED
  BY <1>2, <1>3

LEMMA SayStep ==
  ASSUME RoomForAll, ChatInv, ShownIsHeld, NEW p \in Peers, NEW m \in Lines, ReadLine(p, m)
  PROVE  ShownIsHeld' /\ B!Say(p, m)
<1>1. PICK x : x = NewIndex(p)
  OBVIOUS
<1>2. x \in Index /\ nbrs[p] \in SUBSET Peers /\ cut \in BOOLEAN
  BY <1>1, ChatAssumption DEF NewIndex, ChatInv, ChatTypes, Index
<1>3. /\ m \notin DOMAIN said
      /\ said' = [k \in DOMAIN said \cup {m} |-> IF k = m THEN x ELSE said[k]]
      /\ DATAF' = [DATAF EXCEPT ![p] = Flooding(@, x, m, nbrs[p])]
      /\ shown' = [shown EXCEPT ![p] = Append(@, m)]
      /\ cut' = cut
  BY <1>1 DEF ReadLine
<1>4. ShownIsHeld'
  BY <1>2, <1>3, TypedIsNew, HeldAfterFlooding
<1>5. Clash => Clash'
  BY <1>3 DEF Clash
<1>6. (cut \/ Clash)' \in {cut \/ Clash, TRUE}
  <2>1. CASE cut \/ Clash
    BY <2>1, <1>3, <1>5, Zenon
  <2>2. CASE ~(cut \/ Clash)
    BY <2>2, <1>2, <1>3, Zenon
  <2> QED
    BY <2>1, <2>2
<1>7. (DOMAIN said)' = DOMAIN said \cup {m}
  BY <1>3
<1> QED
  BY <1>3, <1>4, <1>6, <1>7 DEF B!Say

LEMMA ShowStep ==
  ASSUME RoomForAll, ChatInv, ShownIsHeld, NEW d \in net, RecvData(d),
         d.index \notin Indices(d.to)
  PROVE  ShownIsHeld' /\ d.to \in Peers /\ d.text \in Lines /\ B!Show(d.to, d.text)
<1>1. /\ d.from \in Peers /\ d.to \in Peers /\ d.index \in Index /\ d.text \in Lines
      /\ Knows(d.from, d.text, d.index) /\ d.type = "data"
  BY MessageFields DEF RecvData
<1>2. PICK q, m, x : q = d.to /\ m = d.text /\ x = d.index
  OBVIOUS
<1>3. /\ DATAF' = [DATAF EXCEPT ![q] = Flooding(@, x, m, nbrs[q] \ {d.from})]
      /\ shown' = [shown EXCEPT ![q] = Append(@, m)]
      /\ UNCHANGED <<said, cut>>
  BY <1>2 DEF RecvData
<1>4. PICK S \in SUBSET Peers : S = nbrs[q] \ {d.from}
  BY <1>1, <1>2 DEF ChatInv, ChatTypes
<1>5. \A i \in 1..Len(DATAF[q]) : DATAF[q][i].text # m
  BY <1>1, <1>2, ReceivedIsNew
<1>6. m \notin ToSet(shown[q]) /\ ShownIsHeld'
  <2>1. q \in Peers /\ x \in Index /\ m \in Lines
    BY <1>1, <1>2
  <2>2. DATAF' = [DATAF EXCEPT ![q] = Flooding(@, x, m, S)]
    BY <1>3, <1>4
  <2> QED
    BY <2>1, <2>2, <1>3, <1>5, HeldAfterFlooding
<1>7. m \in DOMAIN said
  BY <1>1, <1>2 DEF Knows
<1>8. Clash' = Clash
  BY <1>3 DEF Clash
<1>9. B!Show(q, m)
  <2>1. (cut \/ Clash)' = (cut \/ Clash)
    BY <1>3, <1>8, Zenon
  <2>2. (DOMAIN said)' = DOMAIN said
    BY <1>3
  <2>3. m \notin B!ToSet(shown[q])
    BY <1>6 DEF ToSet, B!ToSet
  <2> QED
    BY <2>1, <2>2, <2>3, <1>3, <1>7 DEF B!Show
<1> QED
  BY <1>1, <1>2, <1>6, <1>9

LEMMA BroadcastStep ==
  ASSUME RoomForAll, ChatInv, ShownIsHeld, [Next]_vars
  PROVE  ShownIsHeld' /\ [B!BroadcastNext]_B!broadcastVars
<1> DEFINE Goal == ShownIsHeld' /\ [B!BroadcastNext]_B!broadcastVars
<1>1. ASSUME NEW p \in Peers, NEW m \in Lines, ReadLine(p, m) PROVE Goal
  <2>1. ShownIsHeld' /\ B!Say(p, m)
    BY <1>1, SayStep
  <2> QED
    BY <2>1 DEF B!BroadcastNext
<1>2. ASSUME NEW d \in net, RecvData(d) PROVE Goal
  <2>1. CASE d.index \notin Indices(d.to)
    <3>1. ShownIsHeld' /\ d.to \in Peers /\ d.text \in Lines /\ B!Show(d.to, d.text)
      BY <1>2, <2>1, ShowStep
    <3> QED
      BY <3>1 DEF B!BroadcastNext
  <2>2. CASE d.index \in Indices(d.to)
    <3>1. PICK q, x, G : q = d.to /\ x = d.index /\ G = Has(DATAF[q], x, d.from)
      OBVIOUS
    <3>2. DATAF' = [DATAF EXCEPT ![q] = G] /\ UNCHANGED <<said, shown, cut>>
      BY <1>2, <2>2, <3>1 DEF RecvData
    <3>3. q \in Peers /\ DATAF[q] \in Seq(Datum)
      BY <3>1, MessageFields DEF ChatInv, ChatTypes
    <3>4. Relieved(DATAF[q], G, {x}, d.from)
      BY <3>1, <3>3, HasRelieves
    <3> QED
      BY <3>2, <3>3, <3>4, HeldAfterRelief, SilentStep
  <2> QED
    BY <2>1, <2>2
<1>3. ASSUME NEW d \in net, RecvAck(d) PROVE Goal
  <2>1. PICK q, x, G : q = d.to /\ x = d.index /\ G = Has(DATAF[q], x, d.from)
    OBVIOUS
  <2>2. DATAF' = [DATAF EXCEPT ![q] = G] /\ UNCHANGED <<said, shown, cut>>
    BY <1>3, <2>1 DEF RecvAck
  <2>3. q \in Peers /\ DATAF[q] \in Seq(Datum)
    BY <2>1, MessageFields DEF ChatInv, ChatTypes
  <2>4. Relieved(DATAF[q], G, {x}, d.from)
    BY <2>1, <2>3, HasRelieves
  <2> QED
    BY <2>2, <2>3, <2>4, HeldAfterRelief, SilentStep
<1>4. ASSUME NEW p \in Peers, NEW i, NEW q \in Peers, Transmit(p, i, q) PROVE Goal
  <2>1. PICK F \in Seq(Datum) : F = DATAF[p]
    BY DEF ChatInv, ChatTypes
  <2>2. PICK G : G = [F EXCEPT ![i].times_sent[q] = @ + 1]
    OBVIOUS
  <2>3. DATAF' = [DATAF EXCEPT ![p] = G] /\ UNCHANGED <<said, shown, cut>>
    BY <1>4, <2>1, <2>2 DEF Transmit
  <2>4. i \in DOMAIN F /\ q \in DOMAIN F[i].times_sent /\ F[i].times_sent[q] < MaxSent
    BY <1>4, <2>1 DEF Transmit
  <2>5. Relieved(DATAF[p], G, {}, q)
    BY <2>1, <2>2, <2>4, TransmitRelieves
  <2> QED
    BY <2>3, <2>5, HeldAfterRelief, SilentStep
<1>5. ASSUME NEW p \in Peers, NEW i, NEW q \in Peers, GiveUp(p, i, q) PROVE Goal
  <2>1. PICK G : G = Forget(DATAF[p], q)
    OBVIOUS
  <2>2. DATAF' = [DATAF EXCEPT ![p] = G] /\ UNCHANGED <<said, shown>> /\ cut' = TRUE
    BY <1>5, <2>1 DEF GiveUp
  <2>3. DATAF[p] \in Seq(Datum)
    BY DEF ChatInv, ChatTypes
  <2>4. Relieved(DATAF[p], G, Index, q)
    BY <2>1, <2>3, ForgetRelieves
  <2> QED
    BY <2>2, <2>4, HeldAfterRelief, SilentStep
<1>6. CASE UNCHANGED vars
  <2>1. ShownIsHeld'
    BY <1>6 DEF ShownIsHeld, vars
  <2> QED
    BY <2>1, <1>6, SilentStep DEF vars
<1> HIDE DEF Goal
<1> QED
  BY <1>1, <1>2, <1>3, <1>4, <1>5, <1>6 DEF Next, Pass, Goal

\* As long as no datum has to leave DATAF, the peers together do what users expect of
\* a broadcast: a line is shown once to its author, at most once to everybody else,
\* and never before it is typed (the safety of BroadcastImplemented).  Without room
\* for all the lines this does not hold: a datum that was dropped is new again when
\* a late copy of it arrives (add_limited).
THEOREM ChatImplementsBroadcast ==
  ASSUME RoomForAll
  PROVE  Spec => B!BroadcastSafety
<1>1. Init => ShownIsHeld /\ B!BroadcastInit
  <2> SUFFICES ASSUME Init PROVE ShownIsHeld /\ B!BroadcastInit
    OBVIOUS
  <2>1. ShownIsHeld
    BY DEF Init, ShownIsHeld, ToSet
  <2>2. DOMAIN said = {} /\ ~Clash
    BY DEF Init, Clash
  <2>3. (cut \/ Clash) = FALSE
    BY <2>2 DEF Init
  <2> QED
    BY <2>1, <2>2, <2>3 DEF Init, B!BroadcastInit
<1>2. ChatInv /\ ShownIsHeld /\ [Next]_vars
        => ShownIsHeld' /\ [B!BroadcastNext]_B!broadcastVars
  BY BroadcastStep
<1> QED
  BY <1>1, <1>2, ChatInvariant, PTL DEF Spec, B!BroadcastSafety
=============================================================================
