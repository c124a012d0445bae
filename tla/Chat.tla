-------------------------------- MODULE Chat --------------------------------
(***************************************************************************)
(* Several peers that flood lines of chat to each other over UDP: main.c   *)
(* (a line is read), data and ack of tlv.c, add_message_to_flood, the      *)
(* transmissions and the giving up of util.c, seen from all sides at once. *)
(*                                                                         *)
(* The peers start as symmetric neighbours of each other along Links; a    *)
(* neighbour is lost only by being given up.  Timers are left out: a       *)
(* transmission or a giving up may come at any time, so that the network   *)
(* may be as slow as it likes.  A datagram that was sent stays in net: it  *)
(* arrives never, once, several times, and in any order.                   *)
(***************************************************************************)
EXTENDS Integers, FiniteSets, Sequences, SequencesExt

CONSTANTS
  Peers,    \* addresses
  Lines,    \* texts the users type
  Author,   \* line -> the peer whose user types it
  Links,    \* peer -> its symmetric neighbours (itself too, if it met itself)
  Seed,     \* peer -> the second in which it was started, seed of rand()
  MaxSent,  \* a neighbour is given up after this many transmissions (5)
  NBDATA    \* how many data are kept (100)

ASSUME ChatAssumption ==
  /\ Links \in [Peers -> SUBSET Peers]
  /\ Author \in [Lines -> Peers]
  /\ Seed \in [Peers -> Nat]
  /\ MaxSent \in Nat \ {0} /\ NBDATA \in Nat \ {0}

VARIABLES
  DATAF,   \* peer -> its recent data, oldest first
  nbrs,    \* peer -> its symmetric neighbours
  draws,   \* peer -> calls of rand() so far
  net,     \* datagrams sent so far
  said,    \* history: the lines typed so far -> their indices
  shown,   \* peer -> the lines on its screen
  cut      \* history: a neighbour was given up

vars == <<DATAF, nbrs, draws, net, said, shown, cut>>
-----------------------------------------------------------------------------
\* (identifier, nonce): the identifier is the first draws of a process and the
\* nonce the next four, so that both follow from the seed and from how many
\* numbers were drawn before.
NewIndex(p) == <<Seed[p], draws[p]>>

DataTlv(from, to, index, text) ==
  [type |-> "data", from |-> from, to |-> to, index |-> index, text |-> text]

Ack(from, to, index) == [type |-> "ack", from |-> from, to |-> to, index |-> index]

Indices(p) == {DATAF[p][i].index : i \in 1..Len(DATAF[p])}

\* add_message_to_flood(): the datum at the end of DATAF, for the neighbours S; the
\* oldest goes when there are too many.
Flooding(F, index, text, S) ==
  LET all == Append(F, [index |-> index, text |-> text, times_sent |-> [q \in S |-> 0]])
  IN  IF Len(all) > NBDATA THEN Tail(all) ELSE all

\* remove_neighbor_from_flood(): q has the datum of that index.
Has(F, index, q) ==
  [i \in DOMAIN F |->
     IF i # SelectInSeq(F, LAMBDA f : f.index = index) THEN F[i]
     ELSE [F[i] EXCEPT !.times_sent = [r \in DOMAIN @ \ {q} |-> @[r]]]]

\* remove_neighbor_everywhere(): q is not sent anything any more.
Forget(F, q) ==
  [i \in DOMAIN F |-> [F[i] EXCEPT !.times_sent = [r \in DOMAIN @ \ {q} |-> @[r]]]]
-----------------------------------------------------------------------------
Init ==
  /\ DATAF = [p \in Peers |-> <<>>]
  /\ nbrs = Links
  /\ draws = [p \in Peers |-> 8]
  /\ net = {}
  /\ said = [m \in {} |-> <<>>]
  /\ shown = [p \in Peers |-> <<>>]
  /\ cut = FALSE

\* A line is read: a nonce is drawn, the line is flooded to all symmetric
\* neighbours without looking the index up, and printed.
ReadLine(p, m) ==
  /\ p = Author[m]
  /\ m \notin DOMAIN said
  /\ said' = [k \in DOMAIN said \cup {m} |-> IF k = m THEN NewIndex(p) ELSE said[k]]
  /\ draws' = [draws EXCEPT ![p] = @ + 4]
  /\ DATAF' = [DATAF EXCEPT ![p] = Flooding(@, NewIndex(p), m, nbrs[p])]
  /\ shown' = [shown EXCEPT ![p] = Append(@, m)]
  /\ UNCHANGED <<nbrs, net, cut>>

\* Mutant: a datum that is already there is printed again.
RecvData_again(d) ==
  LET q == d.to
  IN  /\ d.type = "data"
      /\ net' = net \cup {Ack(q, d.from, d.index)}
      /\ DATAF' = [DATAF EXCEPT ![q] =
           IF d.index \in Indices(q) THEN Has(@, d.index, d.from)
           ELSE Flooding(@, d.index, d.text, nbrs[q] \ {d.from})]
      /\ shown' = [shown EXCEPT ![q] = Append(@, d.text)]
      /\ UNCHANGED <<nbrs, draws, said, cut>>

\* data(): acknowledged whatever it is; new, it is flooded to the others and
\* printed; otherwise its sender is known to have it.
RecvData(d) ==
  LET q == d.to
  IN  /\ d.type = "data"
      /\ net' = net \cup {Ack(q, d.from, d.index)}
      /\ IF d.index \in Indices(q)
         THEN /\ DATAF' = [DATAF EXCEPT ![q] = Has(@, d.index, d.from)]
              /\ UNCHANGED shown
         ELSE /\ DATAF' = [DATAF EXCEPT ![q] =
                             Flooding(@, d.index, d.text, nbrs[q] \ {d.from})]
              /\ shown' = [shown EXCEPT ![q] = Append(@, d.text)]
      /\ UNCHANGED <<nbrs, draws, said, cut>>

\* Mutant: an acknowledgement is taken for all the data.
RecvAck_all(d) ==
  /\ d.type = "ack"
  /\ DATAF' = [DATAF EXCEPT ![d.to] = Forget(@, d.from)]
  /\ UNCHANGED <<nbrs, draws, net, said, shown, cut>>

RecvAck(d) ==
  /\ d.type = "ack"
  /\ DATAF' = [DATAF EXCEPT ![d.to] = Has(@, d.index, d.from)]
  /\ UNCHANGED <<nbrs, draws, net, said, shown, cut>>

\* Mutant: transmissions are not counted.
Transmit_uncounted(p, i, q) ==
  /\ i \in DOMAIN DATAF[p]
  /\ q \in DOMAIN DATAF[p][i].times_sent
  /\ net' = net \cup {DataTlv(p, q, DATAF[p][i].index, DATAF[p][i].text)}
  /\ UNCHANGED <<DATAF, nbrs, draws, said, shown, cut>>

\* A transmission of datum i of p to q, and the draw of the next delay.
Transmit(p, i, q) ==
  /\ i \in DOMAIN DATAF[p]
  /\ q \in DOMAIN DATAF[p][i].times_sent
  /\ DATAF[p][i].times_sent[q] < MaxSent
  /\ DATAF' = [DATAF EXCEPT ![p][i].times_sent[q] = @ + 1]
  /\ net' = net \cup {DataTlv(p, q, DATAF[p][i].index, DATAF[p][i].text)}
  /\ draws' = [draws EXCEPT ![p] = @ + 1]
  /\ UNCHANGED <<nbrs, said, shown, cut>>

\* handle_inactive(): q has been sent a datum MaxSent times.
GiveUp(p, i, q) ==
  /\ i \in DOMAIN DATAF[p]
  /\ q \in DOMAIN DATAF[p][i].times_sent
  /\ DATAF[p][i].times_sent[q] = MaxSent
  /\ DATAF' = [DATAF EXCEPT ![p] = Forget(@, q)]
  /\ nbrs' = [nbrs EXCEPT ![p] = @ \ {q}]
  /\ cut' = TRUE
  /\ UNCHANGED <<draws, net, said, shown>>

Pass(p) == \E i \in 1..NBDATA, q \in Peers : Transmit(p, i, q) \/ GiveUp(p, i, q)

Next ==
  \/ \E p \in Peers, m \in Lines : ReadLine(p, m)
  \/ \E d \in net : RecvData(d) \/ RecvAck(d)
  \/ \E p \in Peers : Pass(p)

\* The passes of a peer go on as long as there is something to send.  Nothing is
\* assumed of the network or of the users.
Spec == Init /\ [][Next]_vars /\ \A p \in Peers : WF_vars(Pass(p))
-----------------------------------------------------------------------------
Datum ==
  [index : Nat \X Nat, text : Lines,
   times_sent : UNION {[S -> 0..MaxSent] : S \in SUBSET Peers}]

\* The lists hold data, and transmissions are limited.
ChatTypeOK ==
  /\ \A p \in Peers : Len(DATAF[p]) <= NBDATA /\ ToSet(DATAF[p]) \subseteq Datum
  /\ nbrs \in [Peers -> SUBSET Peers]
  /\ draws \in [Peers -> Nat]
  /\ DOMAIN said \subseteq Lines /\ said \in [DOMAIN said -> Nat \X Nat]
  /\ \A p \in Peers : ToSet(shown[p]) \subseteq DOMAIN said
  /\ cut \in BOOLEAN

\* Two lines were given the same identifier and nonce, which takes two peers that
\* were started in the same second: each is then taken for the other.
Clash == \E k, m \in DOMAIN said : k # m /\ said[k] = said[m]

\* A peer that does not have to send a datum to a neighbour any more, and has not
\* given the neighbour up, is right: the neighbour has shown it, or two lines clash.
\* Acknowledgements that are delayed, repeated or crossed by the same datum never
\* take off a neighbour that did not get it (data, ack, remove_neighbor_from_flood).
AckedMeansShown ==
  \A p \in Peers : \A i \in DOMAIN DATAF[p] :
    \A q \in nbrs[p] \ DOMAIN DATAF[p][i].times_sent :
      DATAF[p][i].text \in ToSet(shown[q]) \/ Clash

\* Whatever the network loses, every peer comes to the end of its transmissions:
\* each neighbour acknowledges or is given up (flood_message_to_neighbours), and a
\* datum that comes back does not start anew.
FloodingEnds ==
  []<>(\A p \in Peers : \A i \in DOMAIN DATAF[p] : DOMAIN DATAF[p][i].times_sent = {})

B == INSTANCE Broadcast WITH said <- DOMAIN said, cut <- cut \/ Clash

\* The peers implement the broadcast that users expect: a line is shown at most
\* once, and to everybody unless somebody was given up or two lines clash.
BroadcastImplemented == B!BroadcastSpec
=============================================================================
