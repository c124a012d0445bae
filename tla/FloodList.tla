----------------------------- MODULE FloodList ------------------------------
(***************************************************************************)
(* Reliable flooding: DATAF, the list of recent data (list.c, genlist.c),  *)
(* the handlers that change it (data and ack of tlv.c) and the pass that   *)
(* retransmits (flood_messages, util.c).                                   *)
(*                                                                         *)
(* Each datum keeps the list of the neighbours that have not acknowledged  *)
(* it, sorted by the date of their next transmission.  An entry points to  *)
(* the key of a neighbour inside the neighbour tree; here the pointer is   *)
(* the address, and it is valid while the address is in live.  A pass is   *)
(* one step per entry it visits; tmp, the entry it will visit next, is the *)
(* address of that entry.                                                  *)
(***************************************************************************)
EXTENDS Integers, FiniteSets, Sequences, SequencesExt

CONSTANTS
  Addr,      \* addresses, ordered as compare_n() orders IP and port
  NULL,      \* the null pointer
  Data,      \* indices (identifier, nonce) of data
  MaxSent,   \* a neighbour is given up after this many transmissions (5)
  NBDATA,    \* how many data are kept (100)
  Uptime,    \* the monotonic clock when the process starts
  MaxTime    \* bound: the clock stops here

ASSUME FloodAssumption ==
  /\ Addr \subseteq Nat /\ IsFiniteSet(Addr)
  /\ NULL \notin Addr
  /\ MaxSent \in Nat \ {0}
  /\ NBDATA \in Nat \ {0}
  /\ Uptime \in Nat
  /\ MaxTime \in Nat

VARIABLES
  now,    \* get_seconds()
  live,   \* the addresses in the tree of neighbours
  DATAF,  \* the recent data, oldest first
  fi,     \* position of flood_messages() in DATAF, 0 outside a pass
  tmp     \* entry that flood_message_to_neighbours() visits next

floodVars == <<now, live, DATAF, fi, tmp>>

\* struct ngb_entry, and struct flood_entry with the date it was made (history).
NgbEntry == [sym : Addr, times_sent : 0..MaxSent, wait_time : Nat]

FloodEntry == [index : Data, sym_neighbors : Seq(NgbEntry), born : Nat]

Indices == {DATAF[i].index : i \in 1..Len(DATAF)}

Syms(l) == {l[i].sym : i \in 1..Len(l)}
-----------------------------------------------------------------------------
\* Conversion of an int to the 16-bit short that compare functions return.
Short(i) == ((i + 32768) % 65536) - 32768

\* compare_n_s(): equal when the neighbours are, otherwise by date.
compare_n_s(e, sym, wait_time) ==
  IF e.sym = sym THEN 0
  ELSE IF e.wait_time = wait_time THEN 1
  ELSE Short(e.wait_time - wait_time)

\* The first entry that compares equal to the key, and the first that compares
\* equal or greater; 0 if there is none.
first_equal(l, sym, wait_time) ==
  SelectInSeq(l, LAMBDA e : compare_n_s(e, sym, wait_time) = 0)

first_not_less(l, sym, wait_time) ==
  SelectInSeq(l, LAMBDA e : compare_n_s(e, sym, wait_time) >= 0)

\* get() on DATAF: the first entry for an index.
get(F, d) == SelectInSeq(F, LAMBDA f : f.index = d)

\* remove_elem() on a list of neighbours: the first entry equal to the key.
remove_elem(l, sym, wait_time) ==
  LET i == first_equal(l, sym, wait_time)
  IN  IF i = 0 THEN l ELSE RemoveAt(l, i)

\* Mutant: a new date always goes to the end of the list.
add_elem_last(l, n) == Append(l, n)

\* add_elem(): before the first entry that compares greater; nothing is added
\* if an entry that compares equal is met first.
add_elem(l, n) ==
  LET i == first_not_less(l, n.sym, n.wait_time)
  IN  IF i = 0 THEN Append(l, n)
      ELSE IF compare_n_s(l[i], n.sym, n.wait_time) = 0 THEN l
      ELSE InsertAt(l, i, n)

\* add_limited(): append, then drop the oldest if there are too many.
add_limited(l, e, max) ==
  IF Len(l) + 1 > max THEN Tail(Append(l, e)) ELSE Append(l, e)

\* wait_time(): the delays that may be drawn before transmission times_sent + 1.
wait_time(times_sent) ==
  IF times_sent = 0 THEN {1} ELSE 2^(times_sent - 1) .. 2^times_sent - 1

\* find_by() visits the tree in order: the one increasing list of a set.
InOrder(S) ==
  {q \in [1..Cardinality(S) -> S] : \A i, j \in DOMAIN q : i < j => q[i] < q[j]}

\* Mutant: the first transmission is due at once.
init_ngb_entries_at_once(q) ==
  [i \in DOMAIN q |-> [sym |-> q[i], times_sent |-> 0, wait_time |-> now]]

\* init_ngb_entry() on every address of a list.
init_ngb_entries(q) ==
  [i \in DOMAIN q |-> [sym |-> q[i], times_sent |-> 0, wait_time |-> now + 1]]

\* remove_neighbor_from_flood(): get() finds the first entry for the index; the
\* key it removes has date zero.
remove_neighbor_from_flood(F, d, peer) ==
  LET i == get(F, d)
  IN  IF i = 0 THEN F
      ELSE [F EXCEPT ![i].sym_neighbors = remove_elem(@, peer, 0)]

\* The loop of remove_neighbor_everywhere() over DATAF: get() only ever reaches
\* the first entry of an index.
PurgeAll(F, peer) ==
  [i \in DOMAIN F |->
     IF i = get(F, F[i].index)
     THEN [F[i] EXCEPT !.sym_neighbors = remove_elem(@, peer, 0)]
     ELSE F[i]]

\* The first entry of a list, and the entry after that of an address.
FirstSym(l) == IF l = <<>> THEN NULL ELSE l[1].sym

Position(l, a) == CHOOSE i \in 1..Len(l) : l[i].sym = a

NextSym(l, a) ==
  IF Position(l, a) = Len(l) THEN NULL ELSE l[Position(l, a) + 1].sym
-----------------------------------------------------------------------------
FloodInit ==
  /\ now = Uptime
  /\ live = {}
  /\ DATAF = <<>>
  /\ fi = 0
  /\ tmp = NULL

\* add_neighbor(), as flooding sees it.
join(peer) ==
  /\ fi = 0
  /\ live' = live \cup {peer}
  /\ UNCHANGED <<now, DATAF, fi, tmp>>

\* Mutant: the index is not looked up first.
add_message_to_flood_always(d, S, to_delete) ==
  /\ fi = 0
  /\ \E q \in InOrder(S) :
       DATAF' = add_limited(DATAF, [index |-> d, born |-> now,
                    sym_neighbors |-> init_ngb_entries(q)], NBDATA)
  /\ UNCHANGED <<now, live, fi, tmp>>

\* add_message_to_flood(), for the symmetric neighbours S: a datum received from
\* to_delete and not in DATAF (which data() tests), or typed by the user (to_delete is
\* NULL).  For a typed line main() tests nothing: that its index is not that of a datum
\* kept is assumed of the nonce, which is drawn from rand().
add_message_to_flood(d, S, to_delete) ==
  /\ fi = 0
  /\ d \notin Indices
  /\ \E q \in InOrder(S) :
       LET symmetric == init_ngb_entries(q)
           flood == [index |-> d, born |-> now, sym_neighbors |->
                       IF to_delete = NULL THEN symmetric
                       ELSE remove_elem(symmetric, to_delete, 0)]
       IN  DATAF' = add_limited(DATAF, flood, NBDATA)
  /\ UNCHANGED <<now, live, fi, tmp>>

\* ack(), and data() for a datum already in DATAF: the sender has it.
ack(d, peer) ==
  /\ fi = 0
  /\ DATAF' = remove_neighbor_from_flood(DATAF, d, peer)
  /\ UNCHANGED <<now, live, fi, tmp>>

\* remove_neighbor_everywhere(), outside a pass (goaway, expiry).
remove_neighbor_everywhere(peer) ==
  /\ fi = 0
  /\ DATAF' = PurgeAll(DATAF, peer)
  /\ live' = live \ {peer}
  /\ UNCHANGED <<now, fi, tmp>>

Tick ==
  /\ fi = 0
  /\ now < MaxTime
  /\ now' = now + 1
  /\ UNCHANGED <<live, DATAF, fi, tmp>>
-----------------------------------------------------------------------------
\* The pass reaches entry i of DATAF, or ends.
Enter(i) ==
  IF i > Len(DATAF)
  THEN fi' = 0 /\ tmp' = NULL
  ELSE fi' = i /\ tmp' = FirstSym(DATAF[i].sym_neighbors)

flood_messages ==
  /\ fi = 0
  /\ Enter(1)
  /\ UNCHANGED <<now, live, DATAF>>

sym_neighbors == DATAF[fi].sym_neighbors

\* The entry being visited.
nw == sym_neighbors[Position(sym_neighbors, tmp)]

Visiting == fi # 0 /\ tmp \in Syms(sym_neighbors)

\* Mutant: the neighbour is only taken out of the list being visited.
handle_inactive_here ==
  /\ Visiting
  /\ nw.times_sent = MaxSent
  /\ tmp' = NextSym(sym_neighbors, tmp)
  /\ DATAF' = [DATAF EXCEPT ![fi].sym_neighbors = remove_elem(@, tmp, 0)]
  /\ live' = live \ {tmp}
  /\ UNCHANGED <<now, fi>>

\* Mutant: the next entry is not fetched before the current one is freed.
handle_inactive_late_next ==
  /\ Visiting
  /\ nw.times_sent = MaxSent
  /\ DATAF' = PurgeAll(DATAF, tmp)
  /\ live' = live \ {tmp}
  /\ UNCHANGED <<now, fi, tmp>>

\* times_sent == 5: the neighbour is given up everywhere (handle_inactive).
handle_inactive ==
  /\ Visiting
  /\ nw.times_sent = MaxSent
  /\ tmp' = NextSym(sym_neighbors, tmp)
  /\ DATAF' = PurgeAll(DATAF, tmp)
  /\ live' = live \ {tmp}
  /\ UNCHANGED <<now, fi>>

\* Mutant: the entry is queued again without being taken out first.
send_data_copy(w) ==
  /\ Visiting
  /\ nw.times_sent # MaxSent
  /\ now >= nw.wait_time
  /\ w \in wait_time(nw.times_sent + 1)
  /\ tmp' = NextSym(sym_neighbors, tmp)
  /\ DATAF' = [DATAF EXCEPT ![fi].sym_neighbors =
       Append(@, [nw EXCEPT !.times_sent = @ + 1, !.wait_time = now + w])]
  /\ UNCHANGED <<now, live, fi>>

\* Mutant: the next entry is fetched when the current one has been moved.
send_data_late_next(w) ==
  /\ Visiting
  /\ nw.times_sent # MaxSent
  /\ now >= nw.wait_time
  /\ w \in wait_time(nw.times_sent + 1)
  /\ DATAF' = [DATAF EXCEPT ![fi].sym_neighbors =
       add_elem(remove_elem(@, nw.sym, nw.wait_time),
                [nw EXCEPT !.times_sent = @ + 1, !.wait_time = now + w])]
  /\ tmp' = NextSym(DATAF'[fi].sym_neighbors, tmp)
  /\ UNCHANGED <<now, live, fi>>

\* The entry is due: the datum is sent and the entry goes back into the list at
\* its next date, drawn with delay w.  (What remove_elem() gives back is nw: the
\* dates of one list are never 2^16 seconds apart.)
send_data(w) ==
  /\ Visiting
  /\ nw.times_sent # MaxSent
  /\ now >= nw.wait_time
  /\ w \in wait_time(nw.times_sent + 1)
  /\ tmp' = NextSym(sym_neighbors, tmp)
  /\ DATAF' = [DATAF EXCEPT ![fi].sym_neighbors =
       add_elem(remove_elem(@, nw.sym, nw.wait_time),
                [nw EXCEPT !.times_sent = @ + 1, !.wait_time = now + w])]
  /\ UNCHANGED <<now, live, fi>>

\* Mutant: the loop neither returns nor moves to the next entry.
not_due_spins ==
  /\ Visiting
  /\ nw.times_sent # MaxSent
  /\ now < nw.wait_time
  /\ UNCHANGED floodVars

\* The entry is not due: the list is sorted, so the rest is not due either.
not_due ==
  /\ Visiting
  /\ nw.times_sent # MaxSent
  /\ now < nw.wait_time
  /\ Enter(fi + 1)
  /\ UNCHANGED <<now, live, DATAF>>

end_of_list ==
  /\ fi # 0
  /\ tmp = NULL
  /\ Enter(fi + 1)
  /\ UNCHANGED <<now, live, DATAF>>

MaxWait == 2^MaxSent

FloodPass ==
  \/ handle_inactive
  \/ \E w \in 1..MaxWait : send_data(w)
  \/ not_due
  \/ end_of_list

FloodNext ==
  \/ \E a \in Addr : join(a)
  \/ \E d \in Data, S \in SUBSET live, a \in Addr \cup {NULL} :
       add_message_to_flood(d, S, a)
  \/ \E d \in Data, a \in Addr : ack(d, a)
  \/ \E a \in Addr : remove_neighbor_everywhere(a)
  \/ Tick
  \/ flood_messages
  \/ FloodPass

FloodSafety == FloodInit /\ [][FloodNext]_floodVars

FloodSpec == FloodSafety /\ WF_floodVars(FloodPass)
-----------------------------------------------------------------------------
\* The list holds data and entries of the right types; in particular nothing is
\* transmitted more than MaxSent times to one neighbour.
FloodTypeOK ==
  /\ now \in Nat
  /\ live \subseteq Addr
  /\ DATAF \in Seq(FloodEntry)
  /\ fi \in 0..Len(DATAF)
  /\ tmp \in Addr \cup {NULL}

\* DATAF keeps at most NBDATA data and each index once (data, add_limited).  The
\* loop of remove_neighbor_everywhere() relies on it: it looks every index up
\* again with get(), so a second entry for an index would never be purged.
RecentDistinct ==
  /\ Len(DATAF) <= NBDATA
  /\ \A i, j \in 1..Len(DATAF) : DATAF[i].index = DATAF[j].index => i = j

\* A neighbour is at most once in the list of a datum, whatever the order of
\* transmissions and insertions (add_elem, remove_elem).
OneEntryPerNeighbor ==
  \A f \in 1..Len(DATAF) : LET l == DATAF[f].sym_neighbors IN
    \A i, j \in 1..Len(l) : l[i].sym = l[j].sym => i = j

\* Every entry points to the key of a neighbour that is still in the tree: all
\* the ways a neighbour leaves it purge it from all the lists first
\* (remove_neighbor_everywhere), so a pass never reads freed memory.
NoDangling ==
  \A f \in 1..Len(DATAF) : Syms(DATAF[f].sym_neighbors) \subseteq live

\* The list of a datum is sorted by date (add_elem with compare_n_s).
SortedByDate ==
  \A f \in 1..Len(DATAF) :
    IsSorted(DATAF[f].sym_neighbors, LAMBDA x, y : x.wait_time <= y.wait_time)

\* When the pass leaves the list of a datum no entry of it is due, although it
\* stops at the first that is not and moves entries while it walks
\* (flood_message_to_neighbours).
PassedNotDue ==
  [][fi # 0 /\ fi' # fi =>
       LET l == DATAF'[fi].sym_neighbors
       IN  \A i \in 1..Len(l) : now < l[i].wait_time]_floodVars

\* The entry the pass will visit is still in the list although entries were
\* removed, freed and inserted meanwhile (tmp2 in flood_message_to_neighbours).
CursorValid == fi # 0 /\ tmp # NULL => tmp \in Syms(sym_neighbors)

\* A neighbour is only given up for a datum MaxSent transmissions old, and the
\* delays drawn by wait_time() spread these over at least 2^(MaxSent-1) seconds
\* (16 in the code).
NoHastyGiveUp ==
  \A f \in 1..Len(DATAF) : LET l == DATAF[f].sym_neighbors IN
    \A i \in 1..Len(l) :
      l[i].times_sent = MaxSent => now >= DATAF[f].born + 2^(MaxSent - 1)

\* The neighbours a datum is still to be sent to.
Pending(d) ==
  UNION {Syms(DATAF[f].sym_neighbors) :
           f \in {g \in 1..Len(DATAF) : DATAF[g].index = d}}

\* A neighbour that has acknowledged a datum, sent it, or was given up, is never
\* sent it again as long as the datum is in DATAF.
NeverReflooded ==
  [][\A d \in Indices \cap Indices' : Pending(d)' \subseteq Pending(d)]_floodVars

\* Every pass ends, although it inserts entries behind the one it visits.
PassTerminates == fi # 0 ~> fi = 0
=============================================================================
