------------------------------- MODULE Tables -------------------------------
(***************************************************************************)
(* The two neighbour tables of a peer (abr.c) and the handlers that write  *)
(* them (hello, neighbour and goaway of tlv.c, the two-minute expiry of    *)
(* net_lib.c).                                                             *)
(*                                                                         *)
(* NEIGHBORS and POTENTIAL are binary search trees keyed by IP and port;   *)
(* here a table is a partial function from addresses to identities, which  *)
(* is all that lookups, insertions and removals tell apart.  Time is the   *)
(* monotonic clock in seconds, which counts from the boot of the machine.  *)
(***************************************************************************)
EXTENDS Integers

CONSTANTS
  Addr,      \* addresses (IP and port) this peer can hear of, its own included
  Id,        \* 64-bit peer identifiers
  NoId,      \* the zero identifier of a zeroed struct ident
  ID,        \* the identifier this process drew when it started
  NoDest,    \* "no destination field": the hello is a short one
  OldAge,    \* 120 seconds in the code
  Uptime,    \* the monotonic clock when the process starts
  MaxTime    \* bound: the clock stops here

ASSUME TablesAssumption ==
  /\ NoId \in Id
  /\ ID \in Id \ {NoId}
  /\ NoDest \notin Id
  /\ OldAge \in Nat \ {0}
  /\ Uptime \in Nat \ {0}
  /\ MaxTime \in Nat

VARIABLES
  now,        \* get_seconds()
  NEIGHBORS,  \* address -> identity, for the neighbours
  POTENTIAL,  \* address -> identity, for the addresses other peers told us of
  heard       \* history: when a long hello naming ID last came from an address

tablesVars == <<now, NEIGHBORS, POTENTIAL, heard>>

Ident == [id : Id, last_hello : Nat, last_hello_long : Nat]

IsTable(t) == DOMAIN t \subseteq Addr /\ t \in [DOMAIN t -> Ident]
-----------------------------------------------------------------------------
\* Insertion.  An address that is already there gets both dates of the new
\* value, whatever they are, and keeps its old identifier.
add_neighbor_aux(t, key, val) ==
  [a \in DOMAIN t \cup {key} |->
     IF a # key THEN t[a]
     ELSE IF key \in DOMAIN t THEN [val EXCEPT !.id = t[key].id]
     ELSE val]

\* Removal, of an address that may be absent.
remove_neighbor_aux(t, key) == [a \in DOMAIN t \ {key} |-> t[a]]

issymmetrical(val) == now - val.last_hello_long < OldAge

is_old(val) == now - val.last_hello > OldAge

\* find_by: the addresses of a table whose identity satisfies the predicate.
get_symmetrical == {a \in DOMAIN NEIGHBORS : issymmetrical(NEIGHBORS[a])}

OldNeighbors == {a \in DOMAIN NEIGHBORS : is_old(NEIGHBORS[a])}

OldPotential == {a \in DOMAIN POTENTIAL : is_old(POTENTIAL[a])}
-----------------------------------------------------------------------------
TablesInit ==
  /\ now = Uptime
  /\ NEIGHBORS = [a \in {} |-> NoId]
  /\ POTENTIAL = [a \in {} |-> NoId]
  /\ heard = [a \in Addr |-> 0]

\* Mutant: a short hello counts as a long one.
HelloIdent_always_long(source, dest) ==
  [id |-> source, last_hello |-> now, last_hello_long |-> now]

\* The identity a hello writes: a short hello leaves last_hello_long at zero.
HelloIdent(source, dest) ==
  [id |-> source, last_hello |-> now,
   last_hello_long |-> IF dest = NoDest THEN 0 ELSE now]

\* Mutant: the new neighbour is left in POTENTIAL.
hello_keeps_potential(peer, source, dest) ==
  /\ dest \in {NoDest, ID}
  /\ NEIGHBORS' = add_neighbor_aux(NEIGHBORS, peer, HelloIdent(source, dest))
  /\ heard' = IF dest = ID THEN [heard EXCEPT ![peer] = now] ELSE heard
  /\ UNCHANGED <<now, POTENTIAL>>

\* hello(): a short hello, or a long one that names this process.  A long hello
\* for another identifier is ignored altogether.  A new neighbour stops being a
\* potential one; the long hellos it triggers are sent by Peer.
hello(peer, source, dest) ==
  /\ dest \in {NoDest, ID}
  /\ NEIGHBORS' = add_neighbor_aux(NEIGHBORS, peer, HelloIdent(source, dest))
  /\ POTENTIAL' = IF peer \in DOMAIN NEIGHBORS THEN POTENTIAL
                  ELSE remove_neighbor_aux(POTENTIAL, peer)
  /\ heard' = IF dest = ID THEN [heard EXCEPT ![peer] = now] ELSE heard
  /\ UNCHANGED now

\* neighbour(): an address we do not have yet is recorded as a potential one,
\* or refreshed.
neighbour(key) ==
  /\ key \notin DOMAIN NEIGHBORS
  /\ POTENTIAL' = add_neighbor_aux(POTENTIAL, key,
         [id |-> NoId, last_hello |-> now, last_hello_long |-> 0])
  /\ UNCHANGED <<now, NEIGHBORS, heard>>

\* remove_neighbor(): a goaway received, a neighbour given up by flooding, or
\* one turn of the loop of send_goaway_asymetrical() over OldNeighbors.
remove_neighbor(peer) ==
  /\ NEIGHBORS' = remove_neighbor_aux(NEIGHBORS, peer)
  /\ UNCHANGED <<now, POTENTIAL, heard>>

remove_old_potential ==
  /\ POTENTIAL' = [a \in DOMAIN POTENTIAL \ OldPotential |-> POTENTIAL[a]]
  /\ UNCHANGED <<now, NEIGHBORS, heard>>

Tick ==
  /\ now < MaxTime
  /\ now' = now + 1
  /\ UNCHANGED <<NEIGHBORS, POTENTIAL, heard>>

TablesNext ==
  \/ \E a \in Addr, i \in Id, d \in {NoDest, ID} : hello(a, i, d)
  \/ \E a \in Addr : neighbour(a)
  \/ \E a \in Addr : remove_neighbor(a)
  \/ remove_old_potential
  \/ Tick

TablesSpec == TablesInit /\ [][TablesNext]_tablesVars
-----------------------------------------------------------------------------
\* The tables hold identities, under addresses of Addr, and the clock never
\* runs past its bound unless it starts there.
TablesTypeOK ==
  /\ now \in Nat
  /\ IsTable(NEIGHBORS)
  /\ IsTable(POTENTIAL)
  /\ heard \in [Addr -> Nat]

\* An address is never a neighbour and a potential neighbour at once: hello()
\* takes it out of POTENTIAL when it enters NEIGHBORS, and neighbour() refuses
\* it afterwards.  Otherwise the peer would go on sending short hellos to a
\* neighbour, and each of them resets last_hello_long at the other end.
Disjoint == DOMAIN NEIGHBORS \cap DOMAIN POTENTIAL = {}

\* The two dates of a neighbour are consistent with each other, with the clock
\* and with what was received: every hello overwrites both, so the long date is
\* either zero or the date of the last hello, which was then a long one.
HelloDates ==
  \A a \in DOMAIN NEIGHBORS :
    /\ NEIGHBORS[a].last_hello <= now
    /\ \/ NEIGHBORS[a].last_hello_long = 0
       \/ /\ NEIGHBORS[a].last_hello_long = NEIGHBORS[a].last_hello
          /\ NEIGHBORS[a].last_hello_long = heard[a]

\* A neighbour that send_goaway_asymetrical() gives up as silent is never one
\* that the same hello round announced to the others as symmetric.
OldIsAsymmetric == OldNeighbors \cap get_symmetrical = {}

\* A neighbour counts as symmetric only if a long hello naming this process came
\* from it in the last OldAge seconds (issymmetrical, and the requirement at the
\* end of main.c: "si un voisin pas de hello long depuis 2 min, marque comme non
\* symetrique").  The exception is the machine's first OldAge seconds, in which the
\* date 0 of a long hello that never came is recent.
SymmetricWasHeard ==
  \A a \in get_symmetrical :
    \/ heard[a] > 0 /\ now - heard[a] < OldAge
    \/ now < OldAge

\* A potential neighbour is only forgotten when it becomes a neighbour or when
\* nothing was heard of it for OldAge seconds (hello, remove_old_potential).
PotentialKept ==
  [][\A a \in DOMAIN POTENTIAL \ DOMAIN POTENTIAL' :
        a \in DOMAIN NEIGHBORS' \/ is_old(POTENTIAL[a])]_tablesVars
=============================================================================
