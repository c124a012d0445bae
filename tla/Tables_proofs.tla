--------------------------- MODULE Tables_proofs ----------------------------
(***************************************************************************)
(* The invariants of the neighbour tables, for every set of addresses and  *)
(* identifiers and every value of the clock.                               *)
(***************************************************************************)
EXTENDS Tables, TLAPS

\* An insertion into a table gives a table, whose addresses are the old ones
\* and the key (add_neighbor_aux, abr.c).
LEMMA InsertTable ==
  ASSUME NEW t, IsTable(t), NEW k \in Addr, NEW v \in Ident
  PROVE  /\ IsTable(add_neighbor_aux(t, k, v))
         /\ DOMAIN add_neighbor_aux(t, k, v) = DOMAIN t \cup {k}
         /\ \A a \in DOMAIN t \ {k} : add_neighbor_aux(t, k, v)[a] = t[a]
         /\ add_neighbor_aux(t, k, v)[k].last_hello = v.last_hello
         /\ add_neighbor_aux(t, k, v)[k].last_hello_long = v.last_hello_long
<1> DEFINE u == add_neighbor_aux(t, k, v)
<1>1. DOMAIN u = DOMAIN t \cup {k}
  BY DEF add_neighbor_aux
<1>2. \A a \in DOMAIN t \ {k} : u[a] = t[a]
  BY DEF add_neighbor_aux
<1>3. /\ u[k] \in Ident
      /\ u[k].last_hello = v.last_hello
      /\ u[k].last_hello_long = v.last_hello_long
  BY DEF add_neighbor_aux, Ident, IsTable
<1>4. IsTable(u)
  <2>1. \A a \in DOMAIN t \cup {k} : u[a] \in Ident
    BY <1>2, <1>3 DEF IsTable
  <2>2. u = [a \in DOMAIN t \cup {k} |-> u[a]]
    BY DEF add_neighbor_aux
  <2> QED
    BY <1>1, <2>1, <2>2 DEF IsTable
<1> QED
  BY <1>1, <1>2, <1>3, <1>4

\* Restricting a table to some of its addresses gives a table.
LEMMA RestrictTable ==
  ASSUME NEW t, IsTable(t), NEW S \in SUBSET (DOMAIN t)
  PROVE  IsTable([a \in S |-> t[a]])
BY DEF IsTable

\* The identity a hello writes is an identity.
LEMMA HelloIdentType ==
  ASSUME now \in Nat, NEW i \in Id, NEW d
  PROVE  HelloIdent(i, d) \in Ident
BY DEF HelloIdent, Ident

\* Type correctness of the tables: no handler puts anything but an identity
\* under an address.
THEOREM TablesTypeCorrect == TablesSpec => []TablesTypeOK
<1> USE TablesAssumption
<1>1. TablesInit => TablesTypeOK
  BY DEF TablesInit, TablesTypeOK, IsTable, Ident
<1>2. TablesTypeOK /\ [TablesNext]_tablesVars => TablesTypeOK'
  <2> SUFFICES ASSUME TablesTypeOK, [TablesNext]_tablesVars
               PROVE  TablesTypeOK'
    OBVIOUS
  <2> USE DEF TablesTypeOK
  <2>1. ASSUME NEW a \in Addr, NEW i \in Id, NEW d \in {NoDest, ID}, hello(a, i, d)
        PROVE  TablesTypeOK'
    <3>1. IsTable(NEIGHBORS')
      BY <2>1, HelloIdentType, InsertTable DEF hello
    <3>2. IsTable(POTENTIAL')
      <4>1. CASE a \in DOMAIN NEIGHBORS
        BY <2>1, <4>1 DEF hello, IsTable
      <4>2. CASE a \notin DOMAIN NEIGHBORS
        BY <2>1, <4>2, RestrictTable DEF hello, remove_neighbor_aux
      <4> QED BY <4>1, <4>2
    <3>3. heard' \in [Addr -> Nat] /\ now' \in Nat
      BY <2>1 DEF hello
    <3> QED BY <3>1, <3>2, <3>3 DEF IsTable
  <2>2. ASSUME NEW a \in Addr, neighbour(a)
        PROVE  TablesTypeOK'
    <3> DEFINE v == [id |-> NoId, last_hello |-> now, last_hello_long |-> 0]
    <3>1. v \in Ident
      BY DEF Ident
    <3>2. IsTable(POTENTIAL')
      BY <2>2, <3>1, InsertTable DEF neighbour
    <3> QED BY <2>2, <3>2 DEF neighbour, IsTable
  <2>3. ASSUME NEW a \in Addr, remove_neighbor(a)
        PROVE  TablesTypeOK'
    <3>1. IsTable(NEIGHBORS')
      BY <2>3, RestrictTable DEF remove_neighbor, remove_neighbor_aux
    <3> QED BY <2>3, <3>1 DEF remove_neighbor, IsTable
  <2>4. CASE remove_old_potential
    <3>1. IsTable(POTENTIAL')
      BY <2>4, RestrictTable DEF remove_old_potential
    <3> QED BY <2>4, <3>1 DEF remove_old_potential, IsTable
  <2>5. CASE Tick
    BY <2>5 DEF Tick, IsTable
  <2>6. CASE UNCHANGED tablesVars
    BY <2>6 DEF tablesVars, IsTable
  <2> QED
    BY <2>1, <2>2, <2>3, <2>4, <2>5, <2>6 DEF TablesNext
<1> QED
  BY <1>1, <1>2, PTL DEF TablesSpec

\* An address is never in both tables, whatever the order of hellos, neighbour
\* announcements, goaways and expiries.
THEOREM TablesDisjoint == TablesSpec => []Disjoint
<1>1. TablesInit => Disjoint
  BY DEF TablesInit, Disjoint
<1>2. TablesTypeOK /\ Disjoint /\ [TablesNext]_tablesVars => Disjoint'
  <2> SUFFICES ASSUME TablesTypeOK, Disjoint, [TablesNext]_tablesVars
               PROVE  Disjoint'
    OBVIOUS
  <2> USE DEF Disjoint
  <2>1. ASSUME NEW a \in Addr, NEW i \in Id, NEW d \in {NoDest, ID}, hello(a, i, d)
        PROVE  Disjoint'
    <3>1. DOMAIN NEIGHBORS' = DOMAIN NEIGHBORS \cup {a}
      BY <2>1, HelloIdentType, InsertTable DEF hello, TablesTypeOK
    <3>2. CASE a \in DOMAIN NEIGHBORS
      BY <2>1, <3>1, <3>2 DEF hello
    <3>3. CASE a \notin DOMAIN NEIGHBORS
      BY <2>1, <3>1, <3>3 DEF hello, remove_neighbor_aux
    <3> QED BY <3>2, <3>3
  <2>2. ASSUME NEW a \in Addr, neighbour(a)
        PROVE  Disjoint'
    BY <2>2 DEF neighbour, add_neighbor_aux
  <2>3. ASSUME NEW a \in Addr, remove_neighbor(a)
        PROVE  Disjoint'
    BY <2>3 DEF remove_neighbor, remove_neighbor_aux
  <2>4. CASE remove_old_potential
    BY <2>4 DEF remove_old_potential
  <2>5. CASE Tick
    BY <2>5 DEF Tick
  <2>6. CASE UNCHANGED tablesVars
    BY <2>6 DEF tablesVars
  <2> QED
    BY <2>1, <2>2, <2>3, <2>4, <2>5, <2>6 DEF TablesNext
<1> QED
  BY <1>1, <1>2, TablesTypeCorrect, PTL DEF TablesSpec

\* The dates of every neighbour agree with each other, with the clock and with
\* the long hellos received.
THEOREM TablesHelloDates == TablesSpec => []HelloDates
<1> USE TablesAssumption
<1>1. TablesInit => HelloDates
  BY DEF TablesInit, HelloDates
<1>2. TablesTypeOK /\ HelloDates /\ [TablesNext]_tablesVars => HelloDates'
  <2> SUFFICES ASSUME TablesTypeOK, HelloDates, [TablesNext]_tablesVars
               PROVE  HelloDates'
    OBVIOUS
  <2>1. ASSUME NEW a \in Addr, NEW i \in Id, NEW d \in {NoDest, ID}, hello(a, i, d)
        PROVE  HelloDates'
    <3> DEFINE v == HelloIdent(i, d)
               u == add_neighbor_aux(NEIGHBORS, a, v)
    <3>0. /\ v \in Ident
          /\ NEIGHBORS' = u
      BY <2>1, HelloIdentType DEF hello, TablesTypeOK
    <3>1. /\ DOMAIN NEIGHBORS' = DOMAIN NEIGHBORS \cup {a}
          /\ \A b \in DOMAIN NEIGHBORS \ {a} : NEIGHBORS'[b] = NEIGHBORS[b]
          /\ NEIGHBORS'[a].last_hello = v.last_hello
          /\ NEIGHBORS'[a].last_hello_long = v.last_hello_long
      <4>1. IsTable(NEIGHBORS)
        BY DEF TablesTypeOK
      <4>2. /\ DOMAIN u = DOMAIN NEIGHBORS \cup {a}
            /\ \A b \in DOMAIN NEIGHBORS \ {a} : u[b] = NEIGHBORS[b]
            /\ u[a].last_hello = v.last_hello
            /\ u[a].last_hello_long = v.last_hello_long
        <5> HIDE DEF v
        <5> QED BY <3>0, <4>1, InsertTable
      <4> HIDE DEF u, v
      <4> QED BY <3>0, <4>2
    <3>2. /\ v.last_hello = now
          /\ v.last_hello_long = IF d = NoDest THEN 0 ELSE now
      BY DEF HelloIdent
    <3>3. /\ heard' = IF d = ID THEN [heard EXCEPT ![a] = now] ELSE heard
          /\ now' = now
      BY <2>1 DEF hello
    <3>4. ASSUME NEW b \in DOMAIN NEIGHBORS \ {a}
          PROVE  /\ NEIGHBORS'[b].last_hello <= now'
                 /\ \/ NEIGHBORS'[b].last_hello_long = 0
                    \/ /\ NEIGHBORS'[b].last_hello_long = NEIGHBORS'[b].last_hello
                       /\ NEIGHBORS'[b].last_hello_long = heard'[b]
      <4>1. b \in Addr /\ heard'[b] = heard[b]
        BY <3>3 DEF TablesTypeOK, IsTable
      <4> QED BY <3>1, <3>3, <4>1 DEF HelloDates
    <3>5. /\ NEIGHBORS'[a].last_hello <= now'
          /\ \/ NEIGHBORS'[a].last_hello_long = 0
             \/ /\ NEIGHBORS'[a].last_hello_long = NEIGHBORS'[a].last_hello
                /\ NEIGHBORS'[a].last_hello_long = heard'[a]
      <4>1. d = NoDest \/ heard'[a] = now
        BY <3>3 DEF TablesTypeOK
      <4> QED BY <3>1, <3>2, <3>3, <4>1 DEF TablesTypeOK
    <3> QED BY <3>1, <3>4, <3>5 DEF HelloDates
  <2>2. ASSUME NEW a \in Addr, neighbour(a)
        PROVE  HelloDates'
    BY <2>2 DEF neighbour, HelloDates
  <2>3. ASSUME NEW a \in Addr, remove_neighbor(a)
        PROVE  HelloDates'
    BY <2>3 DEF remove_neighbor, remove_neighbor_aux, HelloDates
  <2>4. CASE remove_old_potential
    BY <2>4 DEF remove_old_potential, HelloDates
  <2>5. CASE Tick
    BY <2>5 DEF Tick, HelloDates, TablesTypeOK, IsTable, Ident
  <2>6. CASE UNCHANGED tablesVars
    BY <2>6 DEF tablesVars, HelloDates
  <2> QED
    BY <2>1, <2>2, <2>3, <2>4, <2>5, <2>6 DEF TablesNext
<1> QED
  BY <1>1, <1>2, TablesTypeCorrect, PTL DEF TablesSpec

\* No neighbour is at once announced as symmetric and given up as silent.
THEOREM TablesOldIsAsymmetric == TablesSpec => []OldIsAsymmetric
<1>1. TablesTypeOK /\ HelloDates => OldIsAsymmetric
  BY TablesAssumption
  DEF TablesTypeOK, HelloDates, OldIsAsymmetric, OldNeighbors, get_symmetrical,
      is_old, issymmetrical, IsTable, Ident
<1> QED
  BY <1>1, TablesTypeCorrect, TablesHelloDates, PTL

\* The clock never goes back behind the start of the process.
LEMMA ClockFromUptime == TablesSpec => [](now >= Uptime)
<1>1. TablesInit => now >= Uptime
  BY TablesAssumption DEF TablesInit
<1>2. TablesTypeOK /\ now >= Uptime /\ [TablesNext]_tablesVars => (now >= Uptime)'
  BY TablesAssumption
  DEF TablesTypeOK, TablesNext, tablesVars, hello, neighbour, remove_neighbor,
      remove_old_potential, Tick
<1> QED
  BY <1>1, <1>2, TablesTypeCorrect, PTL DEF TablesSpec

\* A symmetric neighbour has sent a long hello naming this process less than OldAge
\* seconds ago, unless the machine was booted less than OldAge seconds ago.
THEOREM TablesSymmetricWasHeard == TablesSpec => []SymmetricWasHeard
<1>1. TablesTypeOK /\ HelloDates => SymmetricWasHeard
  <2> SUFFICES ASSUME TablesTypeOK, HelloDates, NEW a \in get_symmetrical
               PROVE  (heard[a] > 0 /\ now - heard[a] < OldAge) \/ now < OldAge
    BY DEF SymmetricWasHeard
  <2>1. /\ a \in DOMAIN NEIGHBORS
        /\ now - NEIGHBORS[a].last_hello_long < OldAge
    BY DEF get_symmetrical, issymmetrical
  <2>2. now \in Nat /\ OldAge \in Nat /\ heard[a] \in Nat
    BY <2>1, TablesAssumption DEF TablesTypeOK, IsTable
  <2>3. CASE NEIGHBORS[a].last_hello_long = 0
    BY <2>1, <2>2, <2>3
  <2>4. CASE NEIGHBORS[a].last_hello_long = heard[a]
    BY <2>1, <2>2, <2>4
  <2> QED
    BY <2>1, <2>3, <2>4 DEF HelloDates
<1> QED
  BY <1>1, TablesTypeCorrect, TablesHelloDates, PTL

\* A potential neighbour is only forgotten when promoted or out of date.
THEOREM TablesPotentialKept == TablesSpec => PotentialKept
<1> DEFINE Kept == \A a \in DOMAIN POTENTIAL \ DOMAIN POTENTIAL' :
                      a \in DOMAIN NEIGHBORS' \/ is_old(POTENTIAL[a])
<1>1. TablesTypeOK /\ [TablesNext]_tablesVars => [Kept]_tablesVars
  <2> SUFFICES ASSUME TablesTypeOK, TablesNext
               PROVE  Kept
    BY DEF tablesVars
  <2>1. ASSUME NEW a \in Addr, NEW i \in Id, NEW d \in {NoDest, ID}, hello(a, i, d)
        PROVE  Kept
    <3>1. DOMAIN NEIGHBORS' = DOMAIN NEIGHBORS \cup {a}
      BY <2>1, HelloIdentType, InsertTable DEF hello, TablesTypeOK
    <3> QED BY <2>1, <3>1 DEF hello, remove_neighbor_aux
  <2>2. ASSUME NEW a \in Addr, neighbour(a)
        PROVE  Kept
    BY <2>2 DEF neighbour, add_neighbor_aux
  <2>3. ASSUME NEW a \in Addr, remove_neighbor(a)
        PROVE  Kept
    BY <2>3 DEF remove_neighbor
  <2>4. CASE remove_old_potential
    BY <2>4 DEF remove_old_potential, OldPotential
  <2>5. CASE Tick
    BY <2>5 DEF Tick
  <2> QED
    BY <2>1, <2>2, <2>3, <2>4, <2>5 DEF TablesNext
<1> QED
  BY <1>1, TablesTypeCorrect, PTL DEF TablesSpec, PotentialKept
=============================================================================
