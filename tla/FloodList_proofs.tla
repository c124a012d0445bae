-------------------------- MODULE FloodList_proofs --------------------------
(***************************************************************************)
(* Proofs about FloodList, for every set of addresses and data and every   *)
(* limit.                                                                  *)
(*  - The list functions of genlist.c on one list of neighbours           *)
(*    (GoodList), then DATAF as a whole (GoodData), then the actions, one  *)
(*    lemma each, and the invariant FloodInv.                              *)
(*  - Whatever the dates: what each step does to the entries (DataStep),   *)
(*    and what follows for types, refloods and delays.                     *)
(*  - The order of the lists and what a pass leaves behind (WalkInv).      *)
(* FloodInv and WalkInv stay true as long as compare_n_s() can tell the    *)
(* dates apart, which is all that is asked of a behaviour: no entry has    *)
(* the date zero on 16 bits (NoZeroDate), and none is so late that the     *)
(* differences of dates leave the range of a short (Prompt).               *)
(*                                                                         *)
(* The constants of the 16-bit comparison are expanded only in leaves      *)
(* given to the SMT solver.                                                *)
(***************************************************************************)
EXTENDS FloodList, FiniteSetTheorems, SequenceTheorems, WellFoundedInduction, TLAPS

\* The least element of a set of positions.
LEMMA MinOfNaturals ==
  ASSUME NEW I \in SUBSET Nat, I # {}
  PROVE  Min(I) \in I /\ \A y \in I : Min(I) <= y
<1> DEFINE R == {ss \in Nat \X Nat : ss[1] < ss[2]}
<1>1. IsWellFoundedOn(R, Nat)
  BY NatLessThanWellFounded, Zenon DEF OpToRel
<1>2. PICK x \in I : \A y \in I : ~ (<<y, x>> \in R)
  <2> HIDE DEF R
  <2> QED BY <1>1, WFMin
<1>3. \A y \in I : x <= y
  <2> SUFFICES ASSUME NEW y \in I, y < x PROVE FALSE
    OBVIOUS
  <2>1. <<y, x>> \in Nat \X Nat /\ <<y, x>>[1] < <<y, x>>[2]
    OBVIOUS
  <2>2. <<y, x>> \in R
    BY <2>1
  <2> QED
    BY <1>2, <2>2
<1> QED
  BY <1>3 DEF Min

\* The largest int that the conversion to a short does not change.
ShortMax == 32767

\* A date that is not a multiple of 2^16 differs from the key of date zero.
LEMMA ShortZero ==
  ASSUME NEW u \in Nat, u % 65536 # 0
  PROVE  Short(u - 0) # 0
<1>1. u - 0 = u
  BY SMT
<1>2. Short(u) # 0
  BY SMT DEF Short
<1> QED
  BY <1>1, <1>2

\* A difference that fits a short is the result of the comparison.
LEMMA ShortExact ==
  ASSUME NEW u \in Int, NEW v \in Int, NEW n \in Int,
         u <= n, v <= n, n <= u + ShortMax, n <= v + ShortMax
  PROVE  Short(u - v) = u - v
<1> DEFINE x == u - v
<1>1. x \in Int /\ -32768 < x /\ x < 32768
  BY SMT DEF ShortMax
<1> HIDE DEF x
<1>2. Short(x) = x
  BY <1>1, SMT DEF Short
<1> QED
  BY <1>2 DEF x

\* The comparison tells the dates of a list from w; it shows their differences to w.
Told(l, w) ==
  \A i \in 1..Len(l) : l[i].wait_time = w \/ Short(l[i].wait_time - w) # 0

Exact(l, w) ==
  \A i \in 1..Len(l) :
    l[i].wait_time \in Int /\ Short(l[i].wait_time - w) = l[i].wait_time - w

LEMMA ExactTold ==
  ASSUME NEW l, NEW w \in Int, Exact(l, w)
  PROVE  Told(l, w)
<1> SUFFICES ASSUME NEW i \in 1..Len(l), Short(l[i].wait_time - w) = 0
             PROVE  l[i].wait_time = w
  BY DEF Told
<1>1. l[i].wait_time \in Int /\ l[i].wait_time - w = 0
  BY DEF Exact
<1> QED
  BY <1>1

\* The first element of a list that satisfies a test: first_equal, first_not_less
\* and get say it for their tests.
LEMMA FirstEqual ==
  ASSUME NEW l, Len(l) \in Nat, NEW sym, NEW w, NEW k, k = first_equal(l, sym, w)
  PROVE  \/ k = 0 /\ \A i \in 1..Len(l) : compare_n_s(l[i], sym, w) # 0
         \/ k \in 1..Len(l) /\ compare_n_s(l[k], sym, w) = 0
<1> DEFINE I == {i \in 1..Len(l) : compare_n_s(l[i], sym, w) = 0}
<1>1. k = IF I # {} THEN Min(I) ELSE 0
  BY DEF first_equal, SelectInSeq
<1>2. I \in SUBSET Nat
  OBVIOUS
<1>3. CASE I = {}
  BY <1>1, <1>3
<1>4. CASE I # {}
  <2>1. k \in I
    <3> HIDE DEF I
    <3> QED BY <1>1, <1>2, <1>4, MinOfNaturals
  <2> QED
    BY <2>1
<1> QED
  BY <1>3, <1>4

\* The first entry that is not less, with those before it less.
LEMMA FirstNotLess ==
  ASSUME NEW l, Len(l) \in Nat, NEW sym, NEW w, NEW k, k = first_not_less(l, sym, w)
  PROVE  \/ k = 0 /\ \A i \in 1..Len(l) : ~(compare_n_s(l[i], sym, w) >= 0)
         \/ /\ k \in 1..Len(l) /\ compare_n_s(l[k], sym, w) >= 0
            /\ \A i \in 1..(k - 1) : ~(compare_n_s(l[i], sym, w) >= 0)
<1> DEFINE I == {i \in 1..Len(l) : compare_n_s(l[i], sym, w) >= 0}
<1>1. k = IF I # {} THEN Min(I) ELSE 0
  BY DEF first_not_less, SelectInSeq
<1>2. I \in SUBSET Nat
  OBVIOUS
<1>3. CASE I = {}
  BY <1>1, <1>3
<1>4. CASE I # {}
  <2>1. k \in I /\ \A i \in I : k <= i
    <3> HIDE DEF I
    <3> QED BY <1>1, <1>2, <1>4, MinOfNaturals
  <2>2. k \in 1..Len(l) /\ compare_n_s(l[k], sym, w) >= 0
    BY <2>1
  <2>3. ASSUME NEW i \in 1..(k - 1) PROVE ~(compare_n_s(l[i], sym, w) >= 0)
    <3>1. i \in 1..Len(l) /\ ~(k <= i)
      BY <2>2
    <3> QED
      BY <2>1, <3>1
  <2> QED
    BY <2>2, <2>3
<1> QED
  BY <1>3, <1>4

\* get() finds an entry for the index if there is one.
LEMMA GetFirst ==
  ASSUME NEW F, Len(F) \in Nat, NEW d, NEW k, k = get(F, d)
  PROVE  \/ k = 0 /\ \A i \in 1..Len(F) : F[i].index # d
         \/ k \in 1..Len(F) /\ F[k].index = d
<1> DEFINE I == {i \in 1..Len(F) : F[i].index = d}
<1>1. k = IF I # {} THEN Min(I) ELSE 0
  BY DEF get, SelectInSeq
<1>2. I \in SUBSET Nat
  OBVIOUS
<1>3. CASE I = {}
  BY <1>1, <1>3
<1>4. CASE I # {}
  <2>1. k \in I
    <3> HIDE DEF I
    <3> QED BY <1>1, <1>2, <1>4, MinOfNaturals
  <2> QED
    BY <2>1
<1> QED
  BY <1>3, <1>4

\* Elements of a list from which one was taken, and of one into which one was put.
Removed(S, l, k, r) ==
  /\ r \in Seq(S) /\ Len(r) = Len(l) - 1
  /\ \A i \in 1..Len(r) : r[i] = IF i < k THEN l[i] ELSE l[i + 1]

Inserted(S, l, k, n, r) ==
  /\ r \in Seq(S) /\ Len(r) = Len(l) + 1
  /\ \A i \in 1..Len(r) :
       r[i] = IF i < k THEN l[i] ELSE IF i = k THEN n ELSE l[i - 1]

\* The list after a removal.
LEMMA RemoveAtList ==
  ASSUME NEW S, NEW l \in Seq(S), NEW k \in 1..Len(l), NEW r, r = RemoveAt(l, k)
  PROVE  Removed(S, l, k, r)
<1> DEFINE a == SubSeq(l, 1, k - 1)
           b == SubSeq(l, k + 1, Len(l))
<1>0. Len(l) \in Nat /\ k \in Nat
  OBVIOUS
<1>1. a \in Seq(S) /\ Len(a) = k - 1 /\ \A i \in 1..(k - 1) : a[i] = l[i]
  BY <1>0
<1>2. b \in Seq(S) /\ Len(b) = Len(l) - k /\ \A i \in 1..(Len(l) - k) : b[i] = l[k + i]
  BY <1>0
<1>3. r = a \o b
  BY DEF RemoveAt
<1> HIDE DEF a, b
<1>4. r \in Seq(S) /\ Len(r) = Len(l) - 1
  BY <1>0, <1>1, <1>2, <1>3
<1>5. \A i \in 1..Len(r) : r[i] = IF i <= Len(a) THEN a[i] ELSE b[i - Len(a)]
  BY <1>1, <1>2, <1>3, ConcatProperties
<1>6. \A i \in 1..Len(r) : r[i] = IF i < k THEN l[i] ELSE l[i + 1]
  <2> SUFFICES ASSUME NEW i \in 1..Len(r)
               PROVE  r[i] = IF i < k THEN l[i] ELSE l[i + 1]
    OBVIOUS
  <2>1. CASE i < k
    <3>1. i \in 1..(k - 1) /\ i <= Len(a)
      BY <2>1, <1>0, <1>1
    <3> QED
      BY <3>1, <2>1, <1>1, <1>5
  <2>2. CASE ~(i < k)
    <3>1. i - Len(a) \in 1..(Len(l) - k) /\ ~(i <= Len(a)) /\ k + (i - Len(a)) = i + 1
      BY <2>2, <1>0, <1>1, <1>4
    <3>2. r[i] = b[i - Len(a)]
      BY <3>1, <1>5
    <3>3. b[i - Len(a)] = l[k + (i - Len(a))]
      BY <3>1, <1>2
    <3> QED
      BY <3>1, <3>2, <3>3, <2>2
  <2> QED
    BY <2>1, <2>2
<1> QED
  BY <1>4, <1>6 DEF Removed

\* The list after an insertion.
LEMMA InsertAtList ==
  ASSUME NEW S, NEW l \in Seq(S), NEW k \in 1..Len(l), NEW n \in S,
         NEW r, r = InsertAt(l, k, n)
  PROVE  Inserted(S, l, k, n, r)
<1> DEFINE a == SubSeq(l, 1, k - 1)
           b == SubSeq(l, k, Len(l))
           c == a \o <<n>>
<1>0. Len(l) \in Nat /\ k \in Nat
  OBVIOUS
<1>1. a \in Seq(S) /\ Len(a) = k - 1 /\ \A i \in 1..(k - 1) : a[i] = l[i]
  BY <1>0
<1>2. /\ b \in Seq(S) /\ Len(b) = Len(l) - k + 1
      /\ \A i \in 1..(Len(l) - k + 1) : b[i] = l[k + i - 1]
  BY <1>0
<1>3. r = c \o b
  BY DEF InsertAt
<1> HIDE DEF a, b
<1>4. /\ c \in Seq(S) /\ Len(c) = k
      /\ \A i \in 1..k : c[i] = IF i < k THEN l[i] ELSE n
  <2>1. <<n>> \in Seq(S) /\ Len(<<n>>) = 1 /\ <<n>>[1] = n
    OBVIOUS
  <2>2. /\ c \in Seq(S) /\ Len(c) = Len(a) + 1
        /\ \A i \in 1..(Len(a) + 1) : c[i] = IF i <= Len(a) THEN a[i] ELSE <<n>>[i - Len(a)]
    BY <2>1, <1>1, ConcatProperties
  <2>3. Len(c) = k
    BY <2>2, <1>0, <1>1
  <2>4. ASSUME NEW i \in 1..k PROVE c[i] = IF i < k THEN l[i] ELSE n
    <3>1. CASE i < k
      <4>1. i \in 1..(k - 1) /\ i <= Len(a) /\ i \in 1..(Len(a) + 1)
        BY <3>1, <1>0, <1>1
      <4> QED
        BY <4>1, <3>1, <2>2, <1>1
    <3>2. CASE i = k
      <4>1. ~(i <= Len(a)) /\ i - Len(a) = 1 /\ i \in 1..(Len(a) + 1) /\ ~(i < k)
        BY <3>2, <1>0, <1>1
      <4> QED
        BY <4>1, <2>1, <2>2
    <3>3. i < k \/ i = k
      BY <1>0
    <3> HIDE DEF c
    <3> QED
      BY <3>1, <3>2, <3>3
  <2> QED
    BY <2>2, <2>3, <2>4
<1> HIDE DEF c
<1>5. r \in Seq(S) /\ Len(r) = Len(l) + 1
  <2>1. r \in Seq(S) /\ Len(r) = Len(c) + Len(b)
    <3>1. c \in Seq(S) /\ b \in Seq(S)
      BY <1>2, <1>4
    <3> QED
      BY ONLY <1>3, <3>1, ConcatProperties
  <2> QED
    BY <2>1, <1>0, <1>2, <1>4
<1>6. \A i \in 1..Len(r) : r[i] = IF i <= Len(c) THEN c[i] ELSE b[i - Len(c)]
  BY <1>2, <1>3, <1>4, ConcatProperties
<1>7. ASSUME NEW i \in 1..Len(r)
      PROVE  r[i] = IF i < k THEN l[i] ELSE IF i = k THEN n ELSE l[i - 1]
  <2>1. CASE i <= k
    <3>1. i \in 1..k /\ i <= Len(c)
      BY <2>1, <1>0, <1>4
    <3>2. r[i] = c[i]
      BY <3>1, <1>6
    <3> QED
      BY <3>1, <3>2, <2>1, <1>0, <1>4
  <2>2. CASE ~(i <= k)
    <3>1. /\ i - Len(c) \in 1..(Len(l) - k + 1) /\ ~(i <= Len(c))
          /\ k + (i - Len(c)) - 1 = i - 1 /\ ~(i < k) /\ i # k
      BY <2>2, <1>0, <1>4, <1>5
    <3>2. r[i] = b[i - Len(c)]
      BY <3>1, <1>6
    <3>3. b[i - Len(c)] = l[k + (i - Len(c)) - 1]
      BY <3>1, <1>2
    <3> QED
      BY <3>1, <3>2, <3>3
  <2> QED
    BY <2>1, <2>2
<1> QED
  BY <1>5, <1>7 DEF Inserted
-----------------------------------------------------------------------------
\* The lists of a datum: distinct neighbours, all in S.
GoodList(l, S) ==
  /\ l \in Seq(NgbEntry)
  /\ \A i, j \in 1..Len(l) : l[i].sym = l[j].sym => i = j
  /\ \A i \in 1..Len(l) : l[i].sym \in S

\* When the dates can be told apart, compare_n_s() finds equal only the entries of one
\* neighbour.
LEMMA Compare ==
  ASSUME NEW e, NEW sym, NEW w, e.wait_time = w \/ Short(e.wait_time - w) # 0
  PROVE  compare_n_s(e, sym, w) = 0 <=> e.sym = sym
<1>1. CASE e.sym = sym
  BY <1>1, Zenon DEF compare_n_s
<1>2. CASE e.sym # sym /\ e.wait_time = w
  <2>1. compare_n_s(e, sym, w) = 1
    BY <1>2, Zenon DEF compare_n_s
  <2> QED
    BY <2>1, <1>2
<1>3. CASE e.sym # sym /\ e.wait_time # w
  <2>1. compare_n_s(e, sym, w) = Short(e.wait_time - w)
    BY <1>3, Zenon DEF compare_n_s
  <2> QED
    BY <2>1, <1>3
<1> QED
  BY <1>1, <1>2, <1>3

\* The entries of a list.
EntriesOf(l) == {l[i] : i \in 1..Len(l)}

\* Removal keeps the entries of a list, but for the one it is about.
LEMMA RemoveElemTyped ==
  ASSUME NEW l \in Seq(NgbEntry), NEW sym, NEW w, NEW r, r = remove_elem(l, sym, w)
  PROVE  r \in Seq(NgbEntry) /\ EntriesOf(r) \subseteq EntriesOf(l)
<1>0. Len(l) \in Nat
  OBVIOUS
<1>1. PICK k : k = first_equal(l, sym, w)
  OBVIOUS
<1>2. k = 0 \/ k \in 1..Len(l)
  BY <1>0, <1>1, FirstEqual
<1>3. CASE k = 0
  BY <1>1, <1>3 DEF remove_elem
<1>4. CASE k \in 1..Len(l)
  <2>1. k # 0
    BY <1>0, <1>4
  <2>2. r = RemoveAt(l, k)
    BY <1>1, <2>1 DEF remove_elem
  <2>3. Removed(NgbEntry, l, k, r)
    BY <1>4, <2>2, RemoveAtList
  <2>4. \A i \in 1..Len(r) : \E j \in 1..Len(l) : r[i] = l[j]
    <3> SUFFICES ASSUME NEW i \in 1..Len(r) PROVE \E j \in 1..Len(l) : r[i] = l[j]
      OBVIOUS
    <3>1. i \in 1..Len(l) /\ i + 1 \in 1..Len(l) /\ (r[i] = l[i] \/ r[i] = l[i + 1])
      BY <1>0, <1>4, <2>3 DEF Removed
    <3> QED
      BY <3>1
  <2> QED
    BY <2>3, <2>4 DEF Removed, EntriesOf
<1> QED
  BY <1>2, <1>3, <1>4

\* Whatever it takes out, remove_elem() leaves a good list.
LEMMA RemoveGood ==
  ASSUME NEW S, NEW l, GoodList(l, S), NEW sym, NEW w, NEW r, r = remove_elem(l, sym, w)
  PROVE  GoodList(r, S)
<1>0. l \in Seq(NgbEntry) /\ Len(l) \in Nat
  BY DEF GoodList
<1>1. PICK k : k = first_equal(l, sym, w)
  OBVIOUS
<1>2. k = 0 \/ k \in 1..Len(l)
  BY <1>0, <1>1, FirstEqual
<1>3. CASE k = 0
  BY <1>1, <1>3 DEF remove_elem
<1>4. CASE k \in 1..Len(l)
  <2>1. k # 0
    BY <1>0, <1>4
  <2>2. r = RemoveAt(l, k)
    BY <1>1, <2>1 DEF remove_elem
  <2>3. Removed(NgbEntry, l, k, r)
    BY <1>0, <1>4, <2>2, RemoveAtList
  <2> DEFINE p(i) == IF i < k THEN i ELSE i + 1
  <2>4. \A i \in 1..Len(r) : p(i) \in 1..Len(l) /\ r[i] = l[p(i)]
    BY <1>0, <1>4, <2>3 DEF Removed
  <2>5. \A i, j \in 1..Len(r) : p(i) = p(j) => i = j
    BY <1>0, <1>4, <2>3 DEF Removed
  <2>6. r \in Seq(NgbEntry)
    BY <2>3 DEF Removed
  <2> HIDE DEF p
  <2>7. \A i \in 1..Len(r) : r[i].sym \in S
    BY <2>4 DEF GoodList
  <2>8. \A i, j \in 1..Len(r) : r[i].sym = r[j].sym => i = j
    BY <2>4, <2>5 DEF GoodList
  <2> QED
    BY <2>6, <2>7, <2>8 DEF GoodList
<1> QED
  BY <1>2, <1>3, <1>4

\* When it can tell the dates apart, it takes out exactly the entry of its neighbour.
Without(S, l, sym, r) == GoodList(r, S \ {sym}) /\ Syms(r) = Syms(l) \ {sym}

LEMMA RemoveElem ==
  ASSUME NEW S, NEW l, GoodList(l, S), NEW sym, NEW w, Told(l, w),
         NEW r, r = remove_elem(l, sym, w)
  PROVE  Without(S, l, sym, r)
<1>0. l \in Seq(NgbEntry) /\ Len(l) \in Nat
  BY DEF GoodList
<1>1. PICK k : k = first_equal(l, sym, w)
  OBVIOUS
<1>2. \A i \in 1..Len(l) : compare_n_s(l[i], sym, w) = 0 <=> l[i].sym = sym
  BY Compare DEF Told
<1>3. \/ k = 0 /\ \A i \in 1..Len(l) : l[i].sym # sym
      \/ k \in 1..Len(l) /\ l[k].sym = sym
  BY <1>0, <1>1, <1>2, FirstEqual
<1>4. CASE k = 0 /\ \A i \in 1..Len(l) : l[i].sym # sym
  <2>1. r = l
    BY <1>1, <1>4 DEF remove_elem
  <2> QED
    BY <2>1, <1>4, <1>0 DEF GoodList, Syms, Without
<1>5. CASE k \in 1..Len(l) /\ l[k].sym = sym
  <2>1. r = RemoveAt(l, k)
    BY <1>1, <1>5 DEF remove_elem
  <2>2. /\ r \in Seq(NgbEntry) /\ Len(r) = Len(l) - 1
        /\ \A i \in 1..Len(r) : r[i] = IF i < k THEN l[i] ELSE l[i + 1]
    <3>1. l \in Seq(NgbEntry) /\ k \in 1..Len(l)
      BY <1>0, <1>5
    <3>2. Removed(NgbEntry, l, k, r)
      BY <2>1, <3>1, RemoveAtList
    <3> QED
      BY <3>2 DEF Removed
  <2> DEFINE p(i) == IF i < k THEN i ELSE i + 1
  <2>3. \A i \in 1..Len(r) : p(i) \in 1..Len(l) /\ p(i) # k /\ r[i] = l[p(i)]
    BY <2>2, <1>0, <1>5
  <2>4. \A i, j \in 1..Len(r) : p(i) = p(j) => i = j
    BY <2>2, <1>0, <1>5
  <2>5. \A m \in 1..Len(l) : m # k => \E i \in 1..Len(r) : p(i) = m
    <3> SUFFICES ASSUME NEW m \in 1..Len(l), m # k PROVE \E i \in 1..Len(r) : p(i) = m
      OBVIOUS
    <3>1. CASE m < k
      <4>1. m \in 1..Len(r) /\ p(m) = m
        BY <3>1, <2>2, <1>0, <1>5
      <4> QED
        BY <4>1
    <3>2. CASE m > k
      <4>1. m - 1 \in 1..Len(r) /\ p(m - 1) = m
        BY <3>2, <2>2, <1>0, <1>5
      <4> QED
        BY <4>1
    <3> QED
      BY <3>1, <3>2, <1>0, <1>5
  <2> HIDE DEF p
  <2>6. \A m \in 1..Len(l) : m # k => l[m].sym # sym
    BY <1>5 DEF GoodList
  <2>7. \A i, j \in 1..Len(r) : r[i].sym = r[j].sym => i = j
    BY <2>3, <2>4 DEF GoodList
  <2>9. \A i \in 1..Len(r) : r[i].sym \in S \ {sym}
    BY <2>3, <2>6 DEF GoodList
  <2>10. Syms(r) = Syms(l) \ {sym}
    <3>1. ASSUME NEW x \in Syms(r) PROVE x \in Syms(l) \ {sym}
      BY <3>1, <2>3, <2>6 DEF Syms
    <3>2. ASSUME NEW x \in Syms(l) \ {sym} PROVE x \in Syms(r)
      <4>1. PICK m \in 1..Len(l) : x = l[m].sym
        BY DEF Syms
      <4>2. m # k
        BY <4>1, <1>5
      <4>3. PICK i \in 1..Len(r) : p(i) = m
        BY <4>2, <2>5
      <4> QED
        BY <4>1, <4>3, <2>3 DEF Syms
    <3> QED
      BY <3>1, <3>2
  <2> QED
    BY <2>2, <2>7, <2>9, <2>10 DEF GoodList, Without
<1> QED
  BY <1>3, <1>4, <1>5

\* add_elem() puts the entry of a neighbour that is not in such a list into it.
LEMMA AddElem ==
  ASSUME NEW S, NEW l, GoodList(l, S), NEW n \in NgbEntry, n.sym \in S,
         Told(l, n.wait_time), n.sym \notin Syms(l), NEW r, r = add_elem(l, n)
  PROVE  GoodList(r, S) /\ Syms(r) = Syms(l) \cup {n.sym}
<1>0. l \in Seq(NgbEntry) /\ Len(l) \in Nat
  BY DEF GoodList
<1>1. PICK k : k = first_not_less(l, n.sym, n.wait_time)
  OBVIOUS
<1>2. \A i \in 1..Len(l) : l[i].sym # n.sym
  BY DEF Syms
<1>3. k = 0 \/ k \in 1..Len(l)
  BY <1>0, <1>1, FirstNotLess
<1>4. CASE k = 0
  <2>1. r = Append(l, n)
    BY <1>1, <1>4 DEF add_elem
  <2>2. /\ r \in Seq(NgbEntry) /\ Len(r) = Len(l) + 1
        /\ \A i \in 1..Len(l) : r[i] = l[i]
        /\ r[Len(l) + 1] = n
    BY <2>1, <1>0
  <2>3. \A i \in 1..Len(r) : i \in 1..Len(l) \/ i = Len(l) + 1
    BY <2>2, <1>0
  <2>4. \A i \in 1..Len(l) : i \in 1..Len(r)
    BY <2>2, <1>0
  <2>5. Len(l) + 1 \in 1..Len(r)
    BY <2>2, <1>0
  <2>6. \A i, j \in 1..Len(r) : r[i].sym = r[j].sym => i = j
    BY <2>2, <2>3, <1>2 DEF GoodList
  <2>7. \A i \in 1..Len(r) : r[i].sym \in S
    BY <2>2, <2>3 DEF GoodList
  <2>8. Syms(r) = Syms(l) \cup {n.sym}
    BY <2>2, <2>3, <2>4, <2>5 DEF Syms
  <2> QED
    BY <2>2, <2>6, <2>7, <2>8 DEF GoodList
<1>5. CASE k \in 1..Len(l)
  <2>1. r = InsertAt(l, k, n)
    <3>1. k # 0
      BY <1>5, <1>0
    <3>2. compare_n_s(l[k], n.sym, n.wait_time) # 0
      <4>1. /\ l[k].wait_time = n.wait_time \/ Short(l[k].wait_time - n.wait_time) # 0
            /\ l[k].sym # n.sym
        BY <1>5, <1>2 DEF Told
      <4> QED
        BY <4>1, Compare
    <3> QED
      BY <1>1, <3>1, <3>2 DEF add_elem
  <2>2. Inserted(NgbEntry, l, k, n, r)
    BY <2>1, <1>0, <1>5, InsertAtList
  <2>3. /\ r \in Seq(NgbEntry) /\ Len(r) = Len(l) + 1
        /\ \A i \in 1..Len(r) :
             r[i] = IF i < k THEN l[i] ELSE IF i = k THEN n ELSE l[i - 1]
    BY <2>2 DEF Inserted
  <2> DEFINE p(i) == IF i < k THEN i ELSE i - 1
  <2>4. \A i \in 1..Len(r) : i # k => p(i) \in 1..Len(l) /\ r[i] = l[p(i)]
    BY <2>3, <1>0, <1>5
  <2>5. k \in 1..Len(r) /\ r[k] = n
    BY <2>3, <1>0, <1>5
  <2>6. \A i, j \in 1..Len(r) : i # k /\ j # k /\ p(i) = p(j) => i = j
    BY <2>3, <1>0, <1>5
  <2>7. ASSUME NEW m \in 1..Len(l) PROVE \E i \in 1..Len(r) : i # k /\ p(i) = m
    <3>1. CASE m < k
      <4>1. m \in 1..Len(r) /\ m # k /\ p(m) = m
        BY <3>1, <2>3, <1>0, <1>5
      <4> QED
        BY <4>1
    <3>2. CASE ~(m < k)
      <4>1. m + 1 \in 1..Len(r) /\ m + 1 # k /\ p(m + 1) = m
        BY <3>2, <2>3, <1>0, <1>5
      <4> QED
        BY <4>1
    <3> QED
      BY <3>1, <3>2
  <2> HIDE DEF p
  <2>8. \A i, j \in 1..Len(r) : r[i].sym = r[j].sym => i = j
    BY <2>4, <2>5, <2>6, <1>2 DEF GoodList
  <2>9. \A i \in 1..Len(r) : r[i].sym \in S
    BY <2>4, <2>5 DEF GoodList
  <2>10. Syms(r) = Syms(l) \cup {n.sym}
    <3>1. ASSUME NEW x \in Syms(r) PROVE x \in Syms(l) \cup {n.sym}
      BY <3>1, <2>4, <2>5 DEF Syms
    <3>2. ASSUME NEW x \in Syms(l) PROVE x \in Syms(r)
      <4>1. PICK m \in 1..Len(l) : x = l[m].sym
        BY DEF Syms
      <4>2. PICK i \in 1..Len(r) : i # k /\ p(i) = m
        BY <2>7
      <4> QED
        BY <4>1, <4>2, <2>4 DEF Syms
    <3>3. n.sym \in Syms(r)
      BY <2>5 DEF Syms
    <3> QED
      BY <3>1, <3>2, <3>3
  <2> QED
    BY <2>3, <2>8, <2>9, <2>10 DEF GoodList
<1> QED
  BY <1>3, <1>4, <1>5

\* Neighbours that join make no list bad.
LEMMA GoodListMonotone ==
  ASSUME NEW S, NEW T, S \subseteq T, NEW l, GoodList(l, S)
  PROVE  GoodList(l, T)
BY DEF GoodList

\* The entry of an address in a list that holds it, and the one after it.
LEMMA PositionIn ==
  ASSUME NEW S, NEW l, GoodList(l, S), NEW a \in Syms(l)
  PROVE  /\ Position(l, a) \in 1..Len(l)
         /\ l[Position(l, a)] \in NgbEntry /\ l[Position(l, a)].sym = a
         /\ NextSym(l, a) \in {NULL} \cup (Syms(l) \ {a})
<1> DEFINE p == Position(l, a)
<1>0. l \in Seq(NgbEntry) /\ Len(l) \in Nat
  BY DEF GoodList
<1>1. p \in 1..Len(l) /\ l[p].sym = a
  BY DEF Position, Syms
<1> HIDE DEF p
<1>2. l[p] \in NgbEntry
  BY <1>0, <1>1 DEF GoodList
<1>3. NextSym(l, a) \in {NULL} \cup (Syms(l) \ {a})
  <2>1. CASE p = Len(l)
    BY <2>1 DEF NextSym, p
  <2>2. CASE p # Len(l)
    <3>1. p + 1 \in 1..Len(l) /\ p + 1 # p
      BY <2>2, <1>0, <1>1
    <3>2. NextSym(l, a) = l[p + 1].sym
      BY <2>2 DEF NextSym, p
    <3>3. l[p + 1].sym # a
      BY <3>1, <1>1 DEF GoodList
    <3> QED
      BY <3>1, <3>2, <3>3 DEF Syms
  <2> QED
    BY <2>1, <2>2
<1> QED
  BY <1>1, <1>2, <1>3 DEF p
-----------------------------------------------------------------------------
\* DATAF as a whole: few data, each index once, and good lists.
GoodData(F, S) ==
  /\ F \in Seq(FloodEntry)
  /\ Len(F) <= NBDATA
  /\ \A i, j \in 1..Len(F) : F[i].index = F[j].index => i = j
  /\ \A i \in 1..Len(F) : GoodList(F[i].sym_neighbors, S)

\* G is F with other lists of neighbours, and nothing else changed.
Relisted(T, F, G) ==
  /\ DOMAIN G = 1..Len(F) /\ G = [i \in DOMAIN G |-> G[i]]
  /\ \A i \in 1..Len(F) : \E l :
       GoodList(l, T) /\ G[i] = [F[i] EXCEPT !.sym_neighbors = l]

\* Such a change keeps DATAF good.
LEMMA RelistGood ==
  ASSUME NEW S, NEW T, NEW F, GoodData(F, S), NEW G, Relisted(T, F, G)
  PROVE  GoodData(G, T) /\ Len(G) = Len(F)
<1>0. F \in Seq(FloodEntry) /\ Len(F) \in Nat
  BY DEF GoodData
<1>1. \A i \in 1..Len(F) : /\ G[i] \in FloodEntry /\ G[i].index = F[i].index
                           /\ GoodList(G[i].sym_neighbors, T)
  <2> SUFFICES ASSUME NEW i \in 1..Len(F)
               PROVE  /\ G[i] \in FloodEntry /\ G[i].index = F[i].index
                      /\ GoodList(G[i].sym_neighbors, T)
    OBVIOUS
  <2>1. PICK l : GoodList(l, T) /\ G[i] = [F[i] EXCEPT !.sym_neighbors = l]
    BY DEF Relisted
  <2>2. F[i] \in FloodEntry
    BY <1>0
  <2>3. l \in Seq(NgbEntry)
    BY <2>1 DEF GoodList
  <2>4. /\ G[i] \in FloodEntry /\ G[i].index = F[i].index
        /\ G[i].sym_neighbors = l
    BY <2>1, <2>2, <2>3 DEF FloodEntry
  <2> QED
    BY <2>1, <2>4
<1>2. G \in Seq(FloodEntry) /\ Len(G) = Len(F)
  <2>1. G \in [1..Len(F) -> FloodEntry]
    BY <1>1 DEF Relisted
  <2> QED
    BY <2>1, <1>0
<1> QED
  BY <1>1, <1>2 DEF GoodData

\* One list is replaced.
Updated(S, F, k, l, G) ==
  GoodData(G, S) /\ Len(G) = Len(F) /\ G[k].sym_neighbors = l

\* Putting a good list in the place of another keeps DATAF good.
LEMMA UpdateGood ==
  ASSUME NEW S, NEW F, GoodData(F, S), NEW k \in 1..Len(F), NEW l, GoodList(l, S),
         NEW G, G = [F EXCEPT ![k].sym_neighbors = l]
  PROVE  Updated(S, F, k, l, G)
<1>0. F \in Seq(FloodEntry) /\ Len(F) \in Nat /\ DOMAIN F = 1..Len(F)
  BY DEF GoodData
<1>1. DOMAIN G = 1..Len(F) /\ G = [i \in DOMAIN G |-> G[i]]
  BY <1>0
<1>2. ASSUME NEW i \in 1..Len(F)
      PROVE  \E m : GoodList(m, S) /\ G[i] = [F[i] EXCEPT !.sym_neighbors = m]
  <2>1. F[i] \in FloodEntry /\ GoodList(F[i].sym_neighbors, S)
    BY <1>0 DEF GoodData
  <2>2. CASE i = k
    <3>1. G[i] = [F[i] EXCEPT !.sym_neighbors = l]
      BY <2>2, <1>0
    <3> QED
      BY <3>1
  <2>3. CASE i # k
    <3>1. G[i] = F[i]
      BY <2>3, <1>0
    <3>2. F[i] = [F[i] EXCEPT !.sym_neighbors = F[i].sym_neighbors]
      BY <2>1 DEF FloodEntry
    <3> QED
      BY <3>1, <3>2, <2>1
  <2> QED
    BY <2>2, <2>3
<1>3. GoodData(G, S) /\ Len(G) = Len(F)
  <2>1. Relisted(S, F, G)
    BY <1>1, <1>2 DEF Relisted
  <2> QED
    BY <2>1, RelistGood
<1>4. G[k].sym_neighbors = l
  <2>1. F[k] \in FloodEntry
    BY <1>0
  <2>2. G[k] = [F[k] EXCEPT !.sym_neighbors = l]
    BY <1>0
  <2> QED
    BY <2>1, <2>2 DEF FloodEntry
<1> QED
  BY <1>3, <1>4 DEF Updated

\* The comparison tells every date from that of the key of remove_neighbor_from_flood().
ToldFromZero(F) == \A i \in 1..Len(F) : Told(F[i].sym_neighbors, 0)

\* The loop of remove_neighbor_everywhere() reaches every list, because every
\* index is in DATAF once, and takes the neighbour out of each.
LEMMA PurgeGood ==
  ASSUME NEW S, NEW F, GoodData(F, S), ToldFromZero(F), NEW a,
         NEW G, G = PurgeAll(F, a)
  PROVE  /\ GoodData(G, S \ {a}) /\ Len(G) = Len(F)
         /\ \A i \in 1..Len(F) :
              Syms(G[i].sym_neighbors) = Syms(F[i].sym_neighbors) \ {a}
<1>0. F \in Seq(FloodEntry) /\ Len(F) \in Nat /\ DOMAIN F = 1..Len(F)
  BY DEF GoodData
<1>1. ASSUME NEW i \in 1..Len(F) PROVE i = get(F, F[i].index)
  <2>1. PICK k : k = get(F, F[i].index)
    OBVIOUS
  <2>2. k \in 1..Len(F) /\ F[k].index = F[i].index
    BY <2>1, <1>0, GetFirst
  <2> QED
    BY <2>1, <2>2 DEF GoodData
<1>2. DOMAIN G = 1..Len(F) /\ G = [i \in DOMAIN G |-> G[i]]
  BY <1>0 DEF PurgeAll
<1>3. ASSUME NEW i \in 1..Len(F)
      PROVE  G[i] = [F[i] EXCEPT !.sym_neighbors = remove_elem(F[i].sym_neighbors, a, 0)]
  BY <1>0, <1>1 DEF PurgeAll
<1>4. ASSUME NEW i \in 1..Len(F)
      PROVE  LET l == remove_elem(F[i].sym_neighbors, a, 0)
             IN  GoodList(l, S \ {a}) /\ Syms(l) = Syms(F[i].sym_neighbors) \ {a}
  <2>1. GoodList(F[i].sym_neighbors, S)
    BY DEF GoodData
  <2>2. PICK m : m = F[i].sym_neighbors
    OBVIOUS
  <2>3. PICK r : r = remove_elem(m, a, 0)
    OBVIOUS
  <2>4. Without(S, m, a, r)
    BY <2>1, <2>2, <2>3, RemoveElem DEF ToldFromZero
  <2> QED
    BY <2>2, <2>3, <2>4 DEF Without
<1>5. GoodData(G, S \ {a}) /\ Len(G) = Len(F)
  <2>1. \A i \in 1..Len(F) : \E l :
          GoodList(l, S \ {a}) /\ G[i] = [F[i] EXCEPT !.sym_neighbors = l]
    BY <1>3, <1>4
  <2>2. Relisted(S \ {a}, F, G)
    BY <1>2, <2>1 DEF Relisted
  <2> QED
    BY <2>2, RelistGood
<1>6. ASSUME NEW i \in 1..Len(F)
      PROVE  Syms(G[i].sym_neighbors) = Syms(F[i].sym_neighbors) \ {a}
  <2>1. F[i] \in FloodEntry
    BY <1>0
  <2>2. G[i].sym_neighbors = remove_elem(F[i].sym_neighbors, a, 0)
    BY <1>3, <2>1 DEF FloodEntry
  <2> QED
    BY <2>2, <1>4
<1> QED
  BY <1>5, <1>6

\* A new datum pushes the oldest one out when there are too many.
LEMMA AddLimited ==
  ASSUME NEW S, NEW F, GoodData(F, S), NEW e \in FloodEntry,
         GoodList(e.sym_neighbors, S), \A i \in 1..Len(F) : F[i].index # e.index,
         NEW G, G = add_limited(F, e, NBDATA)
  PROVE  GoodData(G, S)
<1>0. F \in Seq(FloodEntry) /\ Len(F) \in Nat /\ NBDATA \in Nat \ {0}
  BY FloodAssumption DEF GoodData
<1> DEFINE A == Append(F, e)
<1>1. /\ A \in Seq(FloodEntry) /\ Len(A) = Len(F) + 1
      /\ \A i \in 1..Len(A) : A[i] = IF i = Len(F) + 1 THEN e ELSE F[i]
  BY <1>0
<1>2. \A i \in 1..Len(A) : i = Len(F) + 1 \/ i \in 1..Len(F)
  BY <1>0, <1>1
<1> HIDE DEF A
<1>3. \A i, j \in 1..Len(A) : A[i].index = A[j].index => i = j
  <2> SUFFICES ASSUME NEW i \in 1..Len(A), NEW j \in 1..Len(A), A[i].index = A[j].index
               PROVE  i = j
    OBVIOUS
  <2>1. CASE i = Len(F) + 1 /\ j = Len(F) + 1
    BY <2>1
  <2>2. CASE i \in 1..Len(F) /\ j = Len(F) + 1
    BY <2>2, <1>1, <1>0
  <2>3. CASE i = Len(F) + 1 /\ j \in 1..Len(F)
    BY <2>3, <1>1, <1>0
  <2>4. CASE i \in 1..Len(F) /\ j \in 1..Len(F)
    <3>1. A[i] = F[i] /\ A[j] = F[j]
      BY <2>4, <1>1, <1>0
    <3> QED
      BY <3>1, <2>4 DEF GoodData
  <2> QED
    BY <2>1, <2>2, <2>3, <2>4, <1>2
<1>4. \A i \in 1..Len(A) : GoodList(A[i].sym_neighbors, S)
  <2> SUFFICES ASSUME NEW i \in 1..Len(A) PROVE GoodList(A[i].sym_neighbors, S)
    OBVIOUS
  <2>1. CASE i = Len(F) + 1
    BY <2>1, <1>1
  <2>2. CASE i \in 1..Len(F)
    <3>1. A[i] = F[i]
      BY <2>2, <1>1, <1>0
    <3> QED
      BY <3>1, <2>2 DEF GoodData
  <2> QED
    BY <2>1, <2>2, <1>2
<1>5. CASE ~(Len(F) + 1 > NBDATA)
  <2>1. G = A
    BY <1>5 DEF add_limited, A
  <2>2. Len(A) <= NBDATA
    BY <1>5, <1>1, <1>0
  <2> QED
    BY <2>1, <2>2, <1>1, <1>3, <1>4 DEF GoodData
<1>6. CASE Len(F) + 1 > NBDATA
  <2>1. G = Tail(A)
    BY <1>6 DEF add_limited, A
  <2>2. Len(F) <= NBDATA /\ A # << >>
    BY <1>1, <1>0 DEF GoodData
  <2>3. G \in Seq(FloodEntry) /\ Len(G) = Len(F) /\ \A i \in 1..Len(G) : G[i] = A[i + 1]
    BY <2>1, <2>2, <1>0, <1>1
  <2>4. \A i \in 1..Len(G) : i + 1 \in 1..Len(A)
    BY <2>3, <1>1, <1>0
  <2>5. \A i, j \in 1..Len(G) : G[i].index = G[j].index => i = j
    <3> SUFFICES ASSUME NEW i \in 1..Len(G), NEW j \in 1..Len(G), G[i].index = G[j].index
                 PROVE  i = j
      OBVIOUS
    <3>1. i + 1 = j + 1
      BY <2>3, <2>4, <1>3
    <3> QED
      BY <3>1
  <2>6. \A i \in 1..Len(G) : GoodList(G[i].sym_neighbors, S)
    BY <2>3, <2>4, <1>4
  <2> QED
    BY <2>2, <2>3, <2>5, <2>6 DEF GoodData
<1> QED
  BY <1>5, <1>6
-----------------------------------------------------------------------------
\* The powers of two, from the number of subsets of 1..n: those of 1..n + 1 are the
\* ones without n + 1, and as many with it.
LEMMA PowersOfTwo ==
  ASSUME NEW n \in Nat
  PROVE  2^n \in Nat \ {0} /\ 2^(n + 1) = 2^n + 2^n
<1> DEFINE Low == 1..n
           top == n + 1
           High == {B \cup {top} : B \in SUBSET Low}
<1>1. IsFiniteSet(Low) /\ Cardinality(Low) = n
  <2>1. IsFiniteSet(1..n) /\ Cardinality(1..n) = IF 1 > n THEN 0 ELSE n - 1 + 1
    BY FS_Interval
  <2> QED
    BY <2>1
<1>2. top \notin Low
  OBVIOUS
<1> HIDE DEF Low, top
<1>3. IsFiniteSet(Low \cup {top}) /\ Cardinality(Low \cup {top}) = n + 1
  BY <1>1, <1>2, FS_AddElement
<1>4. /\ IsFiniteSet(SUBSET Low) /\ Cardinality(SUBSET Low) = 2^n
      /\ Cardinality(SUBSET (Low \cup {top})) = 2^(n + 1)
  BY <1>1, <1>3, FS_SUBSET
<1>5. SUBSET (Low \cup {top}) = (SUBSET Low) \cup High
  <2>1. ASSUME NEW S \in SUBSET (Low \cup {top}), top \in S PROVE S \in High
    <3>1. S \ {top} \in SUBSET Low /\ S = (S \ {top}) \cup {top}
      BY <2>1
    <3> QED
      BY <3>1
  <2>2. ASSUME NEW S \in SUBSET (Low \cup {top}), top \notin S PROVE S \in SUBSET Low
    BY <2>2
  <2>3. ASSUME NEW S \in High PROVE S \in SUBSET (Low \cup {top})
    OBVIOUS
  <2> QED
    BY <2>1, <2>2, <2>3
<1>6. (SUBSET Low) \cap High = {}
  <2> SUFFICES ASSUME NEW S \in SUBSET Low, S \in High PROVE FALSE
    OBVIOUS
  <2>1. top \in S
    OBVIOUS
  <2> QED
    BY <2>1, <1>2
<1>7. IsFiniteSet(High) /\ Cardinality(High) = 2^n
  <2> DEFINE add == [B \in SUBSET Low |-> B \cup {top}]
  <2>1. add \in [SUBSET Low -> High]
    OBVIOUS
  <2>2. ASSUME NEW B \in SUBSET Low, NEW C \in SUBSET Low, add[B] = add[C] PROVE B = C
    BY <2>2, <1>2
  <2>3. add \in Injection(SUBSET Low, High)
    BY <2>1, <2>2 DEF Injection, IsInjective
  <2>4. add \in Surjection(SUBSET Low, High)
    BY <2>1 DEF Surjection
  <2>5. ExistsBijection(SUBSET Low, High)
    BY <2>3, <2>4, Zenon DEF Bijection, ExistsBijection
  <2> QED
    BY <1>4, <2>5, FS_Bijection
<1>8. Cardinality(SUBSET (Low \cup {top})) = 2^n + 2^n - 0
  <2>1. PICK P, Q : P = SUBSET Low /\ Q = High
    OBVIOUS
  <2>2. IsFiniteSet(P) /\ IsFiniteSet(Q)
    BY <1>4, <1>7, <2>1
  <2>3. Cardinality(P \cup Q) = Cardinality(P) + Cardinality(Q) - Cardinality(P \cap Q)
    BY ONLY <2>2, FS_Union
  <2>4. P \cap Q = {} /\ P \cup Q = SUBSET (Low \cup {top})
    BY <1>5, <1>6, <2>1
  <2> QED
    BY <1>4, <1>7, <2>1, <2>3, <2>4, FS_EmptySet
<1>9. 2^n \in Nat /\ 2^n # 0
  <2>1. PICK P : P = SUBSET Low /\ IsFiniteSet(P) /\ Cardinality(P) = 2^n
    BY <1>4
  <2>2. P # {}
    BY <2>1
  <2>3. Cardinality(P) \in Nat
    BY ONLY <2>1, FS_CardinalityType
  <2>4. Cardinality(P) # 0
    BY ONLY <2>1, <2>2, FS_EmptySet
  <2> QED
    BY <2>1, <2>3, <2>4
<1> QED
  BY <1>4, <1>8, <1>9

LEMMA MaxWaitPositive == MaxWait \in Nat \ {0}
BY FloodAssumption, PowersOfTwo DEF MaxWait

\* The hypotheses on the dates.  No entry has date zero on 16 bits: to compare_n_s() such
\* an entry equals the key of any neighbour that is removed.
NoZeroDate ==
  \A f \in 1..Len(DATAF) : \A e \in EntriesOf(DATAF[f].sym_neighbors) :
    e.wait_time % 65536 # 0

\* No entry is so late that the difference to a new date does not fit a short.
Prompt ==
  \A f \in 1..Len(DATAF) : \A e \in EntriesOf(DATAF[f].sym_neighbors) :
    now + MaxWait <= e.wait_time + ShortMax

\* What holds of dates in any case: none is later than the longest delay.
DatedData ==
  \A f \in 1..Len(DATAF) : \A e \in EntriesOf(DATAF[f].sym_neighbors) :
    Uptime < e.wait_time /\ e.wait_time <= now + MaxWait

\* The inductive invariant.  NoDangling alone is not inductive: that a purge
\* takes a neighbour out of every list needs RecentDistinct, OneEntryPerNeighbor
\* and dates for which the key of remove_elem() compares equal to it alone.
FloodInv ==
  /\ now \in Nat
  /\ live \subseteq Addr
  /\ GoodData(DATAF, live)
  /\ fi \in 0..Len(DATAF)
  /\ tmp \in Addr \cup {NULL}
  /\ CursorValid

\* The dates of a list are natural numbers.
LEMMA GoodDates ==
  ASSUME FloodInv, NEW f \in 1..Len(DATAF), NEW l, l = DATAF[f].sym_neighbors,
         NEW i \in 1..Len(l)
  PROVE  l[i].wait_time \in Nat /\ l[i] \in EntriesOf(l)
<1>1. l \in Seq(NgbEntry)
  BY DEF FloodInv, GoodData, GoodList
<1>2. l[i] \in NgbEntry
  BY <1>1
<1> QED
  BY <1>2 DEF NgbEntry, EntriesOf

\* The comparison tells every date from the key of date zero.
LEMMA ZeroTold ==
  ASSUME FloodInv, NoZeroDate, NEW f \in 1..Len(DATAF)
  PROVE  Told(DATAF[f].sym_neighbors, 0)
<1>1. PICK l : l = DATAF[f].sym_neighbors
  OBVIOUS
<1>2. ASSUME NEW i \in 1..Len(l) PROVE Short(l[i].wait_time - 0) # 0
  <2>1. l[i].wait_time \in Nat /\ l[i] \in EntriesOf(l)
    BY <1>1, GoodDates
  <2>2. l[i].wait_time % 65536 # 0
    BY <1>1, <2>1 DEF NoZeroDate
  <2> QED
    BY <2>1, <2>2, ShortZero
<1> QED
  BY <1>1, <1>2 DEF Told

\* The comparison is exact for a date that is not too late either.
LEMMA PromptExact ==
  ASSUME FloodInv, DatedData, Prompt, NEW f \in 1..Len(DATAF), NEW t \in Nat,
         t <= now + MaxWait, now + MaxWait <= t + ShortMax
  PROVE  Exact(DATAF[f].sym_neighbors, t)
<1>1. PICK l : l = DATAF[f].sym_neighbors
  OBVIOUS
<1>2. PICK n \in Nat : n = now + MaxWait
  BY MaxWaitPositive DEF FloodInv
<1>3. ASSUME NEW i \in 1..Len(l)
      PROVE  /\ l[i].wait_time \in Int
             /\ Short(l[i].wait_time - t) = l[i].wait_time - t
  <2>1. l[i].wait_time \in Nat /\ l[i] \in EntriesOf(l)
    BY <1>1, GoodDates
  <2>2. l[i].wait_time <= n /\ n <= l[i].wait_time + ShortMax
    BY <1>1, <1>2, <2>1 DEF DatedData, Prompt
  <2> QED
    BY <1>2, <2>1, <2>2, ShortExact
<1> QED
  BY <1>1, <1>3 DEF Exact

\* The invariant holds when the process starts.
LEMMA FloodInitInv == FloodInit => FloodInv
<1> SUFFICES ASSUME FloodInit PROVE FloodInv
  OBVIOUS
<1>1. Len(DATAF) = 0 /\ DATAF \in Seq(FloodEntry)
  BY DEF FloodInit
<1>2. GoodData(DATAF, live)
  BY <1>1, FloodAssumption DEF GoodData
<1> QED
  BY <1>1, <1>2, FloodAssumption DEF FloodInit, FloodInv, CursorValid

\* Going to another datum puts the cursor on its first entry.
LEMMA EnterInv ==
  ASSUME FloodInv, NEW i \in Nat \ {0}, Enter(i), UNCHANGED <<now, live, DATAF>>
  PROVE  FloodInv'
<1>0. Len(DATAF) \in Nat /\ GoodData(DATAF, live) /\ live \subseteq Addr
  BY DEF FloodInv, GoodData
<1>1. fi' \in 0..Len(DATAF) /\ tmp' \in Addr \cup {NULL} /\ CursorValid'
  <2>1. CASE i > Len(DATAF)
    BY <2>1, <1>0 DEF Enter, CursorValid
  <2>2. CASE ~(i > Len(DATAF))
    <3>1. i \in 1..Len(DATAF)
      BY <2>2, <1>0
    <3>2. PICK l : l = DATAF[i].sym_neighbors
      OBVIOUS
    <3>3. GoodList(l, live)
      BY <3>1, <3>2, <1>0 DEF GoodData
    <3>4. fi' = i /\ tmp' = FirstSym(l)
      BY <2>2, <3>2 DEF Enter
    <3>5. CASE l = << >>
      BY <3>5, <3>4, <3>1 DEF FirstSym, CursorValid
    <3>6. CASE l # << >>
      <4>1. 1 \in 1..Len(l)
        BY <3>6, <3>3 DEF GoodList
      <4>2. FirstSym(l) \in Syms(l) /\ FirstSym(l) \in live
        BY <4>1, <3>6, <3>3 DEF FirstSym, Syms, GoodList
      <4>3. sym_neighbors' = l
        BY <3>2, <3>4 DEF sym_neighbors
      <4> QED
        BY <4>2, <4>3, <3>4, <3>1, <1>0 DEF CursorValid
    <3> QED
      BY <3>5, <3>6
  <2> QED
    BY <2>1, <2>2
<1>2. now' = now /\ live' = live /\ DATAF' = DATAF
  OBVIOUS
<1> QED
  BY <1>1, <1>2 DEF FloodInv, GoodData

\* Outside a pass nothing is visited.
LEMMA IdleInv ==
  ASSUME FloodInv, fi = 0, UNCHANGED <<fi, tmp>>, now' \in Nat, live' \subseteq Addr,
         GoodData(DATAF', live')
  PROVE  FloodInv'
<1>1. Len(DATAF') \in Nat
  BY DEF GoodData
<1>2. fi' \in 0..Len(DATAF') /\ CursorValid'
  BY <1>1 DEF CursorValid
<1> QED
  BY <1>2 DEF FloodInv, GoodData

\* add_neighbor() only makes more addresses valid.
LEMMA JoinInv ==
  ASSUME FloodInv, NEW a \in Addr, join(a)
  PROVE  FloodInv'
<1>1. GoodData(DATAF, live) /\ live \subseteq live'
  BY DEF FloodInv, join
<1>2. GoodData(DATAF, live')
  BY <1>1, GoodListMonotone DEF GoodData
<1> QED
  BY <1>2, IdleInv DEF FloodInv, join

\* The clock is not in the lists.
LEMMA TickInv ==
  ASSUME FloodInv, Tick
  PROVE  FloodInv'
<1>1. now' \in Nat
  BY DEF FloodInv, Tick
<1> QED
  BY <1>1, IdleInv DEF FloodInv, Tick

\* remove_neighbor_everywhere() outside a pass.
LEMMA PurgeInv ==
  ASSUME FloodInv, NoZeroDate, NEW a \in Addr, remove_neighbor_everywhere(a)
  PROVE  FloodInv'
<1>1. GoodData(DATAF, live)
  BY DEF FloodInv
<1>2. PICK G : G = PurgeAll(DATAF, a)
  OBVIOUS
<1>3. GoodData(G, live \ {a})
  <2>1. ToldFromZero(DATAF)
    BY ZeroTold DEF ToldFromZero
  <2> QED
    BY <1>1, <1>2, <2>1, PurgeGood
<1> QED
  BY <1>2, <1>3, IdleInv DEF FloodInv, remove_neighbor_everywhere

\* An acknowledgement takes one entry out of one list.
LEMMA AckInv ==
  ASSUME FloodInv, NEW d \in Data, NEW a \in Addr, ack(d, a)
  PROVE  FloodInv'
<1>1. GoodData(DATAF, live) /\ Len(DATAF) \in Nat
  BY DEF FloodInv, GoodData
<1>2. PICK k : k = get(DATAF, d)
  OBVIOUS
<1>3. k = 0 \/ k \in 1..Len(DATAF)
  BY <1>1, <1>2, GetFirst
<1>4. GoodData(DATAF', live)
  <2>1. CASE k = 0
    <3>1. DATAF' = DATAF
      BY <2>1, <1>2 DEF ack, remove_neighbor_from_flood
    <3> QED
      BY <3>1, <1>1
  <2>2. CASE k \in 1..Len(DATAF)
    <3>1. PICK l : l = DATAF[k].sym_neighbors
      OBVIOUS
    <3>2. PICK r : r = remove_elem(l, a, 0)
      OBVIOUS
    <3>3. GoodList(l, live)
      BY <3>1, <2>2, <1>1 DEF GoodData
    <3>5. GoodList(r, live)
      BY <3>2, <3>3, RemoveGood
    <3>6. DATAF' = [DATAF EXCEPT ![k].sym_neighbors = r]
      <4>1. k # 0
        BY <2>2, <1>1
      <4> QED
        BY <4>1, <1>2, <3>1, <3>2 DEF ack, remove_neighbor_from_flood
    <3>7. Updated(live, DATAF, k, r, DATAF')
      BY <3>5, <3>6, <2>2, <1>1, UpdateGood
    <3> QED
      BY <3>7 DEF Updated
  <2> QED
    BY <1>3, <2>1, <2>2
<1> QED
  BY <1>4, IdleInv DEF FloodInv, ack

\* init_ngb_entry(), and the entry that flood_message_to_neighbours() queues again.
LEMMA NewEntry ==
  ASSUME NEW a \in Addr, NEW w \in Nat, NEW n,
         n = [sym |-> a, times_sent |-> 0, wait_time |-> w]
  PROVE  n \in NgbEntry /\ n.sym = a /\ n.wait_time = w
BY FloodAssumption DEF NgbEntry

Requeued(e, w) == [e EXCEPT !.times_sent = e.times_sent + 1, !.wait_time = w]

\* The entry queued again is for the same neighbour.
LEMMA NextEntry ==
  ASSUME NEW e \in NgbEntry, e.times_sent # MaxSent, NEW w \in Nat,
         NEW n, n = Requeued(e, w)
  PROVE  n \in NgbEntry /\ n.sym = e.sym /\ n.wait_time = w /\ n.times_sent # 0
<1>1. /\ e.sym \in Addr /\ e.times_sent \in 0..MaxSent /\ MaxSent \in Nat
      /\ e = [sym |-> e.sym, times_sent |-> e.times_sent, wait_time |-> e.wait_time]
  BY FloodAssumption DEF NgbEntry
<1>2. e.times_sent + 1 \in 0..MaxSent
  BY <1>1
<1>3. n = [sym |-> e.sym, times_sent |-> e.times_sent + 1, wait_time |-> w]
  BY <1>1 DEF Requeued
<1> QED
  BY <1>1, <1>2, <1>3 DEF NgbEntry

\* The list of a new datum: one entry per neighbour it is for.
LEMMA InitEntries ==
  ASSUME FloodInv, NEW S \in SUBSET live, NEW q \in InOrder(S),
         NEW l, l = init_ngb_entries(q)
  PROVE  GoodList(l, live)
<1>1. Cardinality(S) \in Nat
  <2>1. S \subseteq Addr
    BY DEF FloodInv
  <2> QED
    BY <2>1, FloodAssumption, FS_Subset, FS_CardinalityType
<1> DEFINE n == Cardinality(S)
<1>2. q \in [1..n -> S] /\ \A i, j \in 1..n : i < j => q[i] < q[j]
  BY DEF InOrder
<1> HIDE DEF n
<1>3. n \in Nat
  BY <1>1 DEF n
<1>4. now + 1 \in Nat
  BY DEF FloodInv
<1>5. \A i \in 1..n : q[i] \in S /\ q[i] \in Nat /\ q[i] \in Addr /\ q[i] \in live
  BY <1>2, FloodAssumption DEF FloodInv
<1>6. \A i \in 1..n : l[i] = [sym |-> q[i], times_sent |-> 0, wait_time |-> now + 1]
  BY <1>2 DEF init_ngb_entries
<1>7. \A i \in 1..n : l[i] \in NgbEntry /\ l[i].sym = q[i] /\ l[i].wait_time = now + 1
  <2> SUFFICES ASSUME NEW i \in 1..n
               PROVE  l[i] \in NgbEntry /\ l[i].sym = q[i] /\ l[i].wait_time = now + 1
    OBVIOUS
  <2>1. q[i] \in Addr /\ l[i] = [sym |-> q[i], times_sent |-> 0, wait_time |-> now + 1]
    BY <1>5, <1>6
  <2> QED
    BY <2>1, <1>4, NewEntry
<1>8. l \in Seq(NgbEntry) /\ Len(l) = n
  <2>1. l \in [1..n -> NgbEntry]
    BY <1>2, <1>7 DEF init_ngb_entries
  <2> QED
    BY <2>1, <1>3
<1>9. \A i, j \in 1..n : l[i].sym = l[j].sym => i = j
  <2> SUFFICES ASSUME NEW i \in 1..n, NEW j \in 1..n, q[i] = q[j], i # j PROVE FALSE
    BY <1>7
  <2>1. q[i] \in Nat /\ q[j] \in Nat
    BY <1>5
  <2>2. i < j \/ j < i
    BY <1>3
  <2>3. q[i] < q[j] \/ q[j] < q[i]
    BY <1>2, <2>2
  <2> QED
    BY <2>1, <2>3
<1>10. \A i \in 1..n : l[i].sym \in live
  BY <1>5, <1>7
<1> QED
  BY <1>8, <1>9, <1>10 DEF GoodList

\* A new datum has a new index and a good list.
LEMMA AddMessageInv ==
  ASSUME FloodInv, NEW d \in Data, NEW S \in SUBSET live,
         NEW a \in Addr \cup {NULL}, add_message_to_flood(d, S, a)
  PROVE  FloodInv'
<1>1. GoodData(DATAF, live) /\ now \in Nat
  BY DEF FloodInv
<1>2. PICK q \in InOrder(S) :
        LET symmetric == init_ngb_entries(q)
            flood == [index |-> d, born |-> now, sym_neighbors |->
                        IF a = NULL THEN symmetric
                        ELSE remove_elem(symmetric, a, 0)]
        IN  DATAF' = add_limited(DATAF, flood, NBDATA)
  BY DEF add_message_to_flood
<1>3. PICK l : l = init_ngb_entries(q)
  OBVIOUS
<1>4. PICK r : r = remove_elem(l, a, 0)
  OBVIOUS
<1>5. GoodList(l, live)
  BY <1>3, InitEntries
<1>6. GoodList(r, live)
  BY <1>4, <1>5, RemoveGood
<1>7. PICK m : m = IF a = NULL THEN l ELSE r
  OBVIOUS
<1>8. GoodList(m, live)
  BY <1>5, <1>6, <1>7
<1>9. PICK e : e = [index |-> d, born |-> now, sym_neighbors |-> m]
  OBVIOUS
<1>10. DATAF' = add_limited(DATAF, e, NBDATA)
  BY <1>2, <1>3, <1>4, <1>7, <1>9
<1>11. e \in FloodEntry /\ e.index = d /\ e.sym_neighbors = m
  <2>1. m \in Seq(NgbEntry)
    BY <1>8 DEF GoodList
  <2> QED
    BY <2>1, <1>1, <1>9 DEF FloodEntry
<1>12. \A i \in 1..Len(DATAF) : DATAF[i].index # e.index
  BY <1>11 DEF add_message_to_flood, Indices
<1>13. GoodData(DATAF', live)
  BY <1>1, <1>8, <1>10, <1>11, <1>12, AddLimited
<1> QED
  BY <1>13, IdleInv DEF FloodInv, add_message_to_flood

\* What the pass visits is an entry of a good list.
LEMMA Visited ==
  ASSUME FloodInv, Visiting, NEW l, l = sym_neighbors
  PROVE  /\ fi \in 1..Len(DATAF) /\ GoodList(l, live)
         /\ tmp \in Syms(l) /\ tmp \in live
         /\ nw \in NgbEntry /\ nw \in EntriesOf(l) /\ nw.sym = tmp
         /\ NextSym(l, tmp) \in {NULL} \cup (Syms(l) \ {tmp})
<1>0. GoodData(DATAF, live) /\ Len(DATAF) \in Nat
  BY DEF FloodInv, GoodData
<1>1. fi \in 1..Len(DATAF)
  BY <1>0 DEF FloodInv, Visiting
<1>2. GoodList(l, live)
  BY <1>0, <1>1 DEF GoodData, sym_neighbors
<1>3. tmp \in Syms(l)
  BY DEF Visiting
<1>4. tmp \in live
  BY <1>2, <1>3 DEF GoodList, Syms
<1> QED
  BY <1>1, <1>2, <1>3, <1>4, PositionIn DEF nw, EntriesOf

\* Giving a neighbour up leaves the next entry of the list in place.
LEMMA HandleInactiveInv ==
  ASSUME FloodInv, NoZeroDate, handle_inactive
  PROVE  FloodInv'
<1>0. Visiting /\ GoodData(DATAF, live) /\ live \subseteq Addr
  BY DEF FloodInv, handle_inactive
<1>1. PICK l : l = sym_neighbors
  OBVIOUS
<1>2. /\ fi \in 1..Len(DATAF) /\ GoodList(l, live) /\ tmp \in live
      /\ NextSym(l, tmp) \in {NULL} \cup (Syms(l) \ {tmp})
  BY <1>0, <1>1, Visited
<1>3. PICK G : G = PurgeAll(DATAF, tmp)
  OBVIOUS
<1>4. /\ GoodData(G, live \ {tmp}) /\ Len(G) = Len(DATAF)
      /\ \A i \in 1..Len(DATAF) :
           Syms(G[i].sym_neighbors) = Syms(DATAF[i].sym_neighbors) \ {tmp}
  <2>1. ToldFromZero(DATAF)
    BY ZeroTold DEF ToldFromZero
  <2>2. PICK a : a = tmp
    OBVIOUS
  <2>3. GoodData(DATAF, live) /\ G = PurgeAll(DATAF, a)
    BY <1>0, <1>3, <2>2
  <2>4. /\ GoodData(G, live \ {a}) /\ Len(G) = Len(DATAF)
        /\ \A i \in 1..Len(DATAF) :
             Syms(G[i].sym_neighbors) = Syms(DATAF[i].sym_neighbors) \ {a}
    BY <2>1, <2>3, PurgeGood
  <2> QED
    BY <2>2, <2>4
<1>5. /\ DATAF' = G /\ live' = live \ {tmp} /\ tmp' = NextSym(l, tmp)
      /\ now' = now /\ fi' = fi
  BY <1>1, <1>3 DEF handle_inactive
<1>6. Syms(sym_neighbors') = Syms(l) \ {tmp}
  BY <1>1, <1>2, <1>4, <1>5 DEF sym_neighbors
<1>7. CursorValid'
  BY <1>2, <1>5, <1>6 DEF CursorValid
<1>8. tmp' \in Addr \cup {NULL}
  <2>1. Syms(l) \subseteq Addr
    BY <1>0, <1>2 DEF GoodList, Syms
  <2> QED
    BY <2>1, <1>2, <1>5
<1> QED
  BY <1>0, <1>4, <1>5, <1>7, <1>8 DEF FloodInv

\* When an entry is queued again, its date and its new one are told apart from the others.
LEMMA SendDataTold ==
  ASSUME FloodInv, DatedData, Prompt, NEW w \in 1..MaxWait, send_data(w),
         NEW l, l = sym_neighbors, NEW e, e = nw
  PROVE  /\ Exact(l, e.wait_time) /\ Told(l, e.wait_time)
         /\ \A r : r = remove_elem(l, e.sym, e.wait_time) => Exact(r, now + w)
<1>0. Visiting /\ now >= nw.wait_time /\ now \in Nat /\ MaxWait \in Nat
  BY MaxWaitPositive DEF FloodInv, send_data
<1>1. /\ fi \in 1..Len(DATAF) /\ GoodList(l, live)
      /\ e \in NgbEntry /\ e \in EntriesOf(l)
  BY <1>0, Visited
<1>2. PICK f \in 1..Len(DATAF) : f = fi
  BY <1>1
<1>3. l = DATAF[f].sym_neighbors
  BY <1>2 DEF sym_neighbors
<1>4. e.wait_time \in Nat
  BY <1>1 DEF NgbEntry
<1>5. e.wait_time <= now + MaxWait /\ now + MaxWait <= e.wait_time + ShortMax
  BY <1>1, <1>3 DEF DatedData, Prompt
<1>6. Exact(l, e.wait_time)
  BY <1>3, <1>4, <1>5, PromptExact
<1>7. Told(l, e.wait_time)
  BY <1>4, <1>6, ExactTold
<1>8. PICK t \in Nat : t = now + w
  BY <1>0
<1>9. t <= now + MaxWait /\ now + MaxWait <= t + ShortMax
  BY <1>0, <1>4, <1>5, <1>8, SMT DEF ShortMax
<1>10. Exact(l, t)
  BY <1>3, <1>9, PromptExact
<1>11. ASSUME NEW r, r = remove_elem(l, e.sym, e.wait_time)
       PROVE  Exact(r, now + w)
  <2>1. l \in Seq(NgbEntry)
    BY <1>1 DEF GoodList
  <2>2. EntriesOf(r) \subseteq EntriesOf(l)
    BY <1>11, <2>1, RemoveElemTyped
  <2>3. \A x \in EntriesOf(l) : x.wait_time \in Int /\ Short(x.wait_time - t) = x.wait_time - t
    BY <1>10 DEF Exact, EntriesOf
  <2>4. \A x \in EntriesOf(r) : x.wait_time \in Int /\ Short(x.wait_time - t) = x.wait_time - t
    BY <2>2, <2>3
  <2> QED
    BY <1>8, <2>4 DEF Exact, EntriesOf
<1> QED
  BY <1>6, <1>7, <1>11

\* Queueing an entry again leaves the next entry of the list in place.
LEMMA SendDataInv ==
  ASSUME FloodInv, DatedData, Prompt, NEW w \in 1..MaxWait, send_data(w)
  PROVE  FloodInv'
<1>0. /\ Visiting /\ nw.times_sent # MaxSent
      /\ GoodData(DATAF, live) /\ live \subseteq Addr /\ now \in Nat
  BY DEF FloodInv, send_data
<1>1. PICK l : l = sym_neighbors
  OBVIOUS
<1>2. /\ fi \in 1..Len(DATAF) /\ GoodList(l, live) /\ tmp \in live /\ tmp \in Syms(l)
      /\ nw \in NgbEntry /\ nw \in EntriesOf(l) /\ nw.sym = tmp
      /\ NextSym(l, tmp) \in {NULL} \cup (Syms(l) \ {tmp})
  BY <1>0, <1>1, Visited
<1>3. PICK e : e = nw
  OBVIOUS
<1>4. PICK n : n = [e EXCEPT !.times_sent = e.times_sent + 1, !.wait_time = now + w]
  OBVIOUS
<1>5. n \in NgbEntry /\ n.sym = tmp /\ n.wait_time = now + w
  <2>1. now + w \in Nat
    BY <1>0
  <2>2. e \in NgbEntry /\ e.sym = tmp /\ e.times_sent # MaxSent
    BY <1>0, <1>2, <1>3
  <2> QED
    <3>1. PICK t \in Nat : t = now + w
      BY <2>1
    <3>2. n = Requeued(e, t)
      BY <3>1, <1>4 DEF Requeued
    <3>3. n \in NgbEntry /\ n.sym = e.sym /\ n.wait_time = t
      BY <3>2, <2>2, NextEntry
    <3> QED
      BY <3>1, <3>3, <2>1, <2>2
<1>6. PICK r : r = remove_elem(l, e.sym, e.wait_time)
  OBVIOUS
<1>7. GoodList(r, live) /\ Syms(r) = Syms(l) \ {tmp}
  <2>1. Without(live, l, e.sym, r)
    BY <1>1, <1>2, <1>3, <1>6, SendDataTold, RemoveElem
  <2> QED
    BY <2>1, <1>2, <1>3, GoodListMonotone DEF Without
<1>8. PICK m : m = add_elem(r, n)
  OBVIOUS
<1>9. GoodList(m, live) /\ Syms(m) = Syms(r) \cup {n.sym}
  <2>1. n.sym \in live /\ n.sym \notin Syms(r)
    BY <1>2, <1>5, <1>7
  <2>2. Told(r, n.wait_time)
    <3>1. Exact(r, now + w)
      BY <1>1, <1>2, <1>3, <1>6, SendDataTold
    <3>2. now + w \in Int
      BY <1>0
    <3> QED
      BY <1>5, <3>1, <3>2, ExactTold
  <2> QED
    BY <2>1, <2>2, <1>5, <1>7, <1>8, AddElem
<1>10. DATAF' = [DATAF EXCEPT ![fi].sym_neighbors = m]
  BY <1>1, <1>3, <1>4, <1>6, <1>8 DEF send_data, sym_neighbors
<1>11. GoodData(DATAF', live) /\ Len(DATAF') = Len(DATAF) /\ DATAF'[fi].sym_neighbors = m
  <2>1. PICK k : k = fi
    OBVIOUS
  <2>2. PICK G : G = [DATAF EXCEPT ![k].sym_neighbors = m]
    OBVIOUS
  <2>3. GoodData(DATAF, live) /\ GoodList(m, live) /\ k \in 1..Len(DATAF)
    BY <1>0, <1>2, <1>9, <2>1
  <2>4. Updated(live, DATAF, k, m, G)
    BY <2>2, <2>3, UpdateGood
  <2> QED
    BY <1>10, <2>1, <2>2, <2>4 DEF Updated
<1>12. /\ live' = live /\ tmp' = NextSym(l, tmp) /\ now' = now /\ fi' = fi
  BY <1>1 DEF send_data
<1>13. sym_neighbors' = m
  BY <1>11, <1>12 DEF sym_neighbors
<1>14. CursorValid'
  BY <1>2, <1>7, <1>9, <1>12, <1>13 DEF CursorValid
<1>15. tmp' \in Addr \cup {NULL}
  <2>1. Syms(l) \subseteq Addr
    BY <1>0, <1>2 DEF GoodList, Syms
  <2> QED
    BY <2>1, <1>2, <1>12
<1> QED
  BY <1>11, <1>12, <1>14, <1>15 DEF FloodInv

\* Every step preserves the invariant.
LEMMA FloodNextInv ==
  ASSUME FloodInv, DatedData, NoZeroDate, Prompt, [FloodNext]_floodVars
  PROVE  FloodInv'
<1>1. ASSUME NEW a \in Addr, join(a) PROVE FloodInv'
  BY <1>1, JoinInv
<1>2. ASSUME NEW d \in Data, NEW S \in SUBSET live, NEW a \in Addr \cup {NULL},
             add_message_to_flood(d, S, a)
      PROVE  FloodInv'
  BY <1>2, AddMessageInv
<1>3. ASSUME NEW d \in Data, NEW a \in Addr, ack(d, a) PROVE FloodInv'
  BY <1>3, AckInv
<1>4. ASSUME NEW a \in Addr, remove_neighbor_everywhere(a) PROVE FloodInv'
  BY <1>4, PurgeInv
<1>5. CASE Tick
  BY <1>5, TickInv
<1>6. CASE flood_messages
  <2>1. 1 \in Nat \ {0} /\ Enter(1) /\ UNCHANGED <<now, live, DATAF>>
    BY <1>6 DEF flood_messages
  <2> QED
    BY <2>1, EnterInv
<1>7. CASE handle_inactive
  BY <1>7, HandleInactiveInv
<1>8. ASSUME NEW w \in 1..MaxWait, send_data(w) PROVE FloodInv'
  BY <1>8, SendDataInv
<1>9. CASE not_due \/ end_of_list
  <2>1. fi \in Nat
    BY DEF FloodInv
  <2>2. fi + 1 \in Nat \ {0}
    BY <2>1
  <2>3. Enter(fi + 1) /\ UNCHANGED <<now, live, DATAF>>
    BY <1>9 DEF not_due, end_of_list
  <2> QED
    BY <2>2, <2>3, EnterInv
<1>10. CASE UNCHANGED floodVars
  BY <1>10 DEF floodVars, FloodInv, GoodData, CursorValid, sym_neighbors
<1> QED
  BY <1>1, <1>2, <1>3, <1>4, <1>5, <1>6, <1>7, <1>8, <1>9, <1>10
     DEF FloodNext, FloodPass

\* What the invariant says of the properties that the runs check.
LEMMA FloodInvImplies ==
  FloodInv => FloodTypeOK /\ RecentDistinct /\ OneEntryPerNeighbor /\ NoDangling
              /\ CursorValid
<1> SUFFICES ASSUME FloodInv
             PROVE  FloodTypeOK /\ RecentDistinct /\ OneEntryPerNeighbor /\ NoDangling
                    /\ CursorValid
  OBVIOUS
<1>1. FloodTypeOK /\ CursorValid
  BY DEF FloodInv, GoodData, FloodTypeOK
<1>2. RecentDistinct
  BY DEF FloodInv, GoodData, RecentDistinct
<1>3. OneEntryPerNeighbor
  BY DEF FloodInv, GoodData, GoodList, OneEntryPerNeighbor
<1>4. NoDangling
  <2> SUFFICES ASSUME NEW f \in 1..Len(DATAF)
               PROVE  Syms(DATAF[f].sym_neighbors) \subseteq live
    BY DEF NoDangling
  <2>1. GoodList(DATAF[f].sym_neighbors, live)
    BY DEF FloodInv, GoodData
  <2> QED
    BY <2>1 DEF GoodList, Syms
<1> QED
  BY <1>1, <1>2, <1>3, <1>4
-----------------------------------------------------------------------------
(***************************************************************************)
(* What holds whatever the dates are: types, the limit on DATAF, and where *)
(* the entries of a list come from.                                        *)
(***************************************************************************)
\* An insertion adds nothing but the entry that it is about.
LEMMA AddElemTyped ==
  ASSUME NEW l \in Seq(NgbEntry), NEW n \in NgbEntry, NEW r, r = add_elem(l, n)
  PROVE  r \in Seq(NgbEntry) /\ EntriesOf(r) \subseteq EntriesOf(l) \cup {n}
<1>0. Len(l) \in Nat
  OBVIOUS
<1>1. PICK k : k = first_not_less(l, n.sym, n.wait_time)
  OBVIOUS
<1>2. k = 0 \/ k \in 1..Len(l)
  BY <1>0, <1>1, FirstNotLess
<1>3. CASE k = 0
  <2>1. r = Append(l, n)
    BY <1>1, <1>3 DEF add_elem
  <2>2. /\ r \in Seq(NgbEntry) /\ Len(r) = Len(l) + 1
        /\ \A i \in 1..Len(r) : r[i] = IF i = Len(l) + 1 THEN n ELSE l[i]
    BY <2>1
  <2>3. \A i \in 1..Len(r) : r[i] = n \/ \E j \in 1..Len(l) : r[i] = l[j]
    BY <2>2, <1>0
  <2> QED
    BY <2>2, <2>3 DEF EntriesOf
<1>4. CASE k \in 1..Len(l)
  <2>1. k # 0
    BY <1>0, <1>4
  <2>2. r = l \/ r = InsertAt(l, k, n)
    BY <1>1, <2>1 DEF add_elem
  <2>3. CASE r = l
    BY <2>3
  <2>4. CASE r = InsertAt(l, k, n)
    <3>1. Inserted(NgbEntry, l, k, n, r)
      BY <1>4, <2>4, InsertAtList
    <3>2. \A i \in 1..Len(r) : r[i] = n \/ \E j \in 1..Len(l) : r[i] = l[j]
      <4> SUFFICES ASSUME NEW i \in 1..Len(r), r[i] # n
                   PROVE  \E j \in 1..Len(l) : r[i] = l[j]
        OBVIOUS
      <4>1. CASE i < k
        <5>1. i \in 1..Len(l) /\ r[i] = l[i]
          BY <4>1, <1>0, <1>4, <3>1 DEF Inserted
        <5> QED
          BY <5>1
      <4>2. CASE ~(i < k)
        <5>1. i - 1 \in 1..Len(l) /\ r[i] = l[i - 1]
          BY <4>2, <1>0, <1>4, <3>1 DEF Inserted
        <5> QED
          BY <5>1
      <4> QED
        BY <4>1, <4>2
    <3> QED
      BY <3>1, <3>2 DEF Inserted, EntriesOf
  <2> QED
    BY <2>2, <2>3, <2>4
<1> QED
  BY <1>2, <1>3, <1>4

\* The entry of an address in a list that holds it, and the address after it.
LEMMA PositionTyped ==
  ASSUME NEW l \in Seq(NgbEntry), NEW a \in Syms(l)
  PROVE  /\ l[Position(l, a)] \in EntriesOf(l) /\ l[Position(l, a)] \in NgbEntry
         /\ l[Position(l, a)].sym = a
         /\ NextSym(l, a) \in Addr \cup {NULL}
<1> DEFINE p == Position(l, a)
<1>0. Len(l) \in Nat
  OBVIOUS
<1>1. p \in 1..Len(l) /\ l[p].sym = a
  BY DEF Position, Syms
<1> HIDE DEF p
<1>2. l[p] \in NgbEntry
  BY <1>1
<1>3. NextSym(l, a) \in Addr \cup {NULL}
  <2>1. CASE p = Len(l)
    BY <2>1 DEF NextSym, p
  <2>2. CASE p # Len(l)
    <3>1. p + 1 \in 1..Len(l)
      BY <2>2, <1>0, <1>1
    <3>2. NextSym(l, a) = l[p + 1].sym /\ l[p + 1] \in NgbEntry
      BY <2>2, <3>1 DEF NextSym, p
    <3> QED
      BY <3>2 DEF NgbEntry
  <2> QED
    BY <2>1, <2>2
<1> QED
  BY <1>1, <1>2, <1>3 DEF p, EntriesOf

\* DATAF without what its lists hold.
TypedData(F) ==
  /\ F \in Seq(FloodEntry) /\ Len(F) <= NBDATA
  /\ \A i, j \in 1..Len(F) : F[i].index = F[j].index => i = j

\* G is F with other lists, whose entries were in those of F, but that the list of
\* datum k may hold n as well.
SameBut(F, G, k, n) ==
  /\ Len(G) = Len(F)
  /\ \A i \in 1..Len(F) :
       /\ G[i].index = F[i].index /\ G[i].born = F[i].born
       /\ EntriesOf(G[i].sym_neighbors) \subseteq
            EntriesOf(F[i].sym_neighbors) \cup (IF i = k THEN {n} ELSE {})

NewList(F, G, k, n, i) ==
  \E l \in Seq(NgbEntry) :
    /\ G[i] = [F[i] EXCEPT !.sym_neighbors = l]
    /\ EntriesOf(l) \subseteq
         EntriesOf(F[i].sym_neighbors) \cup (IF i = k THEN {n} ELSE {})

LEMMA RelistTyped ==
  ASSUME NEW F, TypedData(F), NEW G, DOMAIN G = 1..Len(F),
         G = [i \in DOMAIN G |-> G[i]], NEW k, NEW n,
         \A i \in 1..Len(F) : NewList(F, G, k, n, i)
  PROVE  TypedData(G) /\ SameBut(F, G, k, n)
<1>0. F \in Seq(FloodEntry) /\ Len(F) \in Nat
  BY DEF TypedData
<1>1. ASSUME NEW i \in 1..Len(F)
      PROVE  /\ G[i] \in FloodEntry /\ G[i].index = F[i].index /\ G[i].born = F[i].born
             /\ EntriesOf(G[i].sym_neighbors) \subseteq
                  EntriesOf(F[i].sym_neighbors) \cup (IF i = k THEN {n} ELSE {})
  <2>1. PICK l \in Seq(NgbEntry) :
          /\ G[i] = [F[i] EXCEPT !.sym_neighbors = l]
          /\ EntriesOf(l) \subseteq
               EntriesOf(F[i].sym_neighbors) \cup (IF i = k THEN {n} ELSE {})
    BY DEF NewList
  <2>2. F[i] \in FloodEntry
    BY <1>0
  <2>3. /\ G[i] \in FloodEntry /\ G[i].index = F[i].index /\ G[i].born = F[i].born
        /\ G[i].sym_neighbors = l
    BY <2>1, <2>2 DEF FloodEntry
  <2> QED
    BY <2>1, <2>3
<1>2. G \in Seq(FloodEntry) /\ Len(G) = Len(F)
  <2>1. G \in [1..Len(F) -> FloodEntry]
    BY <1>1
  <2> QED
    BY <2>1, <1>0
<1> QED
  BY <1>1, <1>2 DEF TypedData, SameBut

\* One list is replaced.
LEMMA UpdateTyped ==
  ASSUME NEW F, TypedData(F), NEW k \in 1..Len(F), NEW l \in Seq(NgbEntry), NEW E, NEW n,
         EntriesOf(l) \subseteq EntriesOf(F[k].sym_neighbors) \cup E,
         E = {} \/ E = {n},
         NEW G, G = [F EXCEPT ![k].sym_neighbors = l]
  PROVE  TypedData(G) /\ SameBut(F, G, IF E = {} THEN 0 ELSE k, n)
<1>0. F \in Seq(FloodEntry) /\ Len(F) \in Nat /\ DOMAIN F = 1..Len(F)
  BY DEF TypedData
<1>1. DOMAIN G = 1..Len(F) /\ G = [i \in DOMAIN G |-> G[i]]
  BY <1>0
<1>2. PICK h : h = IF E = {} THEN 0 ELSE k
  OBVIOUS
<1>3. ASSUME NEW i \in 1..Len(F) PROVE NewList(F, G, h, n, i)
  <2>1. F[i] \in FloodEntry
    BY <1>0
  <2>2. CASE i = k
    <3>1. G[i] = [F[i] EXCEPT !.sym_neighbors = l]
      BY <2>2, <1>0
    <3>2. EntriesOf(l) \subseteq EntriesOf(F[i].sym_neighbors) \cup (IF i = h THEN {n} ELSE {})
      BY <2>2, <1>2
    <3> QED
      BY <3>1, <3>2 DEF NewList
  <2>3. CASE i # k
    <3>1. G[i] = F[i]
      BY <2>3, <1>0
    <3>2. /\ F[i] = [F[i] EXCEPT !.sym_neighbors = F[i].sym_neighbors]
          /\ F[i].sym_neighbors \in Seq(NgbEntry)
      BY <2>1 DEF FloodEntry
    <3> QED
      BY <3>1, <3>2 DEF NewList
  <2> QED
    BY <2>2, <2>3
<1>4. TypedData(G) /\ SameBut(F, G, h, n)
  BY <1>1, <1>3, RelistTyped
<1> QED
  BY <1>2, <1>4

\* remove_neighbor_everywhere() adds nothing to any list.
LEMMA PurgeTyped ==
  ASSUME NEW F, TypedData(F), NEW a, NEW G, G = PurgeAll(F, a)
  PROVE  TypedData(G) /\ SameBut(F, G, 0, a)
<1>0. F \in Seq(FloodEntry) /\ Len(F) \in Nat /\ DOMAIN F = 1..Len(F)
  BY DEF TypedData
<1>1. DOMAIN G = 1..Len(F) /\ G = [i \in DOMAIN G |-> G[i]]
  BY <1>0 DEF PurgeAll
<1>2. ASSUME NEW i \in 1..Len(F) PROVE NewList(F, G, 0, a, i)
  <2>1. F[i] \in FloodEntry
    BY <1>0
  <2>2. PICK l : l = F[i].sym_neighbors
    OBVIOUS
  <2>3. PICK r : r = remove_elem(l, a, 0)
    OBVIOUS
  <2>4. l \in Seq(NgbEntry) /\ F[i] = [F[i] EXCEPT !.sym_neighbors = l]
    BY <2>1, <2>2 DEF FloodEntry
  <2>5. r \in Seq(NgbEntry) /\ EntriesOf(r) \subseteq EntriesOf(l)
    BY <2>3, <2>4, RemoveElemTyped
  <2>6. G[i] = [F[i] EXCEPT !.sym_neighbors = r] \/ G[i] = F[i]
    BY <1>0, <2>2, <2>3 DEF PurgeAll
  <2> QED
    BY <2>2, <2>4, <2>5, <2>6 DEF NewList
<1> QED
  BY <1>1, <1>2, RelistTyped

\* A new datum, with the oldest one pushed out when there are too many.
LEMMA AddLimitedTyped ==
  ASSUME NEW F, TypedData(F), NEW e \in FloodEntry,
         \A i \in 1..Len(F) : F[i].index # e.index,
         NEW G, G = add_limited(F, e, NBDATA)
  PROVE  /\ TypedData(G)
         /\ \A i \in 1..Len(G) : G[i] = e \/ \E j \in 1..Len(F) : G[i] = F[j]
<1>0. F \in Seq(FloodEntry) /\ Len(F) \in Nat /\ NBDATA \in Nat \ {0}
  BY FloodAssumption DEF TypedData
<1> DEFINE A == Append(F, e)
<1>1. /\ A \in Seq(FloodEntry) /\ Len(A) = Len(F) + 1
      /\ \A i \in 1..Len(A) : A[i] = IF i = Len(F) + 1 THEN e ELSE F[i]
  BY <1>0
<1>2. \A i \in 1..Len(A) : i = Len(F) + 1 \/ i \in 1..Len(F)
  BY <1>0, <1>1
<1> HIDE DEF A
<1>3. \A i, j \in 1..Len(A) : A[i].index = A[j].index => i = j
  <2> SUFFICES ASSUME NEW i \in 1..Len(A), NEW j \in 1..Len(A), A[i].index = A[j].index
               PROVE  i = j
    OBVIOUS
  <2>1. CASE i = Len(F) + 1 /\ j = Len(F) + 1
    BY <2>1
  <2>2. CASE i \in 1..Len(F) /\ j = Len(F) + 1
    BY <2>2, <1>1, <1>0
  <2>3. CASE i = Len(F) + 1 /\ j \in 1..Len(F)
    BY <2>3, <1>1, <1>0
  <2>4. CASE i \in 1..Len(F) /\ j \in 1..Len(F)
    <3>1. A[i] = F[i] /\ A[j] = F[j]
      BY <2>4, <1>1, <1>0
    <3> QED
      BY <3>1, <2>4 DEF TypedData
  <2> QED
    BY <2>1, <2>2, <2>3, <2>4, <1>2
<1>4. \A i \in 1..Len(A) : A[i] = e \/ \E j \in 1..Len(F) : A[i] = F[j]
  BY <1>1, <1>2
<1>5. CASE ~(Len(F) + 1 > NBDATA)
  <2>1. G = A
    BY <1>5 DEF add_limited, A
  <2>2. Len(A) <= NBDATA
    BY <1>5, <1>1, <1>0
  <2> QED
    BY <2>1, <2>2, <1>1, <1>3, <1>4 DEF TypedData
<1>6. CASE Len(F) + 1 > NBDATA
  <2>1. G = Tail(A)
    BY <1>6 DEF add_limited, A
  <2>2. Len(F) <= NBDATA /\ A # << >>
    BY <1>1, <1>0 DEF TypedData
  <2>3. G \in Seq(FloodEntry) /\ Len(G) = Len(F) /\ \A i \in 1..Len(G) : G[i] = A[i + 1]
    BY <2>1, <2>2, <1>0, <1>1
  <2>4. \A i \in 1..Len(G) : i + 1 \in 1..Len(A)
    BY <2>3, <1>1, <1>0
  <2>5. \A i, j \in 1..Len(G) : G[i].index = G[j].index => i = j
    <3> SUFFICES ASSUME NEW i \in 1..Len(G), NEW j \in 1..Len(G), G[i].index = G[j].index
                 PROVE  i = j
      OBVIOUS
    <3>1. i + 1 = j + 1
      BY <2>3, <2>4, <1>3
    <3> QED
      BY <3>1
  <2> QED
    BY <2>2, <2>3, <2>4, <2>5, <1>4 DEF TypedData
<1> QED
  BY <1>5, <1>6

\* The list of a new datum: entries not sent yet, due in a second.
Fresh(e) == e.times_sent = 0 /\ e.wait_time = now + 1

LEMMA InitEntriesTyped ==
  ASSUME now \in Nat, NEW S \in SUBSET Addr, NEW q \in InOrder(S),
         NEW l, l = init_ngb_entries(q)
  PROVE  l \in Seq(NgbEntry) /\ \A e \in EntriesOf(l) : Fresh(e) /\ e.sym \in S
<1>1. Cardinality(S) \in Nat
  BY FloodAssumption, FS_Subset, FS_CardinalityType
<1> DEFINE n == Cardinality(S)
<1>2. q \in [1..n -> S]
  BY DEF InOrder
<1> HIDE DEF n
<1>3. n \in Nat /\ now + 1 \in Nat
  BY <1>1 DEF n
<1>4. \A i \in 1..n : l[i] = [sym |-> q[i], times_sent |-> 0, wait_time |-> now + 1]
  BY <1>2 DEF init_ngb_entries
<1>5. ASSUME NEW i \in 1..n PROVE l[i] \in NgbEntry /\ Fresh(l[i]) /\ l[i].sym \in S
  <2>1. q[i] \in S /\ l[i] = [sym |-> q[i], times_sent |-> 0, wait_time |-> now + 1]
    BY <1>2, <1>4
  <2>2. l[i] \in NgbEntry /\ l[i].sym = q[i] /\ l[i].wait_time = now + 1
    BY <2>1, <1>3, NewEntry
  <2>3. l[i].times_sent = 0
    BY <2>1
  <2> QED
    BY <2>1, <2>2, <2>3 DEF Fresh
<1>6. l \in Seq(NgbEntry) /\ Len(l) = n
  <2>1. l \in [1..n -> NgbEntry]
    BY <1>2, <1>5 DEF init_ngb_entries
  <2> QED
    BY <2>1, <1>3
<1> QED
  BY <1>5, <1>6 DEF EntriesOf

\* What every step may rely on.
FloodTypes == FloodTypeOK /\ RecentDistinct

LEMMA TypesOfData ==
  FloodTypes <=> /\ now \in Nat /\ live \subseteq Addr /\ TypedData(DATAF)
                 /\ fi \in 0..Len(DATAF) /\ tmp \in Addr \cup {NULL}
BY DEF FloodTypes, FloodTypeOK, RecentDistinct, TypedData

\* What a step does to DATAF: nothing; entries leave; a new datum comes; or the entry
\* being visited is queued again.
Shrinks == SameBut(DATAF, DATAF', 0, 0)

Grows ==
  \E e \in FloodEntry :
    /\ e.born = now /\ e.index \notin Indices
    /\ \A x \in EntriesOf(e.sym_neighbors) : Fresh(x)
    /\ \A i \in 1..Len(DATAF') : DATAF'[i] = e \/ \E j \in 1..Len(DATAF) : DATAF'[i] = DATAF[j]

Requeues ==
  \E k \in 1..Len(DATAF), e \in NgbEntry, w \in 1..MaxWait :
    /\ e \in EntriesOf(DATAF[k].sym_neighbors)
    /\ e.times_sent # MaxSent /\ now >= e.wait_time
    /\ w \in wait_time(e.times_sent + 1)
    /\ Requeued(e, now + w) \in NgbEntry
    /\ SameBut(DATAF, DATAF', k, Requeued(e, now + w))

LEMMA ListOfDatum ==
  ASSUME NEW F \in Seq(FloodEntry), NEW k \in 1..Len(F)
  PROVE  F[k].sym_neighbors \in Seq(NgbEntry)
<1>1. F[k] \in FloodEntry
  OBVIOUS
<1> QED
  BY <1>1 DEF FloodEntry

LEMMA AckShrinks ==
  ASSUME FloodTypes, NEW d, NEW a, ack(d, a)
  PROVE  TypedData(DATAF') /\ (DATAF' = DATAF \/ Shrinks)
<1>1. TypedData(DATAF) /\ Len(DATAF) \in Nat /\ DATAF \in Seq(FloodEntry)
  BY TypesOfData DEF TypedData
<1>2. PICK k : k = get(DATAF, d)
  OBVIOUS
<1>3. k = 0 \/ k \in 1..Len(DATAF)
  BY <1>1, <1>2, GetFirst
<1>4. CASE k = 0
  BY <1>4, <1>1, <1>2 DEF ack, remove_neighbor_from_flood
<1>5. CASE k \in 1..Len(DATAF)
  <2>1. PICK l : l = DATAF[k].sym_neighbors
    OBVIOUS
  <2>2. PICK r : r = remove_elem(l, a, 0)
    OBVIOUS
  <2>3. l \in Seq(NgbEntry)
    BY <1>1, <1>5, <2>1, ListOfDatum
  <2>4. r \in Seq(NgbEntry) /\ EntriesOf(r) \subseteq EntriesOf(l)
    BY <2>2, <2>3, RemoveElemTyped
  <2>5. k # 0
    BY <1>1, <1>5
  <2>6. DATAF' = [DATAF EXCEPT ![k].sym_neighbors = r]
    BY <1>2, <2>1, <2>2, <2>5 DEF ack, remove_neighbor_from_flood
  <2>7. PICK G : G = [DATAF EXCEPT ![k].sym_neighbors = r]
    OBVIOUS
  <2>8. EntriesOf(r) \subseteq EntriesOf(DATAF[k].sym_neighbors) \cup {}
    BY <2>1, <2>4
  <2>9. PICK E : E = {}
    OBVIOUS
  <2>10. PICK n : n = 0
    OBVIOUS
  <2>11. TypedData(G) /\ SameBut(DATAF, G, IF E = {} THEN 0 ELSE k, n)
    BY <1>1, <1>5, <2>4, <2>7, <2>8, <2>9, UpdateTyped
  <2> QED
    BY <2>6, <2>7, <2>9, <2>10, <2>11 DEF Shrinks
<1> QED
  BY <1>3, <1>4, <1>5

LEMMA PurgeShrinks ==
  ASSUME FloodTypes, NEW a, DATAF' = PurgeAll(DATAF, a)
  PROVE  TypedData(DATAF') /\ Shrinks
<1>1. TypedData(DATAF)
  BY TypesOfData
<1>2. PICK G : G = PurgeAll(DATAF, a)
  OBVIOUS
<1>3. TypedData(G) /\ SameBut(DATAF, G, 0, a)
  BY <1>1, <1>2, PurgeTyped
<1>4. \A i \in 1..Len(DATAF) : i # 0
  BY <1>1 DEF TypedData
<1> QED
  BY <1>2, <1>3, <1>4 DEF Shrinks, SameBut

LEMMA AddMessageGrows ==
  ASSUME FloodTypes, NEW d \in Data, NEW S \in SUBSET live, NEW a,
         add_message_to_flood(d, S, a)
  PROVE  TypedData(DATAF') /\ Grows
<1>1. TypedData(DATAF) /\ now \in Nat /\ S \in SUBSET Addr
  BY TypesOfData
<1>2. PICK q \in InOrder(S) :
        LET symmetric == init_ngb_entries(q)
            flood == [index |-> d, born |-> now, sym_neighbors |->
                        IF a = NULL THEN symmetric
                        ELSE remove_elem(symmetric, a, 0)]
        IN  DATAF' = add_limited(DATAF, flood, NBDATA)
  BY DEF add_message_to_flood
<1>3. PICK l : l = init_ngb_entries(q)
  OBVIOUS
<1>4. PICK r : r = remove_elem(l, a, 0)
  OBVIOUS
<1>5. l \in Seq(NgbEntry) /\ \A e \in EntriesOf(l) : Fresh(e) /\ e.sym \in S
  BY <1>1, <1>3, InitEntriesTyped
<1>6. r \in Seq(NgbEntry) /\ EntriesOf(r) \subseteq EntriesOf(l)
  BY <1>4, <1>5, RemoveElemTyped
<1>7. PICK m : m = IF a = NULL THEN l ELSE r
  OBVIOUS
<1>8. m \in Seq(NgbEntry) /\ \A x \in EntriesOf(m) : Fresh(x)
  BY <1>5, <1>6, <1>7
<1>9. PICK e : e = [index |-> d, born |-> now, sym_neighbors |-> m]
  OBVIOUS
<1>10. DATAF' = add_limited(DATAF, e, NBDATA)
  BY <1>2, <1>3, <1>4, <1>7, <1>9
<1>11. e \in FloodEntry /\ e.index = d /\ e.sym_neighbors = m /\ e.born = now
  BY <1>8, <1>1, <1>9 DEF FloodEntry
<1>12. d \notin Indices /\ \A i \in 1..Len(DATAF) : DATAF[i].index # e.index
  BY <1>11 DEF add_message_to_flood, Indices
<1>13. PICK G : G = add_limited(DATAF, e, NBDATA)
  OBVIOUS
<1>14. /\ TypedData(G)
       /\ \A i \in 1..Len(G) : G[i] = e \/ \E j \in 1..Len(DATAF) : G[i] = DATAF[j]
  BY <1>1, <1>11, <1>12, <1>13, AddLimitedTyped
<1>15. G = DATAF'
  BY <1>10, <1>13
<1> QED
  BY <1>8, <1>11, <1>12, <1>14, <1>15 DEF Grows

\* The entry that the pass visits.
LEMMA VisitedTyped ==
  ASSUME FloodTypes, Visiting
  PROVE  /\ fi \in 1..Len(DATAF) /\ sym_neighbors \in Seq(NgbEntry)
         /\ nw \in EntriesOf(sym_neighbors) /\ nw \in NgbEntry /\ nw.sym = tmp
         /\ NextSym(sym_neighbors, tmp) \in Addr \cup {NULL}
<1>0. DATAF \in Seq(FloodEntry) /\ Len(DATAF) \in Nat
  BY TypesOfData DEF TypedData
<1>1. fi \in 1..Len(DATAF)
  BY <1>0, TypesOfData DEF Visiting
<1>2. PICK l : l = sym_neighbors
  OBVIOUS
<1>3. l \in Seq(NgbEntry) /\ tmp \in Syms(l)
  BY <1>0, <1>1, <1>2, ListOfDatum DEF sym_neighbors, Visiting
<1> QED
  BY <1>1, <1>2, <1>3, PositionTyped DEF nw

LEMMA SendDataRequeues ==
  ASSUME FloodTypes, NEW w \in 1..MaxWait, send_data(w)
  PROVE  TypedData(DATAF') /\ Requeues
<1>0. /\ TypedData(DATAF) /\ now \in Nat /\ Visiting /\ nw.times_sent # MaxSent
      /\ now >= nw.wait_time /\ w \in wait_time(nw.times_sent + 1)
  BY TypesOfData DEF send_data
<1>1. PICK l : l = sym_neighbors
  OBVIOUS
<1>2. PICK e : e = nw
  OBVIOUS
<1>3. PICK k : k = fi
  OBVIOUS
<1>4. /\ k \in 1..Len(DATAF) /\ l \in Seq(NgbEntry)
      /\ e \in EntriesOf(l) /\ e \in NgbEntry /\ l = DATAF[k].sym_neighbors
  BY <1>0, <1>1, <1>2, <1>3, VisitedTyped DEF sym_neighbors
<1>5. PICK n : n = Requeued(e, now + w)
  OBVIOUS
<1>6. n \in NgbEntry
  <2>1. now + w \in Nat /\ e.times_sent # MaxSent
    BY <1>0, <1>2
  <2> QED
    BY <2>1, <1>4, <1>5, NextEntry
<1>7. PICK r : r = remove_elem(l, e.sym, e.wait_time)
  OBVIOUS
<1>8. r \in Seq(NgbEntry) /\ EntriesOf(r) \subseteq EntriesOf(l)
  BY <1>4, <1>7, RemoveElemTyped
<1>9. PICK m : m = add_elem(r, n)
  OBVIOUS
<1>10. m \in Seq(NgbEntry) /\ EntriesOf(m) \subseteq EntriesOf(r) \cup {n}
  BY <1>6, <1>8, <1>9, AddElemTyped
<1>11. DATAF' = [DATAF EXCEPT ![k].sym_neighbors = m]
  BY <1>1, <1>2, <1>3, <1>4, <1>5, <1>7, <1>9 DEF send_data, Requeued
<1>12. PICK G : G = [DATAF EXCEPT ![k].sym_neighbors = m]
  OBVIOUS
<1>13. PICK E : E = {n}
  OBVIOUS
<1>14. EntriesOf(m) \subseteq EntriesOf(DATAF[k].sym_neighbors) \cup E
  BY <1>4, <1>8, <1>10, <1>13
<1>15. TypedData(G) /\ SameBut(DATAF, G, IF E = {} THEN 0 ELSE k, n)
  BY <1>0, <1>4, <1>10, <1>12, <1>13, <1>14, UpdateTyped
<1>16. E # {}
  BY <1>13
<1>17. TypedData(DATAF') /\ SameBut(DATAF, DATAF', k, n)
  BY <1>11, <1>12, <1>15, <1>16
<1> QED
  BY <1>0, <1>2, <1>4, <1>5, <1>6, <1>17 DEF Requeues

\* Where a list is entered.
LEMMA EnterTyped ==
  ASSUME FloodTypes, NEW i \in Nat \ {0}, Enter(i)
  PROVE  fi' \in 0..Len(DATAF) /\ tmp' \in Addr \cup {NULL}
<1>0. DATAF \in Seq(FloodEntry) /\ Len(DATAF) \in Nat
  BY TypesOfData DEF TypedData
<1>1. CASE i > Len(DATAF)
  BY <1>0, <1>1 DEF Enter
<1>2. CASE ~(i > Len(DATAF))
  <2>1. i \in 1..Len(DATAF) /\ fi' = i
    BY <1>0, <1>2 DEF Enter
  <2>2. PICK l : l = DATAF[i].sym_neighbors
    OBVIOUS
  <2>3. l \in Seq(NgbEntry)
    BY <1>0, <2>1, <2>2, ListOfDatum
  <2>4. tmp' = FirstSym(l)
    BY <1>2, <2>2 DEF Enter
  <2>5. FirstSym(l) \in Addr \cup {NULL}
    <3>1. CASE l = <<>>
      BY <3>1 DEF FirstSym
    <3>2. CASE l # <<>>
      <4>1. l[1] \in NgbEntry
        BY <3>2, <2>3
      <4> QED
        BY <3>2, <4>1 DEF FirstSym, NgbEntry
    <3> QED
      BY <3>1, <3>2
  <2> QED
    BY <2>1, <2>4, <2>5
<1> QED
  BY <1>1, <1>2

\* Every step is of one of the four kinds.
LEMMA DataStep ==
  ASSUME FloodTypes, [FloodNext]_floodVars
  PROVE  /\ FloodTypes'
         /\ now' >= now
         /\ \/ DATAF' = DATAF
            \/ UNCHANGED now /\ (Shrinks \/ Grows \/ Requeues)
<1>0. /\ now \in Nat /\ live \subseteq Addr /\ TypedData(DATAF)
      /\ fi \in 0..Len(DATAF) /\ tmp \in Addr \cup {NULL}
      /\ Len(DATAF) \in Nat /\ now >= now
  BY TypesOfData DEF TypedData
<1>a. ASSUME now' \in Nat, live' \subseteq Addr, TypedData(DATAF'), fi' \in 0..Len(DATAF'),
             tmp' \in Addr \cup {NULL}
      PROVE  FloodTypes'
  BY <1>a DEF FloodTypes, FloodTypeOK, RecentDistinct, TypedData
<1>b. ASSUME TypedData(DATAF') PROVE 0 \in 0..Len(DATAF')
  BY <1>b DEF TypedData
<1>1. ASSUME NEW a \in Addr, join(a) PROVE FloodTypes' /\ UNCHANGED <<now, DATAF>>
  BY <1>0, <1>1, <1>a DEF join
<1>2. ASSUME NEW d \in Data, NEW S \in SUBSET live, NEW a,
             add_message_to_flood(d, S, a)
      PROVE  FloodTypes' /\ UNCHANGED now /\ Grows
  <2>1. TypedData(DATAF') /\ Grows
    BY <1>2, AddMessageGrows
  <2> QED
    BY <1>0, <1>2, <1>a, <1>b, <2>1 DEF add_message_to_flood
<1>3. ASSUME NEW d, NEW a, ack(d, a)
      PROVE  FloodTypes' /\ UNCHANGED now /\ (DATAF' = DATAF \/ Shrinks)
  <2>1. TypedData(DATAF') /\ (DATAF' = DATAF \/ Shrinks)
    BY <1>3, AckShrinks
  <2> QED
    BY <1>0, <1>3, <1>a, <1>b, <2>1 DEF ack
<1>4. ASSUME NEW a, remove_neighbor_everywhere(a) PROVE FloodTypes' /\ UNCHANGED now /\ Shrinks
  <2>1. TypedData(DATAF') /\ Shrinks
    BY <1>4, PurgeShrinks DEF remove_neighbor_everywhere
  <2> QED
    BY <1>0, <1>4, <1>a, <1>b, <2>1 DEF remove_neighbor_everywhere
<1>5. CASE Tick
  BY <1>0, <1>5, <1>a DEF Tick
<1>6. CASE flood_messages \/ not_due \/ end_of_list
  <2>1. PICK i \in Nat \ {0} : Enter(i)
    <3>1. 1 \in Nat \ {0} /\ fi + 1 \in Nat \ {0}
      BY <1>0
    <3> QED
      BY <1>6, <3>1 DEF flood_messages, not_due, end_of_list
  <2>2. fi' \in 0..Len(DATAF) /\ tmp' \in Addr \cup {NULL}
    BY <2>1, EnterTyped
  <2>3. UNCHANGED <<now, live, DATAF>>
    BY <1>6 DEF flood_messages, not_due, end_of_list
  <2> QED
    BY <1>0, <1>a, <2>2, <2>3
<1>7. CASE handle_inactive
  <2>1. TypedData(DATAF') /\ Shrinks
    BY <1>7, PurgeShrinks DEF handle_inactive
  <2>2. tmp' \in Addr \cup {NULL}
    BY <1>7, VisitedTyped DEF handle_inactive
  <2>3. Len(DATAF') = Len(DATAF)
    BY <2>1 DEF Shrinks, SameBut
  <2> QED
    BY <1>0, <1>7, <1>a, <2>1, <2>2, <2>3 DEF handle_inactive
<1>8. ASSUME NEW w \in 1..MaxWait, send_data(w)
      PROVE  FloodTypes' /\ UNCHANGED now /\ Requeues
  <2>1. TypedData(DATAF') /\ Requeues
    BY <1>8, SendDataRequeues
  <2>2. tmp' \in Addr \cup {NULL}
    BY <1>8, VisitedTyped DEF send_data
  <2>3. Len(DATAF') = Len(DATAF)
    BY <2>1 DEF Requeues, SameBut
  <2> QED
    BY <1>0, <1>8, <1>a, <2>1, <2>2, <2>3 DEF send_data
<1>9. CASE UNCHANGED floodVars
  BY <1>0, <1>9, <1>a DEF floodVars
<1> QED
  BY <1>0, <1>1, <1>2, <1>3, <1>4, <1>5, <1>6, <1>7, <1>8, <1>9 DEF FloodNext, FloodPass

LEMMA FloodTypesInit == FloodInit => FloodTypes
<1> SUFFICES ASSUME FloodInit PROVE FloodTypes
  OBVIOUS
<1>1. Len(DATAF) = 0 /\ DATAF \in Seq(FloodEntry)
  BY DEF FloodInit
<1> QED
  BY <1>1, FloodAssumption DEF FloodInit, FloodTypes, FloodTypeOK, RecentDistinct

LEMMA FloodTypesInvariant == FloodSafety => []FloodTypes
BY FloodTypesInit, DataStep, PTL DEF FloodSafety

\* DATAF and the position of the pass keep their types, and no datum is transmitted
\* more than MaxSent times to one neighbour.
THEOREM FloodTypeCorrect == FloodSafety => []FloodTypeOK
BY FloodTypesInvariant, PTL DEF FloodTypes

\* DATAF holds at most NBDATA data and each index once (add_limited, data).
THEOREM FloodRecentDistinct == FloodSafety => []RecentDistinct
BY FloodTypesInvariant, PTL DEF FloodTypes

\* A neighbour that has acknowledged a datum, sent it, or was given up, is never
\* sent it again while the datum is in DATAF: no handler and no pass puts a
\* neighbour back into the list of a datum (tlv.c, util.c).
THEOREM FloodNeverReflooded == FloodSafety => NeverReflooded
<1> DEFINE Only == \A d \in Indices \cap Indices' : Pending(d)' \subseteq Pending(d)
<1>1. ASSUME FloodTypes, [FloodNext]_floodVars PROVE [Only]_floodVars
  <2> SUFFICES ASSUME NEW d \in Indices \cap Indices', NEW s \in Pending(d)'
               PROVE  s \in Pending(d)
    OBVIOUS
  <2>0. PICK f \in 1..Len(DATAF') : /\ DATAF'[f].index = d
                                    /\ s \in Syms(DATAF'[f].sym_neighbors)
    BY DEF Pending
  <2>1. PICK x \in EntriesOf(DATAF'[f].sym_neighbors) : DATAF'[f].index = d /\ s = x.sym
    BY <2>0 DEF Syms, EntriesOf
  <2>2. ASSUME NEW g \in 1..Len(DATAF), NEW y \in EntriesOf(DATAF[g].sym_neighbors),
               DATAF[g].index = d, s = y.sym
        PROVE  s \in Pending(d)
    <3>1. s \in Syms(DATAF[g].sym_neighbors)
      BY <2>2 DEF Syms, EntriesOf
    <3> QED
      BY <2>2, <3>1 DEF Pending
  <2>3. DATAF' = DATAF \/ Shrinks \/ Grows \/ Requeues
    BY <1>1, DataStep
  <2>4. CASE DATAF' = DATAF
    BY <2>1, <2>2, <2>4
  <2>5. CASE Shrinks
    <3>1. /\ f \in 1..Len(DATAF) /\ DATAF[f].index = d
          /\ EntriesOf(DATAF'[f].sym_neighbors) \subseteq
               EntriesOf(DATAF[f].sym_neighbors) \cup (IF f = 0 THEN {0} ELSE {})
      BY <2>1, <2>5 DEF Shrinks, SameBut
    <3>2. f # 0
      BY <3>1, <1>1 DEF FloodTypes, FloodTypeOK
    <3> QED
      BY <2>1, <2>2, <3>1, <3>2
  <2>6. CASE Grows
    <3>1. \E j \in 1..Len(DATAF) : DATAF'[f] = DATAF[j]
      BY <2>1, <2>6 DEF Grows
    <3> QED
      BY <2>1, <2>2, <3>1
  <2>7. CASE Requeues
    <3>1. PICK k \in 1..Len(DATAF), e \in NgbEntry, w \in 1..MaxWait :
            /\ e \in EntriesOf(DATAF[k].sym_neighbors) /\ e.times_sent # MaxSent
            /\ SameBut(DATAF, DATAF', k, Requeued(e, now + w))
      BY <2>7 DEF Requeues
    <3>2. /\ f \in 1..Len(DATAF) /\ DATAF[f].index = d
          /\ EntriesOf(DATAF'[f].sym_neighbors) \subseteq EntriesOf(DATAF[f].sym_neighbors)
               \cup (IF f = k THEN {Requeued(e, now + w)} ELSE {})
      BY <2>1, <3>1 DEF SameBut
    <3>3. CASE x \in EntriesOf(DATAF[f].sym_neighbors)
      BY <2>1, <2>2, <3>2, <3>3
    <3>4. CASE f = k /\ x = Requeued(e, now + w)
      <4>1. now + w \in Nat
        BY <1>1 DEF FloodTypes, FloodTypeOK
      <4>2. x.sym = e.sym
        BY <3>1, <3>4, <4>1, NextEntry
      <4> QED
        BY <2>1, <2>2, <3>1, <3>2, <3>4, <4>2
    <3> QED
      BY <2>1, <3>2, <3>3, <3>4
  <2> QED
    BY <2>3, <2>4, <2>5, <2>6, <2>7
<1> QED
  BY <1>1, FloodTypesInvariant, PTL DEF FloodSafety, NeverReflooded
-----------------------------------------------------------------------------
\* The delays of wait_time() add up: after t transmissions the next is not due before
\* 2^t seconds after the datum came.
Patient(e, born, t) ==
  /\ e.wait_time >= born + 2^e.times_sent
  /\ e.times_sent # 0 => t >= born + 2^(e.times_sent - 1)

Aged ==
  \A f \in 1..Len(DATAF) : \A e \in EntriesOf(DATAF[f].sym_neighbors) :
    Patient(e, DATAF[f].born, now)

LEMMA FreshPatient ==
  ASSUME now \in Nat, NEW e, Fresh(e) PROVE Patient(e, now, now)
<1>1. 2^0 = 1
  OBVIOUS
<1>2. e.times_sent = 0 /\ e.wait_time = now + 1
  BY DEF Fresh
<1>3. e.wait_time >= now + 1
  BY <1>2
<1> QED
  BY <1>1, <1>2, <1>3 DEF Patient

LEMMA RequeuedPatient ==
  ASSUME now \in Nat, NEW born \in Nat, NEW e \in NgbEntry, Patient(e, born, now),
         now >= e.wait_time, NEW w \in Nat, w \in wait_time(e.times_sent + 1),
         NEW n, n = Requeued(e, now + w)
  PROVE  Patient(n, born, now)
<1>1. PICK t \in Nat : t = e.times_sent
  BY FloodAssumption DEF NgbEntry
<1>2. n.times_sent = t + 1 /\ n.wait_time = now + w
  BY <1>1 DEF Requeued, NgbEntry
<1>3. PICK p \in Nat : p = 2^t
  BY PowersOfTwo
<1>4. 2^(t + 1) = p + p
  BY <1>3, PowersOfTwo
<1>5. e.wait_time \in Nat /\ e.wait_time >= born + p
  BY <1>1, <1>3 DEF Patient, NgbEntry
<1>6. t + 1 # 0 /\ (t + 1) - 1 = t
  OBVIOUS
<1>7. w >= p
  <2>1. w \in 2^((t + 1) - 1) .. 2^(t + 1) - 1
    BY <1>1, <1>6 DEF wait_time
  <2> QED
    BY <2>1, <1>3, <1>4, <1>6
<1>8. now + w >= born + (p + p) /\ now >= born + p
  BY <1>5, <1>7
<1> QED
  BY <1>2, <1>3, <1>4, <1>6, <1>8 DEF Patient

LEMMA AgedNext == FloodTypes /\ Aged /\ [FloodNext]_floodVars => Aged'
<1> SUFFICES ASSUME FloodTypes, Aged, [FloodNext]_floodVars,
                    NEW f \in 1..Len(DATAF'), NEW x \in EntriesOf(DATAF'[f].sym_neighbors)
             PROVE  Patient(x, DATAF'[f].born, now')
  BY DEF Aged
<1>0. /\ now \in Nat /\ now' \in Nat /\ now' >= now /\ DATAF \in Seq(FloodEntry)
      /\ Len(DATAF) \in Nat
  BY DataStep DEF FloodTypes, FloodTypeOK
<1>1. ASSUME NEW g \in 1..Len(DATAF), NEW y \in EntriesOf(DATAF[g].sym_neighbors)
      PROVE  /\ DATAF[g].born \in Nat /\ y \in NgbEntry
             /\ Patient(y, DATAF[g].born, now)
  <2>1. DATAF[g].sym_neighbors \in Seq(NgbEntry)
    BY <1>0, ListOfDatum
  <2>2. DATAF[g] \in FloodEntry
    BY <1>0
  <2>3. DATAF[g].born \in Nat
    BY <2>2 DEF FloodEntry
  <2>4. y \in NgbEntry
    BY <1>1, <2>1 DEF EntriesOf
  <2> QED
    BY <1>1, <2>3, <2>4 DEF Aged
<1>2. ASSUME NEW y \in NgbEntry, NEW born \in Nat, Patient(y, born, now)
      PROVE  Patient(y, born, now')
  <2>1. y.times_sent = 0 \/ (y.times_sent - 1 \in Nat)
    BY FloodAssumption DEF NgbEntry
  <2>2. y.times_sent # 0 => 2^(y.times_sent - 1) \in Nat
    BY <2>1, PowersOfTwo
  <2> QED
    BY <1>0, <1>2, <2>2 DEF Patient
<1>3. DATAF' = DATAF \/ (UNCHANGED now /\ (Shrinks \/ Grows \/ Requeues))
  BY DataStep
<1>4. CASE DATAF' = DATAF
  BY <1>1, <1>2, <1>4
<1>5. CASE Shrinks
  <2>1. /\ f \in 1..Len(DATAF) /\ DATAF'[f].born = DATAF[f].born
        /\ EntriesOf(DATAF'[f].sym_neighbors) \subseteq
             EntriesOf(DATAF[f].sym_neighbors) \cup (IF f = 0 THEN {0} ELSE {})
    BY <1>5 DEF Shrinks, SameBut
  <2>2. f # 0
    BY <2>1, <1>0
  <2> QED
    BY <1>1, <1>2, <2>1, <2>2
<1>6. CASE UNCHANGED now /\ Grows
  <2>1. PICK e \in FloodEntry :
          /\ e.born = now /\ \A y \in EntriesOf(e.sym_neighbors) : Fresh(y)
          /\ DATAF'[f] = e \/ \E j \in 1..Len(DATAF) : DATAF'[f] = DATAF[j]
    BY <1>6 DEF Grows
  <2>2. CASE DATAF'[f] = e
    <3>1. Patient(x, now, now)
      BY <1>0, <2>1, <2>2, FreshPatient
    <3> QED
      BY <1>6, <2>1, <2>2, <3>1
  <2>3. CASE \E j \in 1..Len(DATAF) : DATAF'[f] = DATAF[j]
    BY <1>1, <1>2, <2>3
  <2> QED
    BY <2>1, <2>2, <2>3
<1>7. CASE UNCHANGED now /\ Requeues
  <2>1. PICK k \in 1..Len(DATAF), e \in NgbEntry, w \in 1..MaxWait :
          /\ e \in EntriesOf(DATAF[k].sym_neighbors)
          /\ now >= e.wait_time /\ w \in wait_time(e.times_sent + 1)
          /\ SameBut(DATAF, DATAF', k, Requeued(e, now + w))
    BY <1>7 DEF Requeues
  <2>2. /\ f \in 1..Len(DATAF) /\ DATAF'[f].born = DATAF[f].born
        /\ EntriesOf(DATAF'[f].sym_neighbors) \subseteq EntriesOf(DATAF[f].sym_neighbors)
             \cup (IF f = k THEN {Requeued(e, now + w)} ELSE {})
    BY <2>1 DEF SameBut
  <2>3. CASE x \in EntriesOf(DATAF[f].sym_neighbors)
    BY <1>1, <1>2, <2>2, <2>3
  <2>4. CASE f = k /\ x = Requeued(e, now + w)
    <3>1. DATAF[f].born \in Nat /\ Patient(e, DATAF[f].born, now)
      BY <1>1, <2>1, <2>4
    <3>2. Patient(x, DATAF[f].born, now)
      BY <1>0, <2>1, <2>4, <3>1, RequeuedPatient
    <3> QED
      BY <1>7, <2>2, <3>2
  <2> QED
    BY <2>2, <2>3, <2>4
<1> QED
  BY <1>3, <1>4, <1>5, <1>6, <1>7

\* A neighbour is only given up for a datum at least 2^(MaxSent - 1) seconds old,
\* whatever delays wait_time() draws.
THEOREM FloodNoHastyGiveUp == FloodSafety => []NoHastyGiveUp
<1>1. FloodInit => Aged
  BY DEF FloodInit, Aged
<1>2. Aged => NoHastyGiveUp
  BY FloodAssumption DEF Aged, Patient, NoHastyGiveUp, EntriesOf
<1> QED
  BY <1>1, <1>2, AgedNext, FloodTypesInvariant, PTL DEF FloodSafety
-----------------------------------------------------------------------------
(***************************************************************************)
(* The dates of entries, and the hypotheses about them.                    *)
(***************************************************************************)
\* The clock has started, and stops at its bound.
Clock == Uptime <= now /\ (now <= Uptime \/ now <= MaxTime)

\* A date that a step sets is one of the next MaxWait seconds.
LEMMA DateAhead ==
  ASSUME NEW s \in Nat, NEW n \in Nat, NEW k \in Nat, NEW m \in Nat, NEW w \in 1..m,
         s <= n, n <= k
  PROVE  s < n + w /\ n + w <= k + m
OBVIOUS

LEMMA DatedNext ==
  ASSUME FloodTypes, Clock, DatedData, [FloodNext]_floodVars
  PROVE  DatedData'
<1> SUFFICES ASSUME NEW f \in 1..Len(DATAF'), NEW x \in EntriesOf(DATAF'[f].sym_neighbors)
             PROVE  Uptime < x.wait_time /\ x.wait_time <= now' + MaxWait
  BY DEF DatedData
<1>0. /\ now \in Nat /\ Uptime \in Nat /\ MaxWait \in Nat /\ 1 \in 1..MaxWait
      /\ Uptime <= now /\ now' \in Nat /\ now <= now'
      /\ FloodTypes'
  BY FloodAssumption, MaxWaitPositive, DataStep DEF FloodTypes, FloodTypeOK, Clock
<1>1. ASSUME NEW w \in 1..MaxWait, x.wait_time = now + w
      PROVE  Uptime < x.wait_time /\ x.wait_time <= now' + MaxWait
  BY <1>0, <1>1, DateAhead
<1>2. ASSUME NEW g \in 1..Len(DATAF), x \in EntriesOf(DATAF[g].sym_neighbors)
      PROVE  Uptime < x.wait_time /\ x.wait_time <= now' + MaxWait
  <2>1. Uptime < x.wait_time /\ x.wait_time <= now + MaxWait
    BY <1>2 DEF DatedData
  <2>2. x.wait_time \in Nat
    <3>1. DATAF \in Seq(FloodEntry)
      BY DEF FloodTypes, FloodTypeOK
    <3>2. PICK l : l = DATAF[g].sym_neighbors
      OBVIOUS
    <3>3. l \in Seq(NgbEntry)
      BY <3>1, <3>2, ListOfDatum
    <3>4. x \in NgbEntry
      BY <1>2, <3>2, <3>3 DEF EntriesOf
    <3> QED
      BY <3>4 DEF NgbEntry
  <2> QED
    BY <1>0, <2>1, <2>2
<1>3. DATAF' = DATAF \/ Shrinks \/ Grows \/ Requeues
  BY DataStep
<1>4. CASE DATAF' = DATAF
  BY <1>2, <1>4
<1>5. CASE Shrinks
  <2>1. /\ f \in 1..Len(DATAF)
        /\ EntriesOf(DATAF'[f].sym_neighbors) \subseteq
             EntriesOf(DATAF[f].sym_neighbors) \cup (IF f = 0 THEN {0} ELSE {})
    BY <1>5 DEF Shrinks, SameBut
  <2>2. f # 0
    BY <2>1 DEF FloodTypes, FloodTypeOK
  <2> QED
    BY <1>2, <2>1, <2>2
<1>6. CASE Grows
  <2>1. Fresh(x) \/ \E j \in 1..Len(DATAF) : DATAF'[f] = DATAF[j]
    BY <1>6 DEF Grows
  <2> QED
    BY <1>0, <1>1, <1>2, <2>1 DEF Fresh
<1>7. CASE Requeues
  <2>1. PICK k \in 1..Len(DATAF), e \in NgbEntry, w \in 1..MaxWait :
          /\ e.times_sent # MaxSent
          /\ SameBut(DATAF, DATAF', k, Requeued(e, now + w))
    BY <1>7 DEF Requeues
  <2>2. /\ f \in 1..Len(DATAF)
        /\ EntriesOf(DATAF'[f].sym_neighbors) \subseteq EntriesOf(DATAF[f].sym_neighbors)
             \cup (IF f = k THEN {Requeued(e, now + w)} ELSE {})
    BY <2>1 DEF SameBut
  <2>3. x \in EntriesOf(DATAF[f].sym_neighbors) \/ x = Requeued(e, now + w)
    BY <2>2
  <2>4. now + w \in Nat
    BY <1>0
  <2>5. x = Requeued(e, now + w) => x.wait_time = now + w
    BY <2>1, <2>4, NextEntry
  <2> QED
    BY <1>1, <1>2, <2>2, <2>3, <2>5
<1> QED
  BY <1>3, <1>4, <1>5, <1>6, <1>7

LEMMA ClockNext ==
  ASSUME FloodTypes, Clock, [FloodNext]_floodVars
  PROVE  Clock'
<1>0. now \in Nat /\ Uptime \in Nat /\ MaxTime \in Nat
  BY FloodAssumption DEF FloodTypes, FloodTypeOK
<1>1. CASE Tick
  BY <1>0, <1>1 DEF Tick, Clock
<1>2. CASE UNCHANGED now
  BY <1>2 DEF Clock
<1>3. Tick \/ UNCHANGED now
  BY DEF FloodNext, FloodPass, floodVars, join, add_message_to_flood, ack,
     remove_neighbor_everywhere, flood_messages, handle_inactive, send_data, not_due,
     end_of_list
<1> QED
  BY <1>1, <1>2, <1>3

DatesInv == FloodTypes /\ Clock /\ DatedData

LEMMA DatesInvInit == FloodInit => DatesInv
<1> SUFFICES ASSUME FloodInit PROVE DatesInv
  OBVIOUS
<1>1. 1..Len(DATAF) = {}
  BY DEF FloodInit
<1>2. Clock
  BY FloodAssumption DEF FloodInit, Clock
<1> QED
  BY <1>1, <1>2, FloodTypesInit DEF DatesInv, DatedData

LEMMA DatesInvariant == FloodSafety => []DatesInv
<1>1. DatesInv /\ [FloodNext]_floodVars => DatesInv'
  BY DataStep, DatedNext, ClockNext DEF DatesInv
<1> QED
  BY <1>1, DatesInvInit, PTL DEF FloodSafety

\* The date of an entry.
LEMMA EntryDate ==
  ASSUME DatesInv, NEW f \in 1..Len(DATAF), NEW e \in EntriesOf(DATAF[f].sym_neighbors)
  PROVE  /\ e.wait_time \in Nat /\ Uptime < e.wait_time /\ e.wait_time <= now + MaxWait
         /\ now \in Nat /\ Uptime <= now /\ (now <= Uptime \/ now <= MaxTime)
<1>1. DATAF \in Seq(FloodEntry) /\ now \in Nat
  BY DEF DatesInv, FloodTypes, FloodTypeOK
<1>2. PICK l : l = DATAF[f].sym_neighbors
  OBVIOUS
<1>3. l \in Seq(NgbEntry)
  BY <1>1, <1>2, ListOfDatum
<1>4. e \in NgbEntry
  BY <1>2, <1>3 DEF EntriesOf
<1> QED
  BY <1>1, <1>4 DEF DatesInv, Clock, DatedData, NgbEntry

\* The first hypothesis holds of a process that lives between two multiples of 2^16 seconds
\* (18 hours), as read on the clock of its machine.
THEOREM FloodNoZeroDate ==
  ASSUME \A u \in (Uptime + 1)..(MaxTime + MaxWait) : u % 65536 # 0,
         Uptime <= MaxTime
  PROVE  FloodSafety => []NoZeroDate
<1>1. ASSUME DatesInv PROVE NoZeroDate
  <2> SUFFICES ASSUME NEW f \in 1..Len(DATAF), NEW e \in EntriesOf(DATAF[f].sym_neighbors)
               PROVE  e.wait_time % 65536 # 0
    BY DEF NoZeroDate
  <2>1. /\ e.wait_time \in Nat /\ Uptime < e.wait_time /\ e.wait_time <= now + MaxWait
        /\ now \in Nat /\ (now <= Uptime \/ now <= MaxTime)
    BY <1>1, EntryDate
  <2>2. PICK u : u = e.wait_time
    OBVIOUS
  <2>3. u \in (Uptime + 1)..(MaxTime + MaxWait)
    BY <2>1, <2>2, FloodAssumption, MaxWaitPositive
  <2> QED
    BY <2>2, <2>3
<1> QED
  BY <1>1, DatesInvariant, PTL

\* The second holds of a process that lives less than 2^15 seconds (9 hours), and of every
\* process whose loop comes round in time (Peer_proofs).
THEOREM FloodPrompt ==
  ASSUME MaxTime + MaxWait <= Uptime + ShortMax, MaxWait <= ShortMax
  PROVE  FloodSafety => []Prompt
<1>1. ASSUME DatesInv PROVE Prompt
  <2> SUFFICES ASSUME NEW f \in 1..Len(DATAF), NEW e \in EntriesOf(DATAF[f].sym_neighbors)
               PROVE  now + MaxWait <= e.wait_time + ShortMax
    BY DEF Prompt
  <2>1. /\ e.wait_time \in Nat /\ Uptime < e.wait_time
        /\ now \in Nat /\ (now <= Uptime \/ now <= MaxTime)
    BY <1>1, EntryDate
  <2>2. ShortMax \in Nat
    BY DEF ShortMax
  <2> QED
    BY <2>1, <2>2, FloodAssumption, MaxWaitPositive
<1> QED
  BY <1>1, DatesInvariant, PTL

\* As long as both hold, the invariant does.
LEMMA FloodInvariant == FloodSafety /\ []NoZeroDate /\ []Prompt => []FloodInv
<1>1. FloodInit => FloodInv
  BY FloodInitInv
<1>2. FloodInv /\ DatesInv /\ NoZeroDate /\ Prompt /\ [FloodNext]_floodVars => FloodInv'
  BY FloodNextInv DEF DatesInv
<1> QED
  BY <1>1, <1>2, DatesInvariant, PTL DEF FloodSafety

\* A neighbour is at most once in the list of a datum, as long as the dates can be told
\* apart (add_elem, remove_elem).
THEOREM FloodOneEntry ==
  FloodSafety /\ []NoZeroDate /\ []Prompt => []OneEntryPerNeighbor
BY FloodInvariant, FloodInvImplies, PTL

\* Until then no entry points to a neighbour that has left the tree: with date zero one
\* may (remove_neighbor_everywhere).
THEOREM FloodNoDangling ==
  FloodSafety /\ []NoZeroDate /\ []Prompt => []NoDangling
BY FloodInvariant, FloodInvImplies, PTL

\* The entry saved in tmp2 by flood_message_to_neighbours() is still in the list
\* when it is visited.
THEOREM FloodCursorValid ==
  FloodSafety /\ []NoZeroDate /\ []Prompt => []CursorValid
BY FloodInvariant, FloodInvImplies, PTL
-----------------------------------------------------------------------------
(***************************************************************************)
(* The order of the lists.  The result of compare_n_s() has the sign of    *)
(* the difference of two dates as long as that fits a short.               *)
(***************************************************************************)
SortedList(l) ==
  \A i, j \in 1..Len(l) : i < j => l[i].wait_time <= l[j].wait_time

\* Taking an entry out keeps the order of the others.
LEMMA RemoveSorted ==
  ASSUME NEW l \in Seq(NgbEntry), SortedList(l), NEW sym, NEW w,
         NEW r, r = remove_elem(l, sym, w)
  PROVE  SortedList(r)
<1>0. Len(l) \in Nat
  OBVIOUS
<1>1. PICK k : k = first_equal(l, sym, w)
  OBVIOUS
<1>2. k = 0 \/ k \in 1..Len(l)
  BY <1>0, <1>1, FirstEqual
<1>3. CASE k = 0
  BY <1>1, <1>3 DEF remove_elem
<1>4. CASE k \in 1..Len(l)
  <2>1. k # 0
    BY <1>0, <1>4
  <2>2. r = RemoveAt(l, k)
    BY <1>1, <2>1 DEF remove_elem
  <2>3. Removed(NgbEntry, l, k, r)
    BY <1>4, <2>2, RemoveAtList
  <2> DEFINE p(i) == IF i < k THEN i ELSE i + 1
  <2>4. \A i \in 1..Len(r) : p(i) \in 1..Len(l) /\ r[i] = l[p(i)]
    BY <1>0, <1>4, <2>3 DEF Removed
  <2>5. \A i, j \in 1..Len(r) : i < j => p(i) < p(j)
    BY <1>0, <1>4, <2>3 DEF Removed
  <2> HIDE DEF p
  <2> QED
    BY <2>4, <2>5 DEF SortedList
<1> QED
  BY <1>2, <1>3, <1>4

\* Where add_elem() puts the entry of a neighbour that is not in the list.
Placed(l, n, k, r) ==
  /\ Inserted(NgbEntry, l, k, n, r)
  /\ \A i \in 1..Len(l) : i < k => l[i].wait_time < n.wait_time
  /\ \A i \in 1..Len(l) : k <= i => n.wait_time <= l[i].wait_time

LEMMA AddPlaced ==
  ASSUME NEW l \in Seq(NgbEntry), SortedList(l), NEW n \in NgbEntry,
         Exact(l, n.wait_time), n.sym \notin Syms(l), NEW r, r = add_elem(l, n)
  PROVE  \E k \in 1..(Len(l) + 1) : Placed(l, n, k, r)
<1>0. Len(l) \in Nat
  OBVIOUS
<1>1. PICK k : k = first_not_less(l, n.sym, n.wait_time)
  OBVIOUS
<1>2. ASSUME NEW i \in 1..Len(l)
      PROVE  /\ compare_n_s(l[i], n.sym, n.wait_time) # 0
             /\ compare_n_s(l[i], n.sym, n.wait_time) >= 0
                <=> n.wait_time <= l[i].wait_time
             /\ l[i].wait_time \in Int /\ n.wait_time \in Int
  <2>1. l[i].sym # n.sym
    BY DEF Syms
  <2>2. PICK u : u = l[i].wait_time
    OBVIOUS
  <2>3. PICK v \in Nat : v = n.wait_time
    BY DEF NgbEntry
  <2>4. u \in Int /\ v \in Int /\ Short(u - v) = u - v
    BY <2>2, <2>3 DEF Exact
  <2>5. CASE u = v
    <3>1. compare_n_s(l[i], n.sym, n.wait_time) = 1
      BY <2>1, <2>2, <2>3, <2>5, Zenon DEF compare_n_s
    <3> QED
      BY <3>1, <2>2, <2>3, <2>4, <2>5
  <2>6. CASE u # v
    <3>1. compare_n_s(l[i], n.sym, n.wait_time) = Short(l[i].wait_time - n.wait_time)
      BY <2>1, <2>2, <2>3, <2>6, Zenon DEF compare_n_s
    <3> QED
      BY <3>1, <2>2, <2>3, <2>4, <2>6
  <2> QED
    BY <2>5, <2>6
<1>3. \/ k = 0 /\ \A i \in 1..Len(l) : ~(compare_n_s(l[i], n.sym, n.wait_time) >= 0)
      \/ /\ k \in 1..Len(l) /\ compare_n_s(l[k], n.sym, n.wait_time) >= 0
         /\ \A i \in 1..(k - 1) : ~(compare_n_s(l[i], n.sym, n.wait_time) >= 0)
  BY <1>0, <1>1, FirstNotLess
<1>4. CASE k = 0 /\ \A i \in 1..Len(l) : ~(compare_n_s(l[i], n.sym, n.wait_time) >= 0)
  <2>1. r = Append(l, n)
    BY <1>1, <1>4 DEF add_elem
  <2>2. PICK h : h = Len(l) + 1
    OBVIOUS
  <2>3. Inserted(NgbEntry, l, h, n, r)
    BY <1>0, <2>1, <2>2 DEF Inserted
  <2>4. \A i \in 1..Len(l) : l[i].wait_time < n.wait_time
    BY <1>2, <1>4
  <2>5. h \in 1..(Len(l) + 1) /\ \A i \in 1..Len(l) : ~(h <= i)
    BY <1>0, <2>2
  <2> QED
    BY <2>3, <2>4, <2>5 DEF Placed
<1>5. CASE /\ k \in 1..Len(l) /\ compare_n_s(l[k], n.sym, n.wait_time) >= 0
           /\ \A i \in 1..(k - 1) : ~(compare_n_s(l[i], n.sym, n.wait_time) >= 0)
  <2>1. k # 0 /\ k \in 1..(Len(l) + 1)
    BY <1>0, <1>5
  <2>2. r = InsertAt(l, k, n)
    BY <1>1, <1>2, <1>5, <2>1 DEF add_elem
  <2>3. Inserted(NgbEntry, l, k, n, r)
    BY <1>5, <2>2, InsertAtList
  <2>4. ASSUME NEW i \in 1..Len(l), i < k PROVE l[i].wait_time < n.wait_time
    <3>1. i \in 1..(k - 1)
      BY <1>0, <1>5, <2>4
    <3> QED
      BY <1>2, <1>5, <3>1
  <2>5. ASSUME NEW i \in 1..Len(l), k <= i PROVE n.wait_time <= l[i].wait_time
    <3>1. n.wait_time <= l[k].wait_time
      BY <1>2, <1>5
    <3>2. k = i \/ l[k].wait_time <= l[i].wait_time
      BY <1>0, <1>5, <2>5 DEF SortedList
    <3> QED
      BY <1>2, <1>5, <3>1, <3>2
  <2> QED
    BY <2>1, <2>3, <2>4, <2>5 DEF Placed
<1> QED
  BY <1>3, <1>4, <1>5

LEMMA PlacedSorted ==
  ASSUME NEW l \in Seq(NgbEntry), SortedList(l), NEW n \in NgbEntry,
         NEW k \in 1..(Len(l) + 1), NEW r, Placed(l, n, k, r)
  PROVE  SortedList(r)
<1>0. Len(l) \in Nat /\ Len(r) = Len(l) + 1 /\ n.wait_time \in Nat
  BY DEF Placed, Inserted, NgbEntry
<1>1. \A i \in 1..Len(l) : l[i].wait_time \in Nat
  <2>1. \A i \in 1..Len(l) : l[i] \in NgbEntry
    OBVIOUS
  <2> QED
    BY <2>1 DEF NgbEntry
<1>2. ASSUME NEW i \in 1..Len(r)
      PROVE  /\ i < k => i \in 1..Len(l) /\ r[i] = l[i] /\ l[i].wait_time < n.wait_time
             /\ i = k => r[i] = n
             /\ k < i => i - 1 \in 1..Len(l) /\ r[i] = l[i - 1]
                         /\ n.wait_time <= l[i - 1].wait_time
  <2>1. i < k => i \in 1..Len(l)
    BY <1>0
  <2>2. k < i => i - 1 \in 1..Len(l) /\ k <= i - 1 /\ ~(i < k) /\ i # k
    BY <1>0
  <2>3. i = k => ~(i < k)
    BY <1>0
  <2> QED
    BY <2>1, <2>2, <2>3 DEF Placed, Inserted
<1> SUFFICES ASSUME NEW i \in 1..Len(r), NEW j \in 1..Len(r), i < j
             PROVE  r[i].wait_time <= r[j].wait_time
  BY DEF SortedList
<1>3. CASE j < k
  <2>1. i < k
    BY <1>0, <1>3
  <2> QED
    BY <1>2, <1>3, <2>1 DEF SortedList
<1>4. CASE i < k /\ j = k
  BY <1>0, <1>1, <1>2, <1>4
<1>5. CASE i < k /\ k < j
  BY <1>0, <1>1, <1>2, <1>5
<1>6. CASE i = k
  <2>1. k < j
    BY <1>6
  <2> QED
    BY <1>2, <1>6, <2>1
<1>7. CASE k < i
  <2>1. k < j /\ i - 1 < j - 1
    BY <1>0, <1>7
  <2> QED
    BY <1>2, <1>7, <2>1 DEF SortedList
<1> QED
  BY <1>0, <1>3, <1>4, <1>5, <1>6, <1>7

\* Every list is sorted.
SortedData == \A f \in 1..Len(DATAF) : SortedList(DATAF[f].sym_neighbors)

\* A list of DATAF after a purge or an acknowledgement.
LEMMA PurgeSorted ==
  ASSUME FloodTypes, SortedData, NEW a, DATAF' = PurgeAll(DATAF, a)
  PROVE  SortedData'
<1>0. DATAF \in Seq(FloodEntry) /\ DOMAIN DATAF = 1..Len(DATAF) /\ Len(DATAF') = Len(DATAF)
  BY PurgeShrinks DEF FloodTypes, FloodTypeOK, Shrinks, SameBut
<1> SUFFICES ASSUME NEW f \in 1..Len(DATAF)
             PROVE  SortedList(DATAF'[f].sym_neighbors)
  BY <1>0 DEF SortedData
<1>1. PICK l : l = DATAF[f].sym_neighbors
  OBVIOUS
<1>2. l \in Seq(NgbEntry) /\ SortedList(l)
  BY <1>0, <1>1, ListOfDatum DEF SortedData
<1>3. PICK r : r = remove_elem(l, a, 0)
  OBVIOUS
<1>4. SortedList(r)
  BY <1>2, <1>3, RemoveSorted
<1>5. DATAF'[f] = [DATAF[f] EXCEPT !.sym_neighbors = r] \/ DATAF'[f] = DATAF[f]
  BY <1>0, <1>1, <1>3 DEF PurgeAll
<1>6. DATAF[f] \in FloodEntry
  BY <1>0
<1>7. DATAF'[f].sym_neighbors = r \/ DATAF'[f].sym_neighbors = l
  BY <1>1, <1>5, <1>6 DEF FloodEntry
<1> QED
  BY <1>2, <1>4, <1>7

\* One list of DATAF is replaced by a sorted one.
LEMMA UpdateSorted ==
  ASSUME FloodTypes, SortedData, NEW k \in 1..Len(DATAF), NEW m, SortedList(m),
         DATAF' = [DATAF EXCEPT ![k].sym_neighbors = m]
  PROVE  SortedData'
<1>0. /\ DATAF \in Seq(FloodEntry) /\ DOMAIN DATAF = 1..Len(DATAF) /\ Len(DATAF) \in Nat
      /\ Len(DATAF') = Len(DATAF)
  BY DEF FloodTypes, FloodTypeOK
<1> SUFFICES ASSUME NEW f \in 1..Len(DATAF)
             PROVE  SortedList(DATAF'[f].sym_neighbors)
  BY <1>0 DEF SortedData
<1>1. DATAF[f] \in FloodEntry
  BY <1>0
<1>2. CASE f = k
  <2>1. DATAF'[f] = [DATAF[f] EXCEPT !.sym_neighbors = m]
    BY <1>0, <1>2
  <2>2. DATAF'[f].sym_neighbors = m
    BY <1>1, <2>1 DEF FloodEntry
  <2> QED
    BY <2>2
<1>3. CASE f # k
  <2>1. DATAF'[f] = DATAF[f]
    BY <1>0, <1>3
  <2> QED
    BY <2>1 DEF SortedData
<1> QED
  BY <1>2, <1>3

\* In the list of a datum that the pass walks, the entries before the cursor have been
\* sent and are not due.
Past(e) == now < e.wait_time /\ e.times_sent # 0

Done(l, a) ==
  /\ \A p \in 1..Len(l) : l[p].sym = a =>
       \A i \in 1..Len(l) : i < p => Past(l[i])
  /\ a = NULL => \A i \in 1..Len(l) : Past(l[i])

PassInv == fi # 0 => Done(sym_neighbors, tmp)

\* The entry of a neighbour is the one that remove_elem() takes out.
LEMMA RemovePlace ==
  ASSUME NEW S, NEW l, GoodList(l, S), NEW p \in 1..Len(l), NEW a, l[p].sym = a,
         NEW w, Told(l, w), NEW r, r = remove_elem(l, a, w)
  PROVE  Removed(NgbEntry, l, p, r)
<1>0. l \in Seq(NgbEntry) /\ Len(l) \in Nat
  BY DEF GoodList
<1>1. PICK k : k = first_equal(l, a, w)
  OBVIOUS
<1>2. \A i \in 1..Len(l) : compare_n_s(l[i], a, w) = 0 <=> l[i].sym = a
  BY Compare DEF Told
<1>3. k \in 1..Len(l) /\ l[k].sym = a
  BY <1>0, <1>1, <1>2, FirstEqual
<1>4. k = p /\ k # 0
  BY <1>0, <1>3 DEF GoodList
<1>5. r = RemoveAt(l, k)
  BY <1>1, <1>4 DEF remove_elem
<1>6. Removed(NgbEntry, l, k, r)
  BY <1>0, <1>3, <1>5, RemoveAtList
<1> QED
  BY <1>4, <1>6

\* The next entry takes the place of one that is taken out.
LEMMA NextDone ==
  ASSUME NEW S, NEW l, GoodList(l, S), NEW p \in 1..Len(l), NEW a, l[p].sym = a,
         Done(l, a), NEW r, Removed(NgbEntry, l, p, r), NEW b, b = NextSym(l, a)
  PROVE  Done(r, b) /\ b # a
<1>0. l \in Seq(NgbEntry) /\ Len(l) \in Nat /\ Len(r) = Len(l) - 1
  BY DEF GoodList, Removed
<1>1. Position(l, a) = p
  <2>1. Position(l, a) \in 1..Len(l) /\ l[Position(l, a)].sym = a
    BY DEF Position
  <2> QED
    BY <2>1 DEF GoodList
<1>2. \A i \in 1..Len(l) : l[i].sym \in Addr /\ l[i].sym # NULL
  <2>1. \A i \in 1..Len(l) : l[i] \in NgbEntry
    BY <1>0
  <2> QED
    BY <2>1, FloodAssumption DEF NgbEntry
<1>3. ASSUME NEW i \in 1..Len(r), i < p
      PROVE  i \in 1..Len(l) /\ r[i] = l[i] /\ Past(r[i])
  <2>1. i \in 1..Len(l) /\ r[i] = l[i]
    BY <1>0, <1>3 DEF Removed
  <2> QED
    BY <1>3, <2>1 DEF Done
<1>4. ASSUME NEW i \in 1..Len(r), ~(i < p)
      PROVE  i + 1 \in 1..Len(l) /\ r[i] = l[i + 1]
  BY <1>0, <1>4 DEF Removed
<1>5. CASE p = Len(l)
  <2>1. b = NULL
    BY <1>1, <1>5 DEF NextSym
  <2>2. \A i \in 1..Len(r) : i < p
    BY <1>0, <1>5
  <2>3. \A i \in 1..Len(r) : Past(r[i]) /\ r[i].sym # NULL
    BY <1>2, <1>3, <2>2
  <2> QED
    BY <1>2, <2>1, <2>3 DEF Done
<1>6. CASE p # Len(l)
  <2>1. b = l[p + 1].sym /\ p + 1 \in 1..Len(l) /\ p + 1 # p
    BY <1>0, <1>1, <1>6 DEF NextSym
  <2>2. b # NULL /\ b # a
    BY <1>2, <2>1 DEF GoodList
  <2>3. ASSUME NEW q \in 1..Len(r), r[q].sym = b PROVE q = p
    <3>1. CASE q < p
      <4>1. q = p + 1
        BY <1>3, <2>1, <2>3, <3>1 DEF GoodList
      <4> QED
        BY <1>0, <3>1, <4>1
    <3>2. CASE ~(q < p)
      <4>1. q + 1 = p + 1
        BY <1>4, <2>1, <2>3, <3>2 DEF GoodList
      <4> QED
        BY <1>0, <4>1
    <3> QED
      BY <3>1, <3>2
  <2> QED
    BY <1>3, <2>2, <2>3 DEF Done
<1> QED
  BY <1>5, <1>6

\* Putting a later entry in changes nothing of that.
LEMMA PlacedDone ==
  ASSUME NEW r \in Seq(NgbEntry), NEW b, Done(r, b), NEW n, n.sym # b,
         Past(n), NEW k \in 1..(Len(r) + 1), NEW m, Inserted(NgbEntry, r, k, n, m)
  PROVE  Done(m, b)
<1>0. Len(r) \in Nat /\ Len(m) = Len(r) + 1
  BY DEF Inserted
<1> DEFINE c(i) == IF i < k THEN i ELSE i - 1
<1>1. ASSUME NEW i \in 1..Len(m), i # k
      PROVE  c(i) \in 1..Len(r) /\ m[i] = r[c(i)]
  BY <1>0, <1>1 DEF Inserted
<1>2. m[k] = n
  BY <1>0 DEF Inserted
<1>3. ASSUME NEW i \in 1..Len(m), NEW j \in 1..Len(m), i # k, j # k, i < j
      PROVE  c(i) < c(j)
  BY <1>0, <1>3
<1> HIDE DEF c
<1>4. ASSUME NEW p \in 1..Len(m), m[p].sym = b, NEW i \in 1..Len(m), i < p
      PROVE  Past(m[i])
  <2>1. p # k
    BY <1>2, <1>4
  <2>2. CASE i = k
    BY <1>2, <2>2
  <2>3. CASE i # k
    <3>1. c(p) \in 1..Len(r) /\ c(i) \in 1..Len(r) /\ r[c(p)].sym = b
      BY <1>1, <1>4, <2>1, <2>3
    <3>2. c(i) < c(p)
      BY <1>3, <1>4, <2>1, <2>3
    <3>3. Past(r[c(i)])
      BY <3>1, <3>2 DEF Done
    <3> QED
      BY <1>1, <2>3, <3>3
  <2> QED
    BY <2>2, <2>3
<1>5. ASSUME b = NULL, NEW i \in 1..Len(m) PROVE Past(m[i])
  BY <1>1, <1>2, <1>5 DEF Done
<1> QED
  BY <1>4, <1>5 DEF Done

LEMMA PurgedList ==
  ASSUME NEW S, NEW F, GoodData(F, S), NEW a, NEW G, G = PurgeAll(F, a),
         NEW i \in 1..Len(F)
  PROVE  G[i].sym_neighbors = remove_elem(F[i].sym_neighbors, a, 0)
<1>0. F \in Seq(FloodEntry) /\ Len(F) \in Nat /\ DOMAIN F = 1..Len(F)
  BY DEF GoodData
<1>1. PICK k : k = get(F, F[i].index)
  OBVIOUS
<1>2. k \in 1..Len(F) /\ F[k].index = F[i].index
  BY <1>1, <1>0, GetFirst
<1>3. k = i
  BY <1>2 DEF GoodData
<1>4. G[i] = [F[i] EXCEPT !.sym_neighbors = remove_elem(F[i].sym_neighbors, a, 0)]
  BY <1>0, <1>1, <1>3 DEF PurgeAll
<1>5. F[i] \in FloodEntry
  BY <1>0
<1> QED
  BY <1>4, <1>5 DEF FloodEntry

WalkInv == FloodTypes /\ FloodInv /\ Clock /\ DatedData /\ SortedData /\ PassInv

\* The list that the pass walks.
LEMMA WalkedList ==
  ASSUME WalkInv, Visiting, NEW l, l = sym_neighbors
  PROVE  /\ fi \in 1..Len(DATAF) /\ GoodList(l, live) /\ l \in Seq(NgbEntry)
         /\ SortedList(l) /\ Done(l, tmp)
         /\ nw \in NgbEntry /\ nw.sym = tmp
         /\ \E p \in 1..Len(l) : l[p].sym = tmp /\ nw = l[p]
<1>1. /\ fi \in 1..Len(DATAF) /\ GoodList(l, live) /\ tmp \in Syms(l)
      /\ nw \in NgbEntry /\ nw.sym = tmp
  BY Visited DEF WalkInv
<1>2. SortedList(l) /\ Done(l, tmp)
  BY <1>1 DEF WalkInv, SortedData, PassInv, sym_neighbors, Visiting
<1>4. Position(l, tmp) \in 1..Len(l) /\ l[Position(l, tmp)].sym = tmp /\ nw = l[Position(l, tmp)]
  BY <1>1, PositionIn DEF nw
<1> QED
  BY <1>1, <1>2, <1>4 DEF GoodList

LEMMA SendDataWalk ==
  ASSUME WalkInv, Prompt, NEW w \in 1..MaxWait, send_data(w)
  PROVE  SortedData' /\ PassInv'
<1>0. Visiting /\ nw.times_sent # MaxSent /\ now \in Nat
  BY DEF send_data, WalkInv, FloodInv
<1>1. PICK l : l = sym_neighbors
  OBVIOUS
<1>2. /\ fi \in 1..Len(DATAF) /\ GoodList(l, live) /\ l \in Seq(NgbEntry)
      /\ SortedList(l) /\ Done(l, tmp)
      /\ nw \in NgbEntry /\ nw.sym = tmp
  BY <1>0, <1>1, WalkedList
<1>3. PICK p \in 1..Len(l) : l[p].sym = tmp /\ nw = l[p]
  BY <1>0, <1>1, WalkedList
<1>4. PICK e : e = nw
  OBVIOUS
<1>5. PICK t : t = now + w
  OBVIOUS
<1>6. t \in Nat /\ now < t
  BY <1>0, <1>5
<1>7. PICK n : n = Requeued(e, t)
  OBVIOUS
<1>8. n \in NgbEntry /\ n.sym = tmp /\ n.wait_time = t /\ n.times_sent # 0
  BY <1>0, <1>2, <1>4, <1>6, <1>7, NextEntry
<1>9. PICK r : r = remove_elem(l, e.sym, e.wait_time)
  OBVIOUS
<1>10. Removed(NgbEntry, l, p, r)
  <2>1. e.sym = tmp /\ Told(l, e.wait_time) /\ l[p].sym = e.sym
    BY <1>1, <1>2, <1>3, <1>4, SendDataTold DEF WalkInv
  <2> QED
    BY <1>2, <1>9, <2>1, RemovePlace
<1>11. r \in Seq(NgbEntry) /\ SortedList(r) /\ n.sym \notin Syms(r) /\ Exact(r, t)
  <2>0. Told(l, e.wait_time) /\ Exact(r, t)
    BY <1>1, <1>4, <1>5, <1>9, SendDataTold DEF WalkInv
  <2>1. Without(live, l, e.sym, r)
    BY <1>2, <1>9, <2>0, RemoveElem
  <2>2. r \in Seq(NgbEntry)
    BY <1>2, <1>9, RemoveElemTyped
  <2>3. SortedList(r)
    BY <1>2, <1>9, RemoveSorted
  <2> QED
    BY <1>2, <1>4, <1>8, <2>0, <2>1, <2>2, <2>3 DEF Without
<1>12. PICK m : m = add_elem(r, n)
  OBVIOUS
<1>13. PICK k \in 1..(Len(r) + 1) : Placed(r, n, k, m)
  BY <1>6, <1>8, <1>11, <1>12, AddPlaced
<1>14. SortedList(m)
  BY <1>8, <1>11, <1>13, PlacedSorted
<1>15. PICK b : b = NextSym(l, tmp)
  OBVIOUS
<1>16. Done(r, b) /\ b # tmp
  <2>1. PICK a : a = tmp
    OBVIOUS
  <2>2. l[p].sym = a /\ Done(l, a) /\ b = NextSym(l, a)
    BY <1>2, <1>3, <1>15, <2>1
  <2>3. Done(r, b) /\ b # a
    BY <1>2, <1>10, <2>2, NextDone
  <2> QED
    BY <2>1, <2>3
<1>17. Done(m, b)
  <2>1. n.sym # b /\ Past(n) /\ Inserted(NgbEntry, r, k, n, m)
    BY <1>6, <1>8, <1>13, <1>16 DEF Placed, Past
  <2> QED
    BY <1>11, <1>16, <2>1, PlacedDone
<1>18. DATAF' = [DATAF EXCEPT ![fi].sym_neighbors = m]
  BY <1>1, <1>4, <1>5, <1>7, <1>9, <1>12 DEF send_data, sym_neighbors, Requeued
<1>19. PICK h \in 1..Len(DATAF) : h = fi
  BY <1>2
<1>20. SortedData'
  BY <1>14, <1>18, <1>19, UpdateSorted DEF WalkInv
<1>21. DATAF'[h].sym_neighbors = m
  <2>1. DATAF \in Seq(FloodEntry) /\ DATAF[h] \in FloodEntry /\ DOMAIN DATAF = 1..Len(DATAF)
    BY DEF WalkInv, FloodTypes, FloodTypeOK
  <2>2. DATAF'[h] = [DATAF[h] EXCEPT !.sym_neighbors = m]
    BY <1>18, <1>19, <2>1
  <2> QED
    BY <2>1, <2>2 DEF FloodEntry
<1>22. sym_neighbors' = m /\ tmp' = b /\ now' = now
  BY <1>1, <1>15, <1>19, <1>21 DEF send_data, sym_neighbors
<1>23. PassInv'
  BY <1>17, <1>22 DEF PassInv, Done, Past
<1> QED
  BY <1>20, <1>23

LEMMA HandleInactiveWalk ==
  ASSUME WalkInv, NoZeroDate, handle_inactive
  PROVE  SortedData' /\ PassInv'
<1>0. Visiting /\ GoodData(DATAF, live) /\ DATAF' = PurgeAll(DATAF, tmp)
  BY DEF handle_inactive, WalkInv, FloodInv
<1>1. SortedData'
  BY <1>0, PurgeSorted DEF WalkInv
<1>2. PICK l : l = sym_neighbors
  OBVIOUS
<1>3. /\ fi \in 1..Len(DATAF) /\ GoodList(l, live) /\ Done(l, tmp)
  BY <1>0, <1>2, WalkedList
<1>4. PICK p \in 1..Len(l) : l[p].sym = tmp
  BY <1>0, <1>2, WalkedList
<1>5. PICK a : a = tmp
  OBVIOUS
<1>6. PICK r : r = remove_elem(l, a, 0)
  OBVIOUS
<1>7. Removed(NgbEntry, l, p, r)
  <2>1. l[p].sym = a
    BY <1>4, <1>5
  <2>2. PICK f \in 1..Len(DATAF) : f = fi
    BY <1>3
  <2>3. Told(l, 0)
    BY <1>2, <2>2, ZeroTold DEF sym_neighbors, WalkInv
  <2> QED
    BY <1>3, <1>6, <2>1, <2>3, RemovePlace
<1>8. PICK b : b = NextSym(l, a)
  OBVIOUS
<1>9. Done(r, b)
  <2>1. l[p].sym = a /\ Done(l, a)
    BY <1>3, <1>4, <1>5
  <2> QED
    BY <1>3, <1>7, <1>8, <2>1, NextDone
<1>10. DATAF'[fi].sym_neighbors = r
  <2>1. PICK G, h : G = PurgeAll(DATAF, a) /\ h = fi
    OBVIOUS
  <2>2. h \in 1..Len(DATAF)
    BY <1>3, <2>1
  <2>3. G[h].sym_neighbors = remove_elem(DATAF[h].sym_neighbors, a, 0)
    BY <1>0, <2>1, <2>2, PurgedList
  <2> QED
    BY <1>0, <1>2, <1>5, <1>6, <2>1, <2>3 DEF sym_neighbors
<1>11. sym_neighbors' = r /\ tmp' = b /\ now' = now
  BY <1>2, <1>5, <1>8, <1>10 DEF handle_inactive, sym_neighbors
<1> QED
  BY <1>1, <1>9, <1>11 DEF PassInv, Done, Past

\* Nothing of a list has been visited when the pass enters it.
LEMMA EnterWalk ==
  ASSUME WalkInv, NEW i \in Nat \ {0}, Enter(i), UNCHANGED <<now, live, DATAF>>
  PROVE  SortedData' /\ PassInv'
<1>0. DATAF \in Seq(FloodEntry) /\ Len(DATAF) \in Nat
  BY DEF WalkInv, FloodTypes, FloodTypeOK
<1>1. SortedData'
  BY DEF WalkInv, SortedData
<1>2. CASE i > Len(DATAF)
  BY <1>1, <1>2 DEF Enter, PassInv
<1>3. CASE ~(i > Len(DATAF))
  <2>1. i \in 1..Len(DATAF)
    BY <1>0, <1>3
  <2>2. PICK l : l = DATAF[i].sym_neighbors
    OBVIOUS
  <2>3. fi' = i /\ tmp' = FirstSym(l) /\ sym_neighbors' = l
    BY <1>3, <2>2 DEF Enter, sym_neighbors
  <2>4. GoodList(l, live) /\ l \in Seq(NgbEntry)
    BY <2>1, <2>2 DEF WalkInv, FloodInv, GoodData, GoodList
  <2>5. Done(l, FirstSym(l))
    <3>1. CASE l = <<>>
      BY <3>1 DEF Done
    <3>2. CASE l # <<>>
      <4>1. 1 \in 1..Len(l) /\ Len(l) \in Nat /\ l[1] \in NgbEntry
        BY <2>4, <3>2
      <4>2. FirstSym(l) = l[1].sym /\ FirstSym(l) # NULL
        BY <3>2, <4>1, FloodAssumption DEF FirstSym, NgbEntry
      <4>3. ASSUME NEW p \in 1..Len(l), l[p].sym = FirstSym(l) PROVE p = 1
        BY <2>4, <4>1, <4>2, <4>3 DEF GoodList
      <4>4. \A j \in 1..Len(l) : ~(j < 1)
        BY <4>1
      <4> QED
        BY <4>2, <4>3, <4>4 DEF Done
    <3> QED
      BY <3>1, <3>2
  <2> QED
    BY <1>1, <2>3, <2>5 DEF PassInv, Done, Past
<1> QED
  BY <1>2, <1>3

LEMMA AckSorted ==
  ASSUME FloodTypes, SortedData, NEW d, NEW a, ack(d, a)
  PROVE  SortedData'
<1>1. DATAF \in Seq(FloodEntry) /\ Len(DATAF) \in Nat
  BY DEF FloodTypes, FloodTypeOK
<1>2. PICK k : k = get(DATAF, d)
  OBVIOUS
<1>3. k = 0 \/ k \in 1..Len(DATAF)
  BY <1>1, <1>2, GetFirst
<1>4. CASE k = 0
  BY <1>2, <1>4 DEF ack, remove_neighbor_from_flood, SortedData
<1>5. CASE k \in 1..Len(DATAF)
  <2>1. PICK l : l = DATAF[k].sym_neighbors
    OBVIOUS
  <2>2. PICK r : r = remove_elem(l, a, 0)
    OBVIOUS
  <2>3. l \in Seq(NgbEntry) /\ SortedList(l)
    BY <1>1, <1>5, <2>1, ListOfDatum DEF SortedData
  <2>4. SortedList(r)
    BY <2>2, <2>3, RemoveSorted
  <2>5. k # 0
    BY <1>1, <1>5
  <2>6. DATAF' = [DATAF EXCEPT ![k].sym_neighbors = r]
    BY <1>2, <2>1, <2>2, <2>5 DEF ack, remove_neighbor_from_flood
  <2> QED
    BY <1>5, <2>4, <2>6, UpdateSorted
<1> QED
  BY <1>3, <1>4, <1>5

\* The list of a new datum is sorted: all its dates are equal.
LEMMA GrowsSorted ==
  ASSUME FloodTypes, SortedData, Grows
  PROVE  SortedData'
<1>1. PICK e \in FloodEntry :
        /\ \A x \in EntriesOf(e.sym_neighbors) : Fresh(x)
        /\ \A i \in 1..Len(DATAF') :
             DATAF'[i] = e \/ \E j \in 1..Len(DATAF) : DATAF'[i] = DATAF[j]
  BY DEF Grows
<1>2. PICK l : l = e.sym_neighbors
  OBVIOUS
<1>3. \A i \in 1..Len(l) : l[i].wait_time = now + 1
  BY <1>1, <1>2 DEF EntriesOf, Fresh
<1>4. now + 1 \in Nat
  BY DEF FloodTypes, FloodTypeOK
<1>5. SortedList(l)
  BY <1>3, <1>4 DEF SortedList
<1> QED
  BY <1>1, <1>2, <1>5 DEF SortedData

LEMMA WalkNext ==
  ASSUME WalkInv, NoZeroDate, Prompt, [FloodNext]_floodVars
  PROVE  WalkInv'
<1>1. FloodTypes'
  BY DataStep DEF WalkInv
<1>2. FloodInv'
  BY FloodNextInv DEF WalkInv
<1>3. Clock' /\ DatedData'
  BY ClockNext, DatedNext DEF WalkInv
<1>4. SortedData' /\ PassInv'
  <2>1. CASE UNCHANGED floodVars
    BY <2>1 DEF floodVars, WalkInv, SortedData, PassInv, Done, Past, sym_neighbors
  <2>2. ASSUME NEW a \in Addr, join(a) PROVE SortedData' /\ PassInv'
    BY <2>2 DEF join, WalkInv, SortedData, PassInv
  <2>3. ASSUME NEW d \in Data, NEW S \in SUBSET live, NEW a \in Addr \cup {NULL},
               add_message_to_flood(d, S, a)
        PROVE  SortedData' /\ PassInv'
    <3>1. Grows
      BY <2>3, AddMessageGrows DEF WalkInv
    <3> QED
      BY <2>3, <3>1, GrowsSorted DEF add_message_to_flood, WalkInv, PassInv
  <2>4. ASSUME NEW d \in Data, NEW a \in Addr, ack(d, a) PROVE SortedData' /\ PassInv'
    <3>1. SortedData'
      BY <2>4, AckSorted DEF WalkInv
    <3> QED
      BY <2>4, <3>1 DEF ack, PassInv
  <2>5. ASSUME NEW a \in Addr, remove_neighbor_everywhere(a) PROVE SortedData' /\ PassInv'
    <3>1. DATAF' = PurgeAll(DATAF, a) /\ fi' = 0
      BY <2>5 DEF remove_neighbor_everywhere
    <3> QED
      BY <3>1, PurgeSorted DEF WalkInv, PassInv
  <2>6. CASE Tick
    BY <2>6 DEF Tick, WalkInv, SortedData, PassInv
  <2>7. CASE flood_messages
    BY <2>7, EnterWalk DEF flood_messages
  <2>8. CASE handle_inactive
    BY <2>8, HandleInactiveWalk
  <2>9. ASSUME NEW w \in 1..MaxWait, send_data(w) PROVE SortedData' /\ PassInv'
    BY <2>9, SendDataWalk
  <2>10. fi \in Nat
    BY DEF WalkInv, FloodTypes, FloodTypeOK
  <2>11. fi + 1 \in Nat \ {0}
    BY <2>10
  <2>12. CASE not_due
    BY <2>11, <2>12, EnterWalk DEF not_due
  <2>13. CASE end_of_list
    BY <2>11, <2>13, EnterWalk DEF end_of_list
  <2> QED
    BY <2>1, <2>2, <2>3, <2>4, <2>5, <2>6, <2>7, <2>8, <2>9, <2>12, <2>13
    DEF FloodNext, FloodPass
<1> QED
  BY <1>1, <1>2, <1>3, <1>4 DEF WalkInv

LEMMA WalkInit == FloodInit => WalkInv
<1> SUFFICES ASSUME FloodInit PROVE WalkInv
  OBVIOUS
<1>1. FloodTypes /\ FloodInv /\ Clock /\ DatedData
  BY FloodTypesInit, FloodInitInv, DatesInvInit DEF DatesInv
<1>2. fi = 0 /\ 1..Len(DATAF) = {}
  BY DEF FloodInit
<1> QED
  BY <1>1, <1>2 DEF WalkInv, SortedData, PassInv

LEMMA WalkInvariant == FloodSafety /\ []NoZeroDate /\ []Prompt => []WalkInv
<1>1. WalkInv /\ NoZeroDate /\ Prompt /\ [FloodNext]_floodVars => WalkInv'
  BY WalkNext
<1> QED
  BY <1>1, WalkInit, PTL DEF FloodSafety

LEMMA WalkSorted == WalkInv => SortedByDate
BY DEF WalkInv, SortedData, SortedList, SortedByDate, IsSorted

\* As long as the dates can be told apart the list of every datum is sorted by date, whatever
\* is inserted while a pass walks it (add_elem with compare_n_s).
THEOREM FloodSortedByDate ==
  FloodSafety /\ []NoZeroDate /\ []Prompt => []SortedByDate
BY WalkSorted, WalkInvariant, PTL

\* When the pass leaves a list, nothing in it is due, and what was never sent comes no
\* earlier than the entry at which the pass stopped.
LEMMA LeftList ==
  ASSUME WalkInv, fi # 0, not_due \/ end_of_list, NEW l, l = sym_neighbors,
         NEW i \in 1..Len(l)
  PROVE  /\ now < l[i].wait_time
         /\ l[i].times_sent = 0 => not_due /\ nw.wait_time <= l[i].wait_time
<1>1. Done(l, tmp)
  BY DEF WalkInv, PassInv
<1>2. CASE end_of_list
  BY <1>1, <1>2 DEF end_of_list, Done, Past
<1>3. CASE not_due
  <2>1. Visiting /\ now < nw.wait_time
    BY <1>3 DEF not_due
  <2>2. l \in Seq(NgbEntry) /\ SortedList(l) /\ Len(l) \in Nat
    BY <2>1, WalkedList
  <2>3. PICK p \in 1..Len(l) : l[p].sym = tmp /\ nw = l[p]
    BY <2>1, WalkedList
  <2>4. \A j \in 1..Len(l) : l[j].wait_time \in Nat
    <3>1. \A j \in 1..Len(l) : l[j] \in NgbEntry
      BY <2>2
    <3> QED
      BY <3>1 DEF NgbEntry
  <2>5. now \in Nat
    BY DEF WalkInv, FloodTypes, FloodTypeOK
  <2>6. CASE i < p
    BY <1>1, <2>3, <2>6 DEF Done, Past
  <2>7. CASE ~(i < p)
    <3>1. l[p].wait_time <= l[i].wait_time
      BY <2>2, <2>4, <2>7 DEF SortedList
    <3> QED
      BY <1>3, <2>1, <2>3, <2>4, <2>5, <3>1
  <2> QED
    BY <2>6, <2>7
<1> QED
  BY <1>2, <1>3

\* Until then a pass leaves no entry of a list that is due: what it skips when it
\* stops at the first entry not due is not due, and what it moved behind itself neither
\* (flood_message_to_neighbours).
THEOREM FloodPassedNotDue ==
  FloodSafety /\ []NoZeroDate /\ []Prompt => PassedNotDue
<1> DEFINE Left == fi # 0 /\ fi' # fi =>
                     LET l == DATAF'[fi].sym_neighbors
                     IN  \A i \in 1..Len(l) : now < l[i].wait_time
<1>1. ASSUME WalkInv, [FloodNext]_floodVars PROVE [Left]_floodVars
  <2> SUFFICES ASSUME fi # 0, fi' # fi
               PROVE  \A i \in 1..Len(DATAF'[fi].sym_neighbors) :
                        now < DATAF'[fi].sym_neighbors[i].wait_time
    OBVIOUS
  <2>1. not_due \/ end_of_list
    BY <1>1 DEF FloodNext, FloodPass, floodVars, join, add_message_to_flood, ack,
         remove_neighbor_everywhere, Tick, flood_messages, handle_inactive, send_data
  <2>2. PICK l : l = sym_neighbors
    OBVIOUS
  <2>3. DATAF'[fi].sym_neighbors = l
    BY <2>1, <2>2 DEF not_due, end_of_list, sym_neighbors
  <2>4. \A i \in 1..Len(l) : now < l[i].wait_time
    BY <1>1, <2>1, <2>2, LeftList
  <2> QED
    BY <2>3, <2>4
<1> QED
  BY <1>1, WalkInvariant, PTL DEF FloodSafety, PassedNotDue
-----------------------------------------------------------------------------
(***************************************************************************)
(* What the main loop needs to know of an entry: where it comes from, and  *)
(* what a pass leaves behind.                                              *)
(***************************************************************************)
LEMMA EntryStep ==
  ASSUME FloodTypes, [FloodNext]_floodVars, NEW f \in 1..Len(DATAF'),
         NEW e \in EntriesOf(DATAF'[f].sym_neighbors)
  PROVE  \/ \E g \in 1..Len(DATAF) : e \in EntriesOf(DATAF[g].sym_neighbors)
         \/ DATAF' # DATAF /\ UNCHANGED now /\ now < e.wait_time
<1>0. now \in Nat /\ now < now + 1
  BY DEF FloodTypes, FloodTypeOK
<1>1. DATAF' = DATAF \/ (UNCHANGED now /\ (Shrinks \/ Grows \/ Requeues))
  BY DataStep
<1>2. CASE DATAF' = DATAF
  BY <1>2
<1>3. CASE Shrinks
  <2>1. /\ f \in 1..Len(DATAF)
        /\ EntriesOf(DATAF'[f].sym_neighbors) \subseteq
             EntriesOf(DATAF[f].sym_neighbors) \cup (IF f = 0 THEN {0} ELSE {})
    BY <1>3 DEF Shrinks, SameBut
  <2>2. f # 0
    BY <2>1 DEF FloodTypes, FloodTypeOK
  <2> QED
    BY <2>1, <2>2
<1>4. CASE DATAF' # DATAF /\ UNCHANGED now /\ Grows
  <2>1. Fresh(e) \/ \E j \in 1..Len(DATAF) : DATAF'[f] = DATAF[j]
    BY <1>4 DEF Grows
  <2> QED
    BY <1>0, <1>4, <2>1 DEF Fresh
<1>5. CASE DATAF' # DATAF /\ UNCHANGED now /\ Requeues
  <2>1. PICK k \in 1..Len(DATAF), x \in NgbEntry, w \in 1..MaxWait :
          /\ x.times_sent # MaxSent
          /\ SameBut(DATAF, DATAF', k, Requeued(x, now + w))
    BY <1>5 DEF Requeues
  <2>2. /\ f \in 1..Len(DATAF)
        /\ EntriesOf(DATAF'[f].sym_neighbors) \subseteq EntriesOf(DATAF[f].sym_neighbors)
             \cup (IF f = k THEN {Requeued(x, now + w)} ELSE {})
    BY <2>1 DEF SameBut
  <2>3. e \in EntriesOf(DATAF[f].sym_neighbors) \/ e = Requeued(x, now + w)
    BY <2>2
  <2>4. now + w \in Nat /\ now < now + w
    BY <1>0
  <2>5. e = Requeued(x, now + w) => e.wait_time = now + w
    BY <2>1, <2>4, NextEntry
  <2> QED
    BY <1>5, <2>2, <2>3, <2>4, <2>5
<1> QED
  BY <1>1, <1>2, <1>3, <1>4, <1>5

LEMMA PassEntries ==
  ASSUME FloodTypes, handle_inactive \/ \E w \in 1..MaxWait : send_data(w),
         NEW f \in 1..Len(DATAF'), NEW e \in EntriesOf(DATAF'[f].sym_neighbors)
  PROVE  /\ UNCHANGED <<fi, now>> /\ fi # 0 /\ f \in 1..Len(DATAF)
         /\ e \in EntriesOf(DATAF[f].sym_neighbors) \/ Past(e)
<1>0. now \in Nat
  BY DEF FloodTypes, FloodTypeOK
<1>1. UNCHANGED <<fi, now>> /\ fi # 0
  BY DEF handle_inactive, send_data, Visiting
<1>2. CASE handle_inactive
  <2>1. Shrinks
    BY <1>2, PurgeShrinks DEF handle_inactive
  <2>2. /\ f \in 1..Len(DATAF)
        /\ EntriesOf(DATAF'[f].sym_neighbors) \subseteq
             EntriesOf(DATAF[f].sym_neighbors) \cup (IF f = 0 THEN {0} ELSE {})
    BY <2>1 DEF Shrinks, SameBut
  <2>3. f # 0
    BY <2>2 DEF FloodTypes, FloodTypeOK
  <2> QED
    BY <1>1, <2>2, <2>3
<1>3. ASSUME NEW v \in 1..MaxWait, send_data(v)
      PROVE  f \in 1..Len(DATAF) /\ (e \in EntriesOf(DATAF[f].sym_neighbors) \/ Past(e))
  <2>1. Requeues
    BY <1>3, SendDataRequeues
  <2>2. PICK k \in 1..Len(DATAF), x \in NgbEntry, w \in 1..MaxWait :
          /\ x.times_sent # MaxSent
          /\ SameBut(DATAF, DATAF', k, Requeued(x, now + w))
    BY <2>1 DEF Requeues
  <2>3. /\ f \in 1..Len(DATAF)
        /\ EntriesOf(DATAF'[f].sym_neighbors) \subseteq EntriesOf(DATAF[f].sym_neighbors)
             \cup (IF f = k THEN {Requeued(x, now + w)} ELSE {})
    BY <2>2 DEF SameBut
  <2>4. e \in EntriesOf(DATAF[f].sym_neighbors) \/ e = Requeued(x, now + w)
    BY <2>3
  <2>5. now + w \in Nat /\ now < now + w
    BY <1>0
  <2>6. e = Requeued(x, now + w) => e.wait_time = now + w /\ e.times_sent # 0
    BY <2>2, <2>5, NextEntry
  <2> QED
    BY <2>3, <2>4, <2>5, <2>6 DEF Past
<1> QED
  BY <1>1, <1>2, <1>3

LEMMA LeftEntries ==
  ASSUME WalkInv, fi # 0, not_due \/ end_of_list, NEW f \in 1..Len(DATAF),
         fi' = 0 \/ f < fi', ~(f < fi), NEW e \in EntriesOf(DATAF[f].sym_neighbors)
  PROVE  /\ now < e.wait_time
         /\ e.times_sent = 0 => not_due /\ nw.wait_time <= e.wait_time
<1>1. fi \in Nat /\ Len(DATAF) \in Nat
  BY DEF WalkInv, FloodTypes, FloodTypeOK
<1>2. f = fi
  BY <1>1 DEF not_due, end_of_list, Enter
<1>3. PICK l : l = sym_neighbors
  OBVIOUS
<1>4. PICK i \in 1..Len(l) : e = l[i]
  BY <1>2, <1>3 DEF EntriesOf, sym_neighbors
<1> QED
  BY <1>3, <1>4, LeftList
=============================================================================
