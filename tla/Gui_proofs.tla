----------------------------- MODULE Gui_proofs -----------------------------
(***************************************************************************)
(* Proofs about the peer and its web page, for lines of any length, any    *)
(* size of the pipes and any number of messages.                           *)
(***************************************************************************)
EXTENDS Gui, SequenceTheorems, WellFoundedInduction, TLAPS

USE DEF history

\* The function that FlattenSeq() unrolls.
Unrolled(s, n, f) ==
  f = [i \in 1..n |-> IF i = 1 THEN s[i] ELSE f[i - 1] \o s[i]]

LEMMA LeastNatural ==
  ASSUME NEW X, X \subseteq Nat, NEW x \in X
  PROVE  \E m \in X : \A k \in X : m <= k
<1> DEFINE R == {ss \in Nat \X Nat : ss[1] < ss[2]}
<1>1. IsWellFoundedOn(R, Nat)
  BY NatLessThanWellFounded, Zenon DEF OpToRel
<1>2. PICK m \in X : \A y \in X : ~ (<<y, m>> \in R)
  <2> HIDE DEF R
  <2> QED BY <1>1, WFMin
<1>3. \A y \in X : m <= y
  <2> SUFFICES ASSUME NEW y \in X, y < m PROVE FALSE
    OBVIOUS
  <2>1. <<y, m>> \in Nat \X Nat /\ <<y, m>>[1] < <<y, m>>[2]
    OBVIOUS
  <2>2. <<y, m>> \in R
    BY <2>1
  <2> QED
    BY <1>2, <2>2
<1> QED
  BY <1>3

\* It exists and there is only one.
LEMMA UnrolledExists ==
  ASSUME NEW s, NEW n \in Nat
  PROVE  \E f : Unrolled(s, n, f)
<1> DEFINE X == {k \in Nat : ~ \E f : Unrolled(s, k, f)}
<1>1. SUFFICES X = {}
  OBVIOUS
<1>2. SUFFICES ASSUME NEW x \in X PROVE FALSE
  OBVIOUS
<1>3. PICK m \in X : \A k \in X : m <= k
  BY LeastNatural
<1>4. m # 0
  <2>1. PICK f : f = [i \in 1..0 |-> s]
    OBVIOUS
  <2>2. Unrolled(s, 0, f)
    BY <2>1 DEF Unrolled
  <2> QED
    BY <2>2
<1>5. m - 1 \in Nat /\ m - 1 \notin X
  BY <1>3, <1>4
<1>6. PICK f : Unrolled(s, m - 1, f)
  BY <1>5
<1>7. PICK g : g = [i \in 1..m |-> IF i = m THEN (IF i = 1 THEN s[i] ELSE f[i - 1] \o s[i])
                                   ELSE f[i]]
  OBVIOUS
<1>8. Unrolled(s, m, g)
  <2>1. ASSUME NEW i \in 1..m
        PROVE  g[i] = IF i = 1 THEN s[i] ELSE g[i - 1] \o s[i]
    <3>1. CASE i = m
      BY <1>7, <3>1
    <3>2. CASE i # m
      <4>1. i \in 1..(m - 1) /\ g[i] = f[i]
        BY <1>3, <1>7, <3>2
      <4>2. f[i] = IF i = 1 THEN s[i] ELSE f[i - 1] \o s[i]
        BY <4>1, <1>6 DEF Unrolled
      <4>3. i # 1 => g[i - 1] = f[i - 1]
        BY <1>7, <4>1
      <4> QED
        BY <4>1, <4>2, <4>3
    <3> QED
      BY <3>1, <3>2
  <2> QED
    BY <1>7, <2>1 DEF Unrolled
<1> QED
  BY <1>3, <1>8

LEMMA UnrolledUnique ==
  ASSUME NEW s, NEW n \in Nat, NEW f, NEW k \in Nat, NEW g, NEW t,
         Unrolled(s, n, f), Unrolled(t, k, g),
         n <= k, \A i \in 1..n : s[i] = t[i]
  PROVE  \A i \in 1..n : f[i] = g[i]
<1> DEFINE X == {i \in 1..n : f[i] # g[i]}
<1>1. SUFFICES ASSUME NEW x \in X PROVE FALSE
  OBVIOUS
<1>2. PICK m \in X : \A i \in X : m <= i
  <2>1. X \subseteq Nat
    OBVIOUS
  <2> HIDE DEF X
  <2> QED BY <2>1, LeastNatural
<1>3. f[m] = (IF m = 1 THEN s[m] ELSE f[m - 1] \o s[m])
      /\ g[m] = (IF m = 1 THEN t[m] ELSE g[m - 1] \o t[m])
  <2>1. m \in 1..n /\ m \in 1..k
    OBVIOUS
  <2> QED
    BY <2>1 DEF Unrolled
<1>4. m # 1 => f[m - 1] = g[m - 1]
  BY <1>2
<1> QED
  BY <1>2, <1>3, <1>4

LEMMA FlattenIs ==
  ASSUME NEW S, NEW s \in Seq(S), Len(s) # 0
  PROVE  \E f : Unrolled(s, Len(s), f) /\ FlattenSeq(s) = f[Len(s)]
<1> DEFINE f == CHOOSE h : h = [i \in 1..Len(s) |-> IF i = 1 THEN s[i] ELSE h[i - 1] \o s[i]]
<1>1. \E h : h = [i \in 1..Len(s) |-> IF i = 1 THEN s[i] ELSE h[i - 1] \o s[i]]
  <2>1. Len(s) \in Nat
    OBVIOUS
  <2>2. PICK n \in Nat : n = Len(s)
    BY <2>1
  <2>3. PICK h : Unrolled(s, n, h)
    BY UnrolledExists
  <2> QED
    BY <2>2, <2>3 DEF Unrolled
<1>2. Unrolled(s, Len(s), f)
  BY <1>1 DEF Unrolled
<1>3. FlattenSeq(s) = f[Len(s)]
  BY DEF FlattenSeq
<1> QED
  BY <1>2, <1>3

\* All the values of the unrolled function are sequences.
LEMMA UnrolledType ==
  ASSUME NEW S, NEW s \in Seq(Seq(S)), NEW f, Unrolled(s, Len(s), f),
         NEW j \in 1..Len(s)
  PROVE  f[j] \in Seq(S)
<1> DEFINE X == {i \in 1..Len(s) : f[i] \notin Seq(S)}
<1>1. SUFFICES ASSUME NEW x \in X PROVE FALSE
  OBVIOUS
<1>2. PICK m \in X : \A i \in X : m <= i
  <2>1. X \subseteq Nat
    OBVIOUS
  <2> HIDE DEF X
  <2> QED BY <2>1, LeastNatural
<1>3. m \in 1..Len(s) /\ s[m] \in Seq(S)
  OBVIOUS
<1>4. f[m] = IF m = 1 THEN s[m] ELSE f[m - 1] \o s[m]
  BY <1>3 DEF Unrolled
<1>5. m # 1 => f[m - 1] \in Seq(S)
  BY <1>2, <1>3
<1>6. f[m] \in Seq(S)
  BY <1>3, <1>4, <1>5
<1> QED
  BY <1>6

\* What FlattenSeq() does: it is empty for nothing, and one more sequence comes
\* at the end.
LEMMA FlattenEmpty == FlattenSeq(<<>>) = <<>>
BY DEF FlattenSeq

LEMMA FlattenType ==
  ASSUME NEW S, NEW s \in Seq(Seq(S))
  PROVE  FlattenSeq(s) \in Seq(S)
<1>1. CASE Len(s) = 0
  <2>1. s = <<>> /\ <<>> \in Seq(S)
    BY <1>1
  <2> QED
    BY <2>1, FlattenEmpty
<1>2. CASE Len(s) # 0
  <2>1. PICK f : Unrolled(s, Len(s), f) /\ FlattenSeq(s) = f[Len(s)]
    BY <1>2, FlattenIs
  <2>2. Len(s) \in 1..Len(s)
    BY <1>2
  <2> QED
    BY <2>1, <2>2, UnrolledType
<1> QED
  BY <1>1, <1>2

LEMMA AppendSeq ==
  ASSUME NEW S, NEW s \in Seq(S), NEW x \in S
  PROVE  /\ Append(s, x) \in Seq(S) /\ Len(Append(s, x)) = Len(s) + 1
         /\ Append(s, x)[Len(s) + 1] = x /\ \A i \in 1..Len(s) : Append(s, x)[i] = s[i]
OBVIOUS

LEMMA FlattenAppend ==
  ASSUME NEW S, NEW s \in Seq(Seq(S)), NEW x \in Seq(S)
  PROVE  FlattenSeq(Append(s, x)) = FlattenSeq(s) \o x
<1>0. PICK W : W = Seq(S)
  OBVIOUS
<1>1. PICK t \in Seq(W) : t = Append(s, x)
  BY <1>0, AppendSeq
<1>2. Len(t) = Len(s) + 1 /\ Len(s) \in Nat /\ t[Len(t)] = x
      /\ \A i \in 1..Len(s) : t[i] = s[i]
  BY <1>1, AppendSeq
<1>3. PICK g : Unrolled(t, Len(t), g) /\ FlattenSeq(t) = g[Len(t)]
  BY <1>2, FlattenIs
<1>4. g[Len(t)] = IF Len(t) = 1 THEN x ELSE g[Len(t) - 1] \o x
  <2>1. Len(t) \in 1..Len(t)
    BY <1>2
  <2> QED
    BY <1>2, <1>3, <2>1 DEF Unrolled
<1>5. CASE Len(s) = 0
  <2>1. s = <<>> /\ <<>> \o x = x
    BY <1>5
  <2> QED
    BY <1>1, <1>2, <1>3, <1>4, <1>5, <2>1, FlattenEmpty
<1>6. CASE Len(s) # 0
  <2>1. PICK f : Unrolled(s, Len(s), f) /\ FlattenSeq(s) = f[Len(s)]
    <3>1. s \in Seq(W)
      BY <1>0
    <3> QED
      BY ONLY <3>1, <1>6, FlattenIs
  <2>2. PICK n, k : n = Len(s) /\ k = Len(t) /\ n \in Nat /\ k \in Nat
    <3>1. Len(s) \in Nat /\ Len(t) \in Nat
      BY <1>2
    <3> QED
      BY ONLY <3>1
  <2>3. Unrolled(s, n, f) /\ Unrolled(t, k, g) /\ n <= k
        /\ \A i \in 1..n : s[i] = t[i]
    BY <1>2, <1>3, <2>1, <2>2
  <2>4. n \in Nat /\ k \in Nat /\ n \in 1..n /\ k # 1 /\ k - 1 = n
    BY <1>2, <1>6, <2>2
  <2>5. \A i \in 1..n : f[i] = g[i]
    BY ONLY <2>3, <2>4, UnrolledUnique, SMTT(60)
  <2>6. f[n] = g[n]
    BY <2>4, <2>5
  <2>7. g[k] = g[n] \o x
    BY <1>4, <2>2, <2>4
  <2> QED
    BY <1>1, <1>3, <2>1, <2>2, <2>6, <2>7
<1> QED
  BY <1>5, <1>6

LEMMA ConcatSeq ==
  ASSUME NEW S, NEW s \in Seq(S), NEW t \in Seq(S)
  PROVE  s \o t \in Seq(S) /\ Len(s \o t) = Len(s) + Len(t)
OBVIOUS

LEMMA ConcatAt ==
  ASSUME NEW S, NEW s \in Seq(S), NEW t \in Seq(S), NEW i \in 1..(Len(s) + Len(t))
  PROVE  /\ i <= Len(s) => (s \o t)[i] = s[i]
         /\ i > Len(s) => (s \o t)[i] = t[i - Len(s)]
OBVIOUS

Extends(a, b, S) == \E r \in Seq(S) : b = a \o r

LEMMA UnrolledExtends ==
  ASSUME NEW S, NEW s, NEW n \in Nat, NEW k \in Nat, NEW f,
         n # 0, n <= k, Unrolled(s, k, f),
         \A i \in 1..k : s[i] \in Seq(S), \A i \in 1..k : f[i] \in Seq(S)
  PROVE  \A i \in n..k : Extends(f[n], f[i], S)
<1> USE DEF Extends
<1> DEFINE X == {i \in n..k : ~ \E r \in Seq(S) : f[i] = f[n] \o r}
<1>1. SUFFICES ASSUME NEW x \in X PROVE FALSE
  OBVIOUS
<1>2. PICK m \in X : \A i \in X : m <= i
  <2>1. X \subseteq Nat
    OBVIOUS
  <2> HIDE DEF X
  <2> QED BY <2>1, LeastNatural
<1>3. f[n] \in Seq(S)
  OBVIOUS
<1>4. m # n
  <2>1. f[n] \o <<>> = f[n] /\ <<>> \in Seq(S)
    BY <1>3
  <2> QED
    BY <2>1
<1>5. PICK l : l = m - 1 /\ l \in n..k /\ m \in 1..k /\ m # 1
  BY <1>4
<1>6. l \notin X
  <2>1. ~(m <= l)
    BY <1>5
  <2> HIDE DEF X
  <2> QED
    BY <1>2, <2>1
<1>7. PICK r \in Seq(S) : f[l] = f[n] \o r
  BY <1>5, <1>6
<1>8. f[m] = f[l] \o s[m] /\ s[m] \in Seq(S)
  BY <1>5 DEF Unrolled
<1>9. PICK a, c : a = f[n] /\ c = s[m] /\ a \in Seq(S) /\ c \in Seq(S)
  BY <1>3, <1>8
<1>10. (a \o r) \o c = a \o (r \o c)
  <2>1. a \in Seq(S) /\ r \in Seq(S) /\ c \in Seq(S)
    BY <1>7, <1>9
  <2> HIDE DEF X
  <2> QED
    BY ONLY <2>1, ConcatAssociative
<1>11. r \o c \in Seq(S)
  BY <1>7, <1>9
<1>12. f[m] = f[n] \o (r \o c)
  BY <1>7, <1>8, <1>9, <1>10
<1> QED
  BY <1>11, <1>12

\* What the beginning of a sequence makes is a beginning of what the whole makes.
LEMMA FlattenPrefix ==
  ASSUME NEW S, NEW s \in Seq(Seq(S)), NEW t \in Seq(Seq(S))
  PROVE  \E r \in Seq(S) : FlattenSeq(s \o t) = FlattenSeq(s) \o r
<1>0. PICK W : W = Seq(S)
  OBVIOUS
<1>1. s \in Seq(W) /\ t \in Seq(W)
  BY <1>0
<1>2. PICK u : u = s \o t /\ u \in Seq(W) /\ Len(u) = Len(s) + Len(t)
  BY ONLY <1>1, ConcatSeq
<1>3. PICK n, l, k : /\ n = Len(s) /\ l = Len(t) /\ k = Len(u) /\ k = n + l
                     /\ n \in Nat /\ l \in Nat /\ k \in Nat /\ n <= k
  <2>1. PICK n \in Nat, l \in Nat : n = Len(s) /\ l = Len(t)
    BY <1>1
  <2>2. PICK k \in Nat : k = Len(u) /\ k = n + l /\ n <= k
    BY <1>2, <2>1
  <2> QED
    BY <2>1, <2>2
<1>6. ASSUME NEW i \in 1..n PROVE u[i] = s[i]
  <2>1. i \in 1..(Len(s) + Len(t)) /\ i <= Len(s)
    BY <1>3
  <2>2. (s \o t)[i] = s[i]
    BY ONLY <1>1, <2>1, ConcatAt
  <2> QED
    BY <1>2, <2>2
<1>4. CASE n = 0
  <2>1. FlattenSeq(s) = <<>>
    <3>1. s = <<>>
      BY <1>1, <1>3, <1>4, EmptySeq
    <3> QED
      BY <3>1, FlattenEmpty
  <2>2. PICK r : r = FlattenSeq(u) /\ r \in Seq(S)
    BY <1>0, <1>2, FlattenType
  <2>3. <<>> \o r = r
    BY <2>2
  <2> QED
    BY <1>2, <2>1, <2>2, <2>3
<1>5. CASE n # 0
  <2>1. PICK f : Unrolled(s, n, f) /\ FlattenSeq(s) = f[n]
    BY <1>1, <1>3, <1>5, FlattenIs
  <2>2. PICK g : Unrolled(u, k, g) /\ FlattenSeq(u) = g[k]
    <3>1. Len(u) # 0
      BY <1>3, <1>5
    <3> QED
      BY <1>2, <1>3, <3>1, FlattenIs
  <2>3. f[n] = g[n]
    <3>1. Unrolled(s, n, f) /\ Unrolled(u, k, g) /\ n <= k /\ n \in Nat /\ k \in Nat
          /\ \A i \in 1..n : s[i] = u[i]
      BY <1>3, <1>6, <2>1, <2>2
    <3>2. \A i \in 1..n : f[i] = g[i]
      BY ONLY <3>1, UnrolledUnique, SMTT(60)
    <3> QED
      BY <1>3, <1>5, <3>2
  <2>4. \A i \in 1..k : g[i] \in Seq(S)
    <3>1. u \in Seq(Seq(S)) /\ Unrolled(u, Len(u), g)
      BY <1>0, <1>2, <1>3, <2>2
    <3> QED
      BY <1>3, <3>1, UnrolledType
  <2>5. g[n] \in Seq(S)
    BY <1>3, <1>5, <2>4
  <2>6. \A i \in n..k : Extends(g[n], g[i], S)
    <3>1. \A i \in 1..k : u[i] \in Seq(S)
      BY <1>0, <1>2, <1>3
    <3>2. n \in Nat /\ k \in Nat /\ n # 0 /\ n <= k /\ Unrolled(u, k, g)
      BY <1>3, <1>5, <2>2
    <3> QED
      BY <2>4, <3>1, <3>2, UnrolledExtends
  <2>7. k \in n..k
    BY <1>3
  <2> QED
    BY <1>2, <2>1, <2>2, <2>3, <2>6, <2>7 DEF Extends
<1> QED
  BY <1>4, <1>5
-----------------------------------------------------------------------------
\* The bytes of lines that are typed, among which there is no zero, and all bytes.
Written == {<<k, i>> : k \in Typed, i \in Nat}

Letters == {Z} \cup {<<k, i>> : k \in Typed \cup Received, i \in Nat}

LEMMA WrittenFacts == Z \notin Written /\ Written \subseteq Letters /\ Z \in Letters
BY GuiAssumption DEF Written, Letters, Z

LEMMA LineBytes ==
  /\ \A k \in Typed \cup Received : Bytes(k) \in Seq(Letters)
  /\ \A k \in Typed : Bytes(k) \in Seq(Written)
<1>1. ASSUME NEW k \in Typed \cup Received PROVE Bytes(k) \in Seq(Letters)
  <2>1. PICK n \in Nat : n = Size[k]
    BY GuiAssumption
  <2>2. \A i \in 1..n : <<k, i>> \in Letters
    BY DEF Letters
  <2> QED
    BY <2>1, <2>2 DEF Bytes
<1>2. ASSUME NEW k \in Typed PROVE Bytes(k) \in Seq(Written)
  <2>1. PICK n \in Nat : n = Size[k]
    BY GuiAssumption
  <2>2. \A i \in 1..n : <<k, i>> \in Written
    BY DEF Written
  <2> QED
    BY <2>1, <2>2 DEF Bytes
<1> QED
  BY <1>1, <1>2

\* Reading takes the first bytes of the pipe, at most as many as fit into a TLV.
LEMMA ChunkSplits ==
  ASSUME NEW S, NEW q \in Seq(S), NEW c, c = Chunk(q),
         NEW rest, rest = SubSeq(q, Len(c) + 1, Len(q))
  PROVE  /\ c \in Seq(S) /\ rest \in Seq(S) /\ q = c \o rest
         /\ Len(c) <= MaxText
         /\ q # <<>> => c # <<>>
<1>1. PICK n \in Nat : n = MaxText /\ n > 0
  <2>1. MaxText \in Nat /\ MaxText > 0
    BY GuiAssumption DEF MaxText
  <2> QED
    BY <2>1
<1>2. PICK k \in Nat : k = (IF Len(q) < n THEN Len(q) ELSE n) /\ k <= Len(q) /\ k <= n
                       /\ (Len(q) > 0 => k > 0)
  <2>1. Len(q) \in Nat
    OBVIOUS
  <2> QED
    BY <1>1, <2>1
<1>3. c = SubSeq(q, 1, k)
  BY <1>1, <1>2 DEF Chunk
<1>4. c \in Seq(S) /\ Len(c) = k /\ \A i \in 1..k : c[i] = q[i]
  BY <1>2, <1>3
<1>5. rest \in Seq(S) /\ Len(rest) = Len(q) - k
      /\ \A i \in 1..(Len(q) - k) : rest[i] = q[k + i]
  <2>1. PICK a, b : a \in Int /\ b \in Int /\ a = k + 1 /\ b = Len(q) /\ k = a - 1 /\ a <= b + 1
    <3>1. k + 1 \in Int /\ Len(q) \in Int /\ k = k + 1 - 1 /\ k + 1 <= Len(q) + 1
      BY <1>2
    <3> QED
      BY ONLY <3>1
  <2>2. \A i \in a..b : q[i] \in S
    BY <1>2, <2>1
  <2>3. rest = SubSeq(q, a, b)
    BY <1>4, <2>1
  <2>4. /\ rest \in Seq(S) /\ Len(rest) = IF a <= b THEN b - a + 1 ELSE 0
        /\ \A i \in 1..(b - a + 1) : rest[i] = q[a + i - 1]
    <3>1. a \in Int /\ b \in Int
      BY <2>1
    <3> QED
      BY ONLY <3>1, <2>2, <2>3, SubSeqProperties
  <2>5. k \in Int /\ a = k + 1 /\ b \in Int /\ b = Len(q) /\ k <= b
    BY <1>2, <2>1
  <2>6. Len(rest) = Len(q) - k
    BY ONLY <2>4, <2>5
  <2>7. \A i \in 1..(Len(q) - k) : rest[i] = q[k + i]
    BY ONLY <2>4, <2>5
  <2> QED
    BY <2>4, <2>6, <2>7
<1>6. q = c \o rest
  <2>1. PICK d : d = c \o rest
    OBVIOUS
  <2>2. /\ d \in Seq(S) /\ Len(d) = Len(c) + Len(rest)
        /\ \A i \in 1..Len(c) + Len(rest) :
             d[i] = IF i <= Len(c) THEN c[i] ELSE rest[i - Len(c)]
    BY <1>4, <1>5, <2>1, ConcatProperties
  <2>3. PICK N \in Nat : N = Len(q) /\ k <= N /\ Len(c) + Len(rest) = N
    <3>1. Len(q) \in Nat /\ k <= Len(q) /\ Len(c) + Len(rest) = Len(q)
      <4>1. Len(q) \in Nat /\ k \in Nat /\ k <= Len(q)
        BY <1>2
      <4>2. Len(c) = k /\ Len(rest) = Len(q) - k
        BY <1>4, <1>5
      <4> QED
        BY ONLY <4>1, <4>2
    <3> QED
      BY ONLY <3>1
  <2>4. ASSUME NEW i \in 1..N PROVE d[i] = q[i]
    <3>1. d[i] = IF i <= k THEN c[i] ELSE rest[i - k]
      BY <1>4, <2>2, <2>3
    <3>2. i > k => i - k \in 1..(N - k) /\ k + (i - k) = i
      BY <1>2, <2>3
    <3>3. i > k => rest[i - k] = q[i]
      BY <1>5, <2>3, <3>2
    <3>4. i <= k => c[i] = q[i]
      BY <1>4
    <3>5. k \in Int /\ i \in Int
      BY <1>2
    <3> QED
      BY ONLY <3>1, <3>3, <3>4, <3>5
  <2>5. q \in Seq(S) /\ d \in Seq(S) /\ Len(q) = Len(d) /\ \A i \in 1..Len(q) : q[i] = d[i]
    BY <2>2, <2>3, <2>4
  <2>6. q = d
    BY ONLY <2>5, SeqEqual
  <2> QED
    BY <2>1, <2>6
<1>7. q # <<>> => c # <<>>
  BY <1>2, <1>4
<1> QED
  BY <1>1, <1>2, <1>4, <1>5, <1>6, <1>7

LEMMA WrapsOnce ==
  ASSUME NEW b \in Nat, NEW h \in Nat, 0 < h, h < b
  PROVE  (b - 1 + h) % b = h - 1
<1>1. /\ b - 1 + h \in Int /\ b \in Nat \ {0}
      /\ b - 1 + h = 1 * b + (h - 1) /\ h - 1 \in 0..(b - 1)
  OBVIOUS
<1> QED
  BY <1>1, SMTT(30)

\* What becomes a datum is exactly what was read: there is no zero to be cut off,
\* the length does not wrap around, and the line made up of nothing is empty.
LEMMA DatumIsChunk ==
  ASSUME NEW c \in Seq(Written), Len(c) <= MaxText, NEW line \in Cleaned(c)
  PROVE  /\ Datum(line) = c /\ line \in Seq(Letters)
<1>1. CASE c = <<>>
  <2>1. line = <<>> \/ line = [i \in 1..(Byte - 1) |-> Z]
    BY <1>1 DEF Cleaned
  <2>2. CASE line = <<>>
    <3>1. ((Len(line) + Header) % Byte) - Header = 0
      BY <2>2, GuiAssumption
    <3>2. SubSeq(line, 1, 0) = <<>>
      BY <2>2
    <3> QED
      BY <1>1, <2>2, <3>1, <3>2 DEF Datum
  <2>3. CASE line = [i \in 1..(Byte - 1) |-> Z]
    <3>1. Byte - 1 \in Nat
      BY GuiAssumption
    <3>2. line \in Seq(Letters) /\ Len(line) = Byte - 1
      BY <2>3, <3>1, WrittenFacts
    <3>3. (Byte - 1 + Header) % Byte = Header - 1
      BY WrapsOnce, GuiAssumption
    <3>4. ((Len(line) + Header) % Byte) - Header = -1
      BY <3>2, <3>3, GuiAssumption
    <3>5. SubSeq(line, 1, -1) = <<>>
      BY SubSeqEmpty
    <3> QED
      BY <1>1, <3>2, <3>4, <3>5 DEF Datum
  <2> QED
    BY <2>1, <2>2, <2>3
<1>2. CASE c # <<>>
  <2>1. Last(c) # Z
    <3>1. Last(c) \in Written
      BY <1>2 DEF Last
    <3> QED
      BY <3>1, WrittenFacts
  <2>2. line = c
    BY <1>2, <2>1 DEF Cleaned
  <2>3. ((Len(c) + Header) % Byte) - Header = Len(c)
    BY GuiAssumption DEF MaxText
  <2>4. SubSeq(c, 1, Len(c)) = c
    OBVIOUS
  <2>5. c \in Seq(Letters)
    BY WrittenFacts
  <2> QED
    BY <2>2, <2>3, <2>4, <2>5 DEF Datum
<1> QED
  BY <1>1, <1>2
-----------------------------------------------------------------------------
Text == Seq(Written)

\* The texts that fit into a TLV.
Short == {s \in Text : Len(s) <= MaxText}

Frame == Seq(Letters) \ {<<>>}

GuiTypes ==
  /\ peer \in {"select", "zero", "text", "dead"}
  /\ server \in {"idle", "writing", "dead"}
  /\ toPeer \in Text /\ frame \in Text /\ typed \in Text
  /\ text \in Seq(Letters) /\ toPage \in Seq(Letters)
  /\ Len(toPeer) <= PIPE_SIZE /\ Len(toPage) <= PIPE_SIZE
  /\ frames \in Seq(Frame)
  /\ DATAF \in Seq(Short)
  /\ handed \in Seq(Short \ {<<>>})
  /\ sent \in Seq(Text)
  /\ adopted \in BOOLEAN
  /\ new \subseteq Typed \cup Received

LEMMA AppendLonger ==
  ASSUME NEW S, NEW s \in Seq(S), NEW x \in S
  PROVE  Append(s, x) \in Seq(S)
OBVIOUS

\* An empty line is only in DATAF when the server is gone and the peer will find
\* out with its next write.
Doomed == server = "dead" /\ peer \in {"zero", "dead"}

NoEmptyLine == DATAF \in Seq(Short \ {<<>>}) \/ Doomed

WireInv == GuiTypes /\ NoEmptyLine /\ (server = "idle" => frame = <<>>)

LEMMA WireInit == Init => WireInv
<1>1. \A S : <<>> \in Seq(S)
  OBVIOUS
<1>2. Len(<<>>) <= PIPE_SIZE
  BY GuiAssumption
<1> QED
  BY <1>1, <1>2, GuiAssumption DEF Init, WireInv, GuiTypes, NoEmptyLine, Text

LEMMA ReadLineSteps ==
  ASSUME GuiTypes, ReadLine
  PROVE  \E c \in Short, line \in Seq(Letters) :
           /\ toPeer = c \o toPeer' /\ toPeer' \in Text /\ Len(toPeer') <= PIPE_SIZE
           /\ toPeer # <<>> => c # <<>>
           /\ DATAF' = Append(DATAF, c)
           /\ text' = line /\ peer' \in {"zero", "dead"}
           /\ peer = "select" /\ (toPeer # <<>> \/ server = "dead")
<1>1. PICK q, c, rest : q = toPeer /\ c = Chunk(q) /\ rest = SubSeq(q, Len(c) + 1, Len(q))
  OBVIOUS
<1>2. q \in Seq(Written) /\ Len(q) <= PIPE_SIZE
  BY <1>1 DEF GuiTypes, Text
<1>3. /\ c \in Seq(Written) /\ rest \in Seq(Written) /\ q = c \o rest
      /\ Len(c) <= MaxText
      /\ q # <<>> => c # <<>>
  <2>1. c = Chunk(q) /\ rest = SubSeq(q, Len(c) + 1, Len(q))
    BY <1>1
  <2> QED
    BY ONLY <1>2, <2>1, ChunkSplits, SMTT(60)
<1>4. PICK line \in Cleaned(c) : DATAF' = Append(DATAF, Datum(line)) /\ text' = line
  BY <1>1 DEF ReadLine
<1>5. Datum(line) = c /\ line \in Seq(Letters)
  BY <1>3, <1>4, DatumIsChunk
<1>6. Len(rest) <= PIPE_SIZE
  <2>1. Len(c) \in Nat /\ Len(rest) \in Nat /\ Len(q) = Len(c) + Len(rest)
    BY <1>3, ConcatSeq
  <2> QED
    BY <1>2, <2>1, GuiAssumption
<1>7. toPeer' = rest /\ peer' \in {"zero", "dead"} /\ peer = "select" /\ (q # <<>> \/ server = "dead")
  BY <1>1 DEF ReadLine
<1>8. DATAF' = Append(DATAF, c) /\ text' = line
  BY <1>4, <1>5
<1> QED
  BY <1>1, <1>3, <1>5, <1>6, <1>7, <1>8 DEF Text, Short

\* What a pass does with the n first of the waiting data when none ends the peer.
Handed(n) ==
  LET due == SubSeq(DATAF, 1, n)
  IN  /\ \A i \in 1..n : BodyLength(due[i]) >= 0
      /\ handed' = handed \o due
      /\ sent' = sent \o [i \in 1..n |-> Body(due[i])]
      /\ DATAF' = SubSeq(DATAF, n + 1, Len(DATAF))
      /\ UNCHANGED peer

LEMMA LengthType ==
  ASSUME NEW s \in Text
  PROVE  BodyLength(s) \in Int /\ Body(s) \in Text
<1>1. Len(s) \in Nat /\ <<>> \in Text
  BY DEF Text
<1> QED
  BY <1>1, GuiAssumption DEF BodyLength, Signed, Body

LEMMA Split ==
  ASSUME NEW S, NEW s \in Seq(S), NEW n \in 1..Len(s)
  PROVE  LET due == SubSeq(s, 1, n)
             rest == SubSeq(s, n + 1, Len(s))
         IN  due \in Seq(S) /\ Len(due) = n /\ rest \in Seq(S) /\ s = due \o rest
<1>1. PICK due, rest : due = SubSeq(s, 1, n) /\ rest = SubSeq(s, n + 1, Len(s))
  OBVIOUS
<1>2. due \in Seq(S) /\ Len(due) = n /\ \A i \in 1..n : due[i] = s[i]
  BY <1>1
<1>3. /\ rest \in Seq(S) /\ Len(rest) = Len(s) - n
      /\ \A i \in 1..(Len(s) - n) : rest[i] = s[n + i]
  BY <1>1, SubSeqProperties
<1>4. PICK d : d = due \o rest
  OBVIOUS
<1>5. PICK N \in Nat : N = Len(s) /\ n <= N /\ Len(rest) = N - n /\ n + Len(rest) = N
  BY <1>3
<1>6. d \in Seq(S) /\ Len(d) = N
  BY <1>2, <1>3, <1>4, <1>5, ConcatSeq
<1>7. ASSUME NEW i \in 1..N PROVE d[i] = s[i]
  <2>1. /\ i <= n => d[i] = due[i]
        /\ i > n => d[i] = rest[i - n]
    <3>1. i \in 1..(Len(due) + Len(rest)) /\ n = Len(due)
      BY <1>2, <1>5
    <3> QED
      BY <1>2, <1>3, <1>4, <3>1, ConcatAt
  <2>2. CASE i <= n
    BY <1>2, <2>1, <2>2
  <2>3. CASE i > n
    <3>1. i - n \in 1..(N - n) /\ n + (i - n) = i
      BY <2>3
    <3> QED
      BY <1>3, <1>5, <2>1, <2>3, <3>1
  <2> QED
    BY <2>2, <2>3
<1>8. d = s
  BY <1>5, <1>6, <1>7, SeqEqual
<1> QED
  BY <1>1, <1>2, <1>3, <1>4, <1>8

LEMMA TransmitSteps ==
  ASSUME GuiTypes, Transmit
  PROVE  \/ peer' = "dead" /\ UNCHANGED <<DATAF, handed, sent>>
         \/ \E n \in 1..Len(DATAF) : Handed(n)
<1>1. PICK n \in 1..Len(DATAF) :
        LET due == SubSeq(DATAF, 1, n)
        IN  IF \E i \in 1..n : BodyLength(due[i]) < 0
            THEN peer' = "dead" /\ UNCHANGED <<DATAF, handed, sent>>
            ELSE /\ handed' = handed \o due
                 /\ sent' = sent \o [i \in 1..n |-> Body(due[i])]
                 /\ DATAF' = SubSeq(DATAF, n + 1, Len(DATAF))
                 /\ UNCHANGED peer
  BY DEF Transmit
<1>2. PICK due : due = SubSeq(DATAF, 1, n)
  OBVIOUS
<1>3. CASE \E i \in 1..n : BodyLength(due[i]) < 0
  BY <1>1, <1>2, <1>3
<1>4. CASE ~ \E i \in 1..n : BodyLength(due[i]) < 0
  <2>1. due \in Seq(Short) /\ Len(due) = n
    BY <1>2, Split DEF GuiTypes
  <2>2. \A i \in 1..n : BodyLength(due[i]) \in Int
    BY <2>1, LengthType DEF Short
  <2>3. \A i \in 1..n : BodyLength(due[i]) >= 0
    BY <1>4, <2>2
  <2>4. Handed(n)
    BY <1>1, <1>2, <1>4, <2>3 DEF Handed
  <2> QED
    BY <2>4
<1> QED
  BY <1>3, <1>4

LEMMA HandedTypes ==
  ASSUME GuiTypes, DATAF \in Seq(Short \ {<<>>}), NEW n \in 1..Len(DATAF), Handed(n)
  PROVE  /\ DATAF' \in Seq(Short \ {<<>>}) /\ handed' \in Seq(Short \ {<<>>})
         /\ sent' \in Seq(Text)
         /\ handed' \o DATAF' = handed \o DATAF
<1>1. PICK W : W = Short \ {<<>>}
  OBVIOUS
<1>2. PICK due, rest : due = SubSeq(DATAF, 1, n) /\ rest = SubSeq(DATAF, n + 1, Len(DATAF))
  OBVIOUS
<1>3. due \in Seq(W) /\ Len(due) = n /\ rest \in Seq(W) /\ DATAF = due \o rest
  <2>1. DATAF \in Seq(W)
    BY <1>1
  <2> QED
    BY <1>2, <2>1, Split
<1>4. handed \in Seq(W)
  BY <1>1 DEF GuiTypes
<1>5. handed' = handed \o due /\ DATAF' = rest
  BY <1>2 DEF Handed
<1>6. handed' \in Seq(W)
  BY <1>3, <1>4, <1>5, ConcatSeq
<1>7. (handed \o due) \o rest = handed \o (due \o rest)
  BY ONLY <1>3, <1>4, ConcatAssociative
<1>8. PICK b : b = [i \in 1..n |-> Body(due[i])] /\ b \in Seq(Text)
  <2>1. ASSUME NEW i \in 1..n PROVE Body(due[i]) \in Text
    <3>1. due[i] \in W
      BY <1>3
    <3>2. due[i] \in Text
      BY <1>1, <3>1 DEF Short
    <3> QED
      BY <3>2, LengthType
  <2>2. PICK b : b = [i \in 1..n |-> Body(due[i])]
    OBVIOUS
  <2>3. b \in [1..n -> Text]
    BY <2>1, <2>2
  <2>4. n \in Nat
    BY <1>3
  <2>5. b \in Seq(Text)
    BY ONLY <2>3, <2>4
  <2> QED
    BY <2>2, <2>5
<1>9. sent' \in Seq(Text)
  <2>1. sent' = sent \o b /\ sent \in Seq(Text)
    BY <1>2, <1>8 DEF Handed, GuiTypes
  <2> QED
    BY <1>8, <2>1, ConcatSeq
<1> QED
  BY <1>1, <1>3, <1>5, <1>6, <1>7, <1>9

LEMMA WireNext == WireInv /\ [Next]_vars => WireInv'
<1> SUFFICES ASSUME WireInv, [Next]_vars PROVE WireInv'
  OBVIOUS
<1> USE DEF WireInv
<1>1. CASE ReadLine
  <2>1. PICK c \in Short, line \in Seq(Letters) :
           /\ toPeer' \in Text /\ Len(toPeer') <= PIPE_SIZE
           /\ toPeer # <<>> => c # <<>>
           /\ DATAF' = Append(DATAF, c)
           /\ text' = line /\ peer' \in {"zero", "dead"}
           /\ peer = "select" /\ (toPeer # <<>> \/ server = "dead")
    BY <1>1, ReadLineSteps
  <2>2. UNCHANGED <<server, toPage, frame, adopted, handed, sent, typed, frames, new>>
    BY <1>1 DEF ReadLine
  <2>3. DATAF' \in Seq(Short)
    BY <2>1, AppendLonger DEF GuiTypes
  <2>4. NoEmptyLine'
    <3>1. CASE toPeer # <<>>
      <4>1. c \in Short \ {<<>>} /\ DATAF \in Seq(Short \ {<<>>})
        BY <2>1, <3>1 DEF NoEmptyLine, Doomed
      <4>2. DATAF' \in Seq(Short \ {<<>>})
        BY <2>1, <4>1, AppendLonger
      <4> QED
        BY <4>2 DEF NoEmptyLine
    <3>2. CASE server = "dead"
      BY <2>1, <2>2, <3>2 DEF NoEmptyLine, Doomed
    <3> QED
      BY <2>1, <3>1, <3>2
  <2> QED
    BY <2>1, <2>2, <2>3, <2>4 DEF GuiTypes
<1>2. CASE PrintZero
  <2>1. PICK q : q = IF server = "dead" THEN toPage ELSE Append(toPage, Z)
    OBVIOUS
  <2>2. toPage' = q /\ peer' \in {"dead", "text"} /\ peer = "zero"
        /\ (peer' = "text" => server # "dead")
        /\ UNCHANGED <<server, toPeer, text, frame, adopted, DATAF, handed, sent, typed, frames, new>>
    BY <1>2, <2>1 DEF PrintZero
  <2>3. q \in Seq(Letters) /\ Len(q) <= PIPE_SIZE
    <3>1. CASE server = "dead"
      BY <2>1, <3>1 DEF GuiTypes
    <3>2. CASE server # "dead"
      <4>1. Len(toPage) + 1 <= PIPE_SIZE
        BY <1>2, <3>2 DEF PrintZero, Room
      <4> QED
        BY <2>1, <3>2, <4>1, WrittenFacts DEF GuiTypes
    <3> QED
      BY <3>1, <3>2
  <2>4. NoEmptyLine'
    BY <2>2 DEF NoEmptyLine, Doomed
  <2> QED
    BY <2>2, <2>3, <2>4 DEF GuiTypes
<1>3. CASE PrintText
  <2>1. CASE server = "dead" /\ text # <<>> /\ peer' = "dead" /\ UNCHANGED <<toPage, text>>
    BY <1>3, <2>1 DEF PrintText, GuiTypes, NoEmptyLine, Doomed
  <2>2. CASE /\ Room(toPage, text) /\ toPage' = toPage \o text /\ text' = <<>>
             /\ peer' = "select"
    <3>1. toPage' \in Seq(Letters) /\ Len(toPage') <= PIPE_SIZE
      BY <2>2, ConcatSeq DEF GuiTypes, Room
    <3>2. peer = "text"
          /\ UNCHANGED <<server, toPeer, frame, adopted, DATAF, handed, sent, typed, frames, new>>
      BY <1>3 DEF PrintText
    <3>3. <<>> \in Seq(Letters)
      OBVIOUS
    <3> QED
      BY <2>2, <3>1, <3>2, <3>3 DEF GuiTypes, NoEmptyLine, Doomed
  <2> QED
    BY <1>3, <2>1, <2>2 DEF PrintText
<1>4. CASE Transmit
  <2>1. peer = "select"
        /\ UNCHANGED <<server, toPeer, toPage, text, frame, adopted, typed, frames, new>>
    BY <1>4 DEF Transmit
  <2>2. CASE peer' = "dead" /\ UNCHANGED <<DATAF, handed, sent>>
    BY <2>1, <2>2 DEF GuiTypes, NoEmptyLine, Doomed
  <2>3. CASE ~(peer' = "dead" /\ UNCHANGED <<DATAF, handed, sent>>)
    <3>1. PICK n \in 1..Len(DATAF) : Handed(n)
      BY <1>4, <2>3, TransmitSteps
    <3>2. DATAF \in Seq(Short \ {<<>>})
      BY <2>1 DEF NoEmptyLine, Doomed
    <3>3. DATAF' \in Seq(Short \ {<<>>}) /\ handed' \in Seq(Short \ {<<>>})
          /\ sent' \in Seq(Text)
      BY <3>1, <3>2, HandedTypes DEF GuiTypes
    <3>4. DATAF' \in Seq(Short)
      BY <3>3
    <3> QED
      BY <2>1, <3>1, <3>3, <3>4 DEF GuiTypes, NoEmptyLine, Handed
  <2> QED
    BY <2>2, <2>3
<1>5. CASE Establish
  BY <1>5 DEF Establish, GuiTypes, NoEmptyLine, Doomed
<1>6. ASSUME NEW k \in Typed, Receive(k) PROVE WireInv'
  <2>1. PICK b : b = Bytes(k) /\ b \in Text
    BY LineBytes DEF Text
  <2>2. server = "idle" /\ new' = new \ {k} /\ typed' = typed \o b /\ frame' = b
        /\ server' = "writing"
        /\ UNCHANGED <<peer, toPeer, toPage, text, adopted, DATAF, handed, sent, frames>>
    BY <1>6, <2>1 DEF Receive
  <2>3. typed' \in Text
    BY <2>1, <2>2, ConcatSeq DEF GuiTypes, Text
  <2>4. NoEmptyLine'
    BY <2>2 DEF NoEmptyLine, Doomed
  <2> QED
    BY <2>1, <2>2, <2>3, <2>4 DEF GuiTypes
<1>7. CASE ServerWrite
  <2>1. /\ server' = "idle" /\ frame' = <<>> /\ server = "writing"
        /\ UNCHANGED <<peer, toPage, text, adopted, DATAF, handed, sent, typed, frames, new>>
    BY <1>7 DEF ServerWrite
  <2>2. toPeer' \in Text /\ Len(toPeer') <= PIPE_SIZE
    <3>1. CASE UNCHANGED toPeer
      BY <3>1 DEF GuiTypes
    <3>2. CASE Room(toPeer, frame) /\ toPeer' = toPeer \o frame
      BY <3>2, ConcatSeq DEF GuiTypes, Room, Text
    <3> QED
      BY <1>7, <3>1, <3>2 DEF ServerWrite
  <2>3. <<>> \in Text
    BY DEF Text
  <2> QED
    BY <2>1, <2>2, <2>3 DEF GuiTypes, NoEmptyLine, Doomed
<1>8. CASE RawRxFile
  <2>1. /\ toPage # <<>> /\ toPage' = <<>> /\ frames' = Append(frames, toPage)
        /\ UNCHANGED <<peer, server, toPeer, text, frame, adopted, DATAF, handed, sent, typed, new>>
    BY <1>8 DEF RawRxFile
  <2>2. toPage \in Frame
    BY <2>1 DEF GuiTypes, Frame
  <2>3. frames' \in Seq(Frame)
    BY <2>1, <2>2, AppendLonger DEF GuiTypes
  <2>4. <<>> \in Seq(Letters) /\ Len(<<>>) <= PIPE_SIZE
    BY GuiAssumption
  <2> QED
    BY <2>1, <2>3, <2>4 DEF GuiTypes, NoEmptyLine, Doomed
<1>9. CASE Dies
  BY <1>9 DEF Dies, GuiTypes, NoEmptyLine, Doomed
<1>10. ASSUME NEW k \in Received, RecvData(k) PROVE WireInv'
  <2>1. text' \in Seq(Letters)
    BY <1>10, LineBytes DEF RecvData
  <2> QED
    BY <1>10, <2>1 DEF RecvData, GuiTypes, NoEmptyLine, Doomed
<1>11. CASE UNCHANGED vars
  BY <1>11 DEF vars, GuiTypes, NoEmptyLine, Doomed
<1> QED
  BY <1>1, <1>2, <1>3, <1>4, <1>5, <1>6, <1>7, <1>8, <1>9, <1>10, <1>11
     DEF Next, PeerStep, ServerStep
-----------------------------------------------------------------------------
\* What the page was sent ends with the zero of a message that is not complete.
EndsInZero == frames # <<>> /\ Last(frames[Len(frames)]) = Z

\* A zero is what the page will be sent first, or was sent last; while the peer is
\* between its two writes the last byte on the way to the page is its zero.
PageInv ==
  /\ LostOnlyBetweenWrites
  /\ toPage # <<>> => Head(toPage) = Z \/ EndsInZero
  /\ peer = "text" => IF toPage = <<>> THEN EndsInZero ELSE Last(toPage) = Z

LEMMA PageInit == Init => PageInv
BY DEF Init, PageInv, LostOnlyBetweenWrites

LEMMA PageNext == WireInv /\ PageInv /\ [Next]_vars => PageInv'
<1> SUFFICES ASSUME WireInv, PageInv, [Next]_vars PROVE PageInv'
  OBVIOUS
<1>0. toPage \in Seq(Letters) /\ text \in Seq(Letters) /\ frames \in Seq(Frame)
  BY DEF WireInv, GuiTypes
<1>1. CASE UNCHANGED <<frames, toPage>> /\ (peer' = "text" => peer = "text")
  BY <1>1 DEF PageInv, LostOnlyBetweenWrites, EndsInZero
<1>2. CASE PrintZero
  <2>1. CASE server = "dead"
    <3>1. UNCHANGED <<frames, toPage>> /\ peer' # "text"
      BY <1>2, <2>1 DEF PrintZero
    <3> QED
      BY <1>1, <3>1
  <2>2. CASE server # "dead"
    <3>1. toPage' = Append(toPage, Z) /\ UNCHANGED frames
      BY <1>2, <2>2 DEF PrintZero
    <3>2. toPage' # <<>> /\ Last(toPage') = Z
      BY <1>0, <3>1, WrittenFacts DEF Last
    <3>3. IF toPage = <<>> THEN Head(toPage') = Z ELSE Head(toPage') = Head(toPage)
      BY <1>0, <3>1, WrittenFacts
    <3> QED
      BY <3>1, <3>2, <3>3 DEF PageInv, LostOnlyBetweenWrites, EndsInZero
  <2> QED
    BY <2>1, <2>2
<1>3. CASE PrintText
  <2>1. CASE UNCHANGED toPage
    BY <1>1, <1>3, <2>1 DEF PrintText
  <2>2. CASE toPage' # toPage
    <3>1. toPage' = toPage \o text /\ peer = "text" /\ peer' = "select" /\ UNCHANGED frames
      BY <1>3, <2>2 DEF PrintText
    <3>2. toPage # <<>> => Head(toPage') = Head(toPage)
      BY <1>0, <3>1
    <3> QED
      BY <3>1, <3>2 DEF PageInv, LostOnlyBetweenWrites, EndsInZero
  <2> QED
    BY <2>1, <2>2
<1>4. CASE RawRxFile
  <2>1. PICK f, n : f = frames /\ n = Len(f)
    OBVIOUS
  <2>2. PICK q : q = toPage
    OBVIOUS
  <2>3. q # <<>> /\ toPage' = <<>> /\ frames' = Append(f, q) /\ peer' = peer
    BY <1>4, <2>1, <2>2 DEF RawRxFile
  <2>4. n \in Nat /\ q \in Frame
    BY <1>0, <2>1, <2>2, <2>3 DEF Frame
  <2>5. PICK g : g = Append(f, q)
    OBVIOUS
  <2>6. g \in Seq(Frame) /\ Len(g) = n + 1 /\ g[n + 1] = q /\ \A i \in 1..n : g[i] = f[i]
    BY <1>0, <2>1, <2>4, <2>5, AppendSeq
  <2>7. n > 0 => (EndsInZero <=> Last(f[n]) = Z)
    BY <1>0, <2>1 DEF EndsInZero
  <2>8. n = 0 => ~EndsInZero
    <3>1. f \in Seq(Frame) => (f # <<>> => Len(f) # 0)
      OBVIOUS
    <3> QED
      BY <1>0, <2>1, <3>1 DEF EndsInZero
  <2>9. ASSUME NEW i \in 1..(n + 1)
        PROVE  Head(g[i]) = Z \/ (i > 1 /\ Last(g[i - 1]) = Z)
    <3>1. CASE i = n + 1
      <4>1. Head(q) = Z \/ (n > 0 /\ Last(f[n]) = Z)
        BY <2>2, <2>3, <2>4, <2>7, <2>8 DEF PageInv
      <4>2. n > 0 => g[n] = f[n]
        BY <2>4, <2>6
      <4> QED
        BY <2>4, <2>6, <3>1, <4>1, <4>2
    <3>2. CASE i # n + 1
      <4>1. i \in 1..n /\ i \in DOMAIN f
        BY <1>0, <2>1, <2>4, <3>2
      <4>2. Head(f[i]) = Z \/ (i > 1 /\ Last(f[i - 1]) = Z)
        BY <2>1, <4>1 DEF PageInv, LostOnlyBetweenWrites
      <4>3. g[i] = f[i] /\ (i > 1 => g[i - 1] = f[i - 1])
        BY <2>4, <2>6, <4>1
      <4> QED
        BY <4>2, <4>3
    <3> QED
      BY <3>1, <3>2
  <2>10. LostOnlyBetweenWrites'
    <3>1. DOMAIN g = 1..(n + 1)
      BY <2>4, <2>6
    <3> QED
      BY <2>3, <2>5, <2>9, <3>1 DEF LostOnlyBetweenWrites
  <2>11. peer' = "text" => EndsInZero'
    <3>1. peer = "text" => Last(q) = Z
      BY <2>2, <2>3 DEF PageInv
    <3>2. g # <<>> /\ g[Len(g)] = q
      BY <2>4, <2>6
    <3> QED
      BY <2>3, <2>5, <3>1, <3>2 DEF EndsInZero
  <2> QED
    BY <2>3, <2>10, <2>11 DEF PageInv
<1>5. CASE ReadLine \/ Transmit \/ Establish \/ ServerWrite \/ Dies
  BY <1>1, <1>5 DEF ReadLine, Transmit, Establish, ServerWrite, Dies
<1>6. ASSUME NEW k, Receive(k) \/ RecvData(k) PROVE PageInv'
  BY <1>1, <1>6 DEF Receive, RecvData
<1>7. CASE UNCHANGED vars
  BY <1>1, <1>7 DEF vars
<1> QED
  BY <1>2, <1>3, <1>4, <1>5, <1>6, <1>7 DEF Next, PeerStep, ServerStep
-----------------------------------------------------------------------------
\* What was typed is what was made a message of or will be, then what is in the pipe,
\* then what the server is writing; when the peer is dead, what the server writes is lost.
SentInv ==
  /\ \E p \in Text : /\ FlattenSeq(handed \o DATAF) \o p = typed
                     /\ peer # "dead" => p = toPeer \o frame
  /\ Len(sent) = Len(handed)
  /\ \A i \in 1..Len(handed) : BodyLength(handed[i]) >= 0 /\ sent[i] = Body(handed[i])

LEMMA SentInit == Init => SentInv
<1> SUFFICES ASSUME Init PROVE SentInv
  OBVIOUS
<1>1. handed = <<>> /\ sent = <<>> /\ DATAF = <<>> /\ toPeer = <<>> /\ frame = <<>>
      /\ typed = <<>>
  BY DEF Init
<1>2. <<>> \o <<>> = <<>> /\ <<>> \in Text
  BY DEF Text
<1> QED
  BY <1>1, <1>2, FlattenEmpty DEF SentInv

LEMMA ConcatAppend ==
  ASSUME NEW S, NEW s \in Seq(S), NEW t \in Seq(S), NEW x \in S
  PROVE  s \o Append(t, x) = Append(s \o t, x)
OBVIOUS

LEMMA AddNothing ==
  ASSUME NEW S, NEW s \in Seq(S)
  PROVE  s \o <<>> = s
OBVIOUS

LEMMA SentNext == WireInv /\ SentInv /\ [Next]_vars => SentInv'
<1> SUFFICES ASSUME WireInv, SentInv, [Next]_vars PROVE SentInv'
  OBVIOUS
<1>0. /\ toPeer \in Text /\ frame \in Text /\ typed \in Text
      /\ DATAF \in Seq(Text) /\ handed \in Seq(Text)
  <2>1. DATAF \in Seq(Short) /\ handed \in Seq(Short \ {<<>>})
    BY DEF WireInv, GuiTypes
  <2>2. Short \subseteq Text
    BY DEF Short
  <2>3. DATAF \in Seq(Text) /\ handed \in Seq(Text)
    BY <2>1, <2>2
  <2> QED
    BY <2>3 DEF WireInv, GuiTypes
<1>1. PICK all, L : /\ L = handed \o DATAF /\ L \in Seq(Text)
                    /\ all = FlattenSeq(L) /\ all \in Text
  <2>1. PICK L : L = handed \o DATAF /\ L \in Seq(Text)
    BY <1>0, ConcatSeq
  <2>2. FlattenSeq(L) \in Text
    BY <2>1, FlattenType DEF Text
  <2> QED
    BY <2>1, <2>2
<1>2. PICK p \in Text : all \o p = typed /\ (peer # "dead" => p = toPeer \o frame)
  BY <1>1 DEF SentInv
<1>4. CASE /\ UNCHANGED <<handed, sent, DATAF, toPeer, frame, typed>>
           /\ peer' # "dead" => peer # "dead"
  BY <1>4 DEF SentInv
<1>5. CASE ReadLine
  <2>1. PICK c \in Text : toPeer = c \o toPeer' /\ toPeer' \in Text
                          /\ DATAF' = Append(DATAF, c) /\ peer = "select"
    BY <1>5, ReadLineSteps DEF WireInv, Short
  <2>2. UNCHANGED <<frame, handed, sent, typed>>
    BY <1>5 DEF ReadLine
  <2>3. handed \o DATAF' = Append(L, c)
    BY <1>0, <1>1, <2>1, ConcatAppend
  <2>4. FlattenSeq(handed \o DATAF') = all \o c
    <3>1. FlattenSeq(Append(L, c)) = FlattenSeq(L) \o c
      BY <1>1, <2>1, FlattenAppend DEF Text
    <3> QED
      BY <1>1, <2>3, <3>1
  <2>5. PICK q, f, u : q = toPeer' /\ f = frame /\ u = q \o f
    OBVIOUS
  <2>6. (all \o c) \o u = typed /\ u \in Text
    <3>1. /\ all \in Seq(Written) /\ c \in Seq(Written)
          /\ q \in Seq(Written) /\ f \in Seq(Written)
      BY <1>0, <1>1, <2>1, <2>5 DEF Text
    <3>2. p = (c \o q) \o f
      BY <1>2, <2>1, <2>5
    <3>3. u \in Seq(Written)
      BY <2>5, <3>1, ConcatSeq
    <3>4. (all \o c) \o u = all \o (c \o u)
      <4>1. all \in Seq(Written) /\ c \in Seq(Written) /\ u \in Seq(Written)
        BY <3>1, <3>3
      <4> QED
        BY ONLY <4>1, ConcatAssociative
    <3>5. (c \o q) \o f = c \o (q \o f)
      BY ONLY <3>1, ConcatAssociative
    <3> QED
      BY <1>2, <2>5, <3>2, <3>3, <3>4, <3>5 DEF Text
  <2> QED
    BY <2>2, <2>4, <2>5, <2>6 DEF SentInv
<1>6. CASE Transmit
  <2>1. peer = "select" /\ UNCHANGED <<toPeer, frame, typed>>
    BY <1>6 DEF Transmit
  <2>2. CASE peer' = "dead" /\ UNCHANGED <<DATAF, handed, sent>>
    BY <1>4, <2>1, <2>2
  <2>3. CASE \E n \in 1..Len(DATAF) : Handed(n)
    <3>1. PICK n \in 1..Len(DATAF) : Handed(n)
      BY <2>3
    <3>2. DATAF \in Seq(Short \ {<<>>})
      BY <2>1 DEF WireInv, NoEmptyLine, Doomed
    <3>3. handed' \o DATAF' = L
      BY <1>1, <3>1, <3>2, HandedTypes DEF WireInv
    <3>4. \E r \in Text : /\ FlattenSeq(handed' \o DATAF') \o r = typed'
                          /\ peer' # "dead" => r = toPeer' \o frame'
      <4>1. peer' = peer
        BY <3>1 DEF Handed
      <4> QED
        BY <1>1, <1>2, <2>1, <3>3, <4>1
    <3>5. PICK due, b : due = SubSeq(DATAF, 1, n) /\ b = [i \in 1..n |-> Body(due[i])]
      OBVIOUS
    <3>6. due \in Seq(Text) /\ Len(due) = n
      BY <1>0, <3>5, Split
    <3>7. b \in Seq(Text) /\ Len(b) = n
      <4>1. \A i \in 1..n : Body(due[i]) \in Text
        BY <3>6, LengthType
      <4> QED
        BY <3>5, <4>1
    <3>8. handed' = handed \o due /\ sent' = sent \o b
          /\ \A i \in 1..n : BodyLength(due[i]) >= 0
      BY <3>1, <3>5 DEF Handed
    <3>9. PICK h, e, k : /\ h = handed /\ e = sent /\ h \in Seq(Text) /\ e \in Seq(Text)
                         /\ k = Len(h) /\ k = Len(e) /\ k \in Nat
      BY <1>0 DEF SentInv, WireInv, GuiTypes
    <3>10. Len(handed') = k + n /\ Len(sent') = k + n
      <4>1. Len(h \o due) = Len(h) + Len(due)
        BY ONLY <3>6, <3>9, ConcatSeq
      <4>2. Len(e \o b) = Len(e) + Len(b)
        BY ONLY <3>7, <3>9, ConcatSeq
      <4> QED
        BY <3>6, <3>7, <3>8, <3>9, <4>1, <4>2
    <3>11. ASSUME NEW i \in 1..(k + n)
           PROVE  BodyLength(handed'[i]) >= 0 /\ sent'[i] = Body(handed'[i])
      <4>1. Len(h) = Len(e) /\ Len(due) = Len(b) /\ i \in 1..(Len(h) + Len(due))
        BY <3>6, <3>7, <3>9
      <4>2. /\ i <= Len(h) => (h \o due)[i] = h[i]
            /\ i > Len(h) => (h \o due)[i] = due[i - Len(h)]
        BY ONLY <3>6, <3>9, <4>1, ConcatAt
      <4>3. /\ i <= Len(e) => (e \o b)[i] = e[i]
            /\ i > Len(e) => (e \o b)[i] = b[i - Len(e)]
        <5>1. i \in 1..(Len(e) + Len(b))
          BY <4>1
        <5> QED
          BY ONLY <3>7, <3>9, <5>1, ConcatAt
      <4>4. CASE i <= k
        <5>1. i \in 1..Len(handed)
          BY <3>9, <4>4
        <5>2. handed'[i] = handed[i] /\ sent'[i] = sent[i]
          BY <3>8, <3>9, <4>2, <4>3, <4>4
        <5> QED
          BY <5>1, <5>2 DEF SentInv
      <4>5. CASE i > k
        <5>1. i - k \in 1..n
          BY <3>9, <4>5
        <5>2. handed'[i] = due[i - k] /\ sent'[i] = b[i - k]
          BY <3>8, <3>9, <4>2, <4>3, <4>5
        <5> QED
          BY <3>5, <3>8, <5>1, <5>2
      <4> QED
        BY <3>9, <4>4, <4>5
    <3> QED
      BY <3>4, <3>10, <3>11 DEF SentInv
  <2> QED
    BY <1>6, <2>2, <2>3, TransmitSteps DEF WireInv
<1>7. ASSUME NEW k \in Typed, Receive(k) PROVE SentInv'
  <2>1. PICK b : b = Bytes(k) /\ b \in Text
    BY LineBytes DEF Text
  <2>2. server = "idle" /\ typed' = typed \o b /\ frame' = b
        /\ UNCHANGED <<peer, toPeer, DATAF, handed, sent>>
    BY <1>7, <2>1 DEF Receive
  <2>3. toPeer \o frame = toPeer
    BY <1>0, <2>2, AddNothing DEF WireInv, Text
  <2>4. (all \o p) \o b = all \o (p \o b) /\ p \o b \in Text
    <3>1. all \in Seq(Written) /\ p \in Seq(Written) /\ b \in Seq(Written)
      BY <1>1, <1>2, <2>1 DEF Text
    <3>2. p \o b \in Seq(Written)
      BY <3>1, ConcatSeq
    <3>3. (all \o p) \o b = all \o (p \o b)
      BY ONLY <3>1, ConcatAssociative
    <3> QED
      BY <3>2, <3>3 DEF Text
  <2>5. all \o (p \o b) = typed'
    BY <1>2, <2>2, <2>4
  <2>6. peer' # "dead" => p \o b = toPeer' \o frame'
    BY <1>2, <2>2, <2>3
  <2>7. FlattenSeq(handed' \o DATAF') = all
    BY <1>1, <2>2
  <2> QED
    BY <2>2, <2>4, <2>5, <2>6, <2>7 DEF SentInv
<1>8. CASE ServerWrite
  <2>1. UNCHANGED <<peer, DATAF, handed, sent, typed>> /\ frame' = <<>>
    BY <1>8 DEF ServerWrite
  <2>2. peer' # "dead" => p = toPeer' \o frame'
    <3>1. SUFFICES ASSUME peer # "dead" PROVE p = toPeer' \o frame'
      BY <2>1
    <3>2. toPeer' = toPeer \o frame
      BY <1>8, <3>1 DEF ServerWrite
    <3>3. toPeer \o frame \in Text
      BY <1>0, ConcatSeq DEF Text
    <3>4. (toPeer \o frame) \o <<>> = toPeer \o frame
      BY <3>3, AddNothing DEF Text
    <3> QED
      BY <1>2, <2>1, <3>1, <3>2, <3>4
  <2> QED
    BY <1>1, <1>2, <2>1, <2>2 DEF SentInv
<1>9. CASE PrintZero \/ PrintText \/ Establish \/ RawRxFile \/ Dies
  BY <1>4, <1>9 DEF PrintZero, PrintText, Establish, RawRxFile, Dies
<1>10. ASSUME NEW k, RecvData(k) PROVE SentInv'
  BY <1>4, <1>10 DEF RecvData
<1>11. CASE UNCHANGED vars
  BY <1>4, <1>11 DEF vars
<1> QED
  BY <1>5, <1>6, <1>7, <1>8, <1>9, <1>10, <1>11 DEF Next, PeerStep, ServerStep

\* Of a length that send_data() reads as it is, all leaves; of the two lengths that it
\* reads as -2 and -1, nothing.
LEMMA BodyIs ==
  ASSUME NEW s \in Short \ {<<>>}, BodyLength(s) >= 0
  PROVE  \/ Len(s) > 0 /\ 2 * (Header + Len(s)) < Byte /\ Body(s) = s
         \/ Len(s) \in {MaxText - 1, MaxText} /\ Body(s) = <<>>
<1>1. PICK n \in Nat : n = Len(s) /\ n > 0 /\ n <= MaxText
  <2>1. s \in Seq(Written) /\ s # <<>> /\ Len(s) <= MaxText
    BY DEF Short, Text
  <2>2. Len(s) \in Nat /\ Len(s) > 0
    BY <2>1
  <2> QED
    BY <2>1, <2>2
<1>2. Header \in Nat /\ Byte \in Nat /\ MaxText = Byte - 1 - Header
  BY GuiAssumption DEF MaxText
<1>3. CASE 2 * (Header + n) < Byte
  <2>1. BodyLength(s) = Header + n + 2
    BY <1>1, <1>2, <1>3 DEF BodyLength, Signed
  <2>2. Body(s) = s
    BY <1>1, <1>2, <2>1 DEF Body
  <2> QED
    BY <1>1, <1>3, <2>2
<1>4. CASE ~(2 * (Header + n) < Byte)
  <2>1. BodyLength(s) = Header + n - Byte + 2
    BY <1>1, <1>2, <1>4 DEF BodyLength, Signed
  <2>2. n \in {MaxText - 1, MaxText} /\ BodyLength(s) < 2
    BY <1>1, <1>2, <2>1
  <2> QED
    BY <1>1, <2>2 DEF Body
<1> QED
  BY <1>3, <1>4

LEMMA SentInvImplies == WireInv /\ SentInv => SentIsTyped
<1> SUFFICES ASSUME WireInv, SentInv PROVE SentIsTyped
  OBVIOUS
<1>1. handed \in Seq(Short \ {<<>>}) /\ DATAF \in Seq(Short)
  BY DEF WireInv, GuiTypes
<1>2. handed \in Seq(Text) /\ DATAF \in Seq(Text)
  <2>1. Short \subseteq Text
    BY DEF Short
  <2> QED
    BY <1>1, <2>1
<1>3. PICK F : F = FlattenSeq(handed) /\ F \in Seq(Written)
  BY <1>2, FlattenType DEF Text
<1>4. PICK r \in Seq(Written) : FlattenSeq(handed \o DATAF) = F \o r
  BY <1>2, <1>3, FlattenPrefix DEF Text
<1>5. PICK p \in Seq(Written) : (F \o r) \o p = typed
  BY <1>4 DEF SentInv, Text
<1>6. PICK u : u \in Seq(Written) /\ u = r \o p
  BY <1>4, <1>5, ConcatSeq
<1>7. (F \o r) \o p = F \o (r \o p)
  <2>1. F \in Seq(Written) /\ r \in Seq(Written) /\ p \in Seq(Written)
    BY <1>3, <1>4, <1>5
  <2> QED
    BY ONLY <2>1, ConcatAssociative
<1>8. IsPrefix(F, F \o u)
  BY <1>3, <1>6 DEF IsPrefix
<1>9. ASSUME NEW i \in 1..Len(handed)
      PROVE  \/ /\ Len(handed[i]) > 0 /\ 2 * (Header + Len(handed[i])) < Byte
                /\ sent[i] = handed[i]
             \/ /\ Len(handed[i]) \in {MaxText - 1, MaxText}
                /\ sent[i] = <<>>
  <2>1. handed[i] \in Short \ {<<>>}
    BY <1>1
  <2>2. BodyLength(handed[i]) >= 0 /\ sent[i] = Body(handed[i])
    BY DEF SentInv
  <2> QED
    BY <2>1, <2>2, BodyIs
<1>10. IsPrefix(F, typed)
  BY <1>5, <1>6, <1>7, <1>8
<1> QED
  BY <1>3, <1>9, <1>10 DEF SentIsTyped, SentInv

LEMMA TypesImplies == WireInv => GuiTypeOK
<1> SUFFICES ASSUME WireInv PROVE GuiTypeOK
  OBVIOUS
<1> USE DEF WireInv, GuiTypes
<1>1. ASSUME NEW s \in Seq(Letters) PROVE IsByteSeq(s)
  <2>1. \A b \in Letters : b = Z \/ b[1] \in Typed \cup Received
    BY DEF Letters
  <2> QED
    BY <2>1 DEF IsByteSeq
<1>2. ASSUME NEW s \in Text PROVE IsByteSeq(s)
  <2>1. s \in Seq(Letters)
    BY WrittenFacts DEF Text
  <2> QED
    BY <1>1, <2>1
<1>3. \A i \in DOMAIN frames : IsByteSeq(frames[i]) /\ frames[i] # <<>>
  BY <1>1 DEF Frame
<1>4. \A s \in ToSet(DATAF \o handed \o sent) : IsByteSeq(s)
  <2>1. DATAF \in Seq(Text) /\ handed \in Seq(Text) /\ sent \in Seq(Text)
    <3>1. Short \subseteq Text /\ DATAF \in Seq(Short) /\ handed \in Seq(Short \ {<<>>})
      BY DEF Short
    <3> QED
      BY <3>1
  <2>2. PICK L \in Seq(Text) : L = DATAF \o handed \o sent
    <3>1. DATAF \o handed \in Seq(Text)
      BY <2>1, ConcatSeq
    <3> QED
      BY <2>1, <3>1, ConcatSeq
  <2> QED
    BY <1>2, <2>2 DEF ToSet
<1>5. \A s \in {toPeer, toPage, text, frame, typed} : IsByteSeq(s)
  BY <1>1, <1>2
<1> QED
  BY <1>3, <1>4, <1>5 DEF GuiTypeOK

LEMMA GuiInvariant == Spec => [](WireInv /\ PageInv /\ SentInv)
<1>1. Init => WireInv /\ PageInv /\ SentInv
  BY WireInit, PageInit, SentInit
<1>2. WireInv /\ PageInv /\ SentInv /\ [Next]_vars => (WireInv /\ PageInv /\ SentInv)'
  BY WireNext, PageNext, SentNext
<1> QED
  BY <1>1, <1>2, PTL DEF Spec
-----------------------------------------------------------------------------
\* The pipes hold bytes of lines, and no more than fit; no frame is empty.
THEOREM GuiTypeCorrect == Spec => []GuiTypeOK
BY GuiInvariant, TypesImplies, PTL

\* The peer makes messages of what was typed, byte for byte and in order, however the
\* reads of main() join and cut the lines; send_data(), which reads the length as signed,
\* sends the whole of each, except those of 241 and 242 bytes, of which nothing leaves,
\* and those of 115 to 240, which end the peer; the line that main() makes up of
\* nothing when the server is gone is never transmitted.
THEOREM GuiSentIsTyped == Spec => []SentIsTyped
BY GuiInvariant, SentInvImplies, PTL

\* The page, which leaves out the first byte of a frame, loses a character only when
\* the server reads between the two writes of print_on_screen().
THEOREM GuiLostOnlyBetweenWrites == Spec => []LostOnlyBetweenWrites
<1>1. PageInv => LostOnlyBetweenWrites
  BY DEF PageInv
<1> QED
  BY <1>1, GuiInvariant, PTL
=============================================================================
