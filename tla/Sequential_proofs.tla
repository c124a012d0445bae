-------------------------- MODULE Sequential_proofs ---------------------------
(***************************************************************************)
(* Proofs for the two parts of a peer whose work is one call after the     *)
(* other, without interleaving: the parser of datagrams (TlvParser) and    *)
(* the search tree behind the neighbour tables (Abr).  They are            *)
(* independent of each other.                                              *)
(*                                                                         *)
(* For the tree, TreeInv is the inductive invariant: pointers lead to      *)
(* nodes, no two lead to the same one, and the search for the key of a     *)
(* node finds that node.  A search is a chain of pointers, the least set   *)
(* of blocks closed under its next pointer, so what would be an induction  *)
(* over the depth of the tree is an instance of that definition.           *)
(***************************************************************************)
EXTENDS TlvParser, Abr, FiniteSetTheorems, TLAPS
-----------------------------------------------------------------------------
\* Inside the loop the bytes of type and length are those of the array.
LEMMA HeaderOfTlv ==
  ASSUME ParserTypeOK, InLoop PROVE type \in Nat /\ length \in Nat
<1>1. pos \in 0..(MaxBody + 1) /\ pos + 1 \in 0..(MaxBody + 1)
  BY ParserAssumption DEF ParserTypeOK, InLoop
<1> QED
  BY <1>1, ParserAssumption DEF ParserTypeOK, type, length

\* The type invariant is inductive by itself: a TLV that is handed over or
\* skipped starts inside the body and its length was compared with what is left
\* of it, so the position ends at most two bytes behind.
THEOREM ParserTypeCorrect == ParserSpec => []ParserTypeOK
<1>1. ParserInit => ParserTypeOK
  BY ParserAssumption DEF ParserInit, ParserTypeOK, Header
<1>2. ParserTypeOK /\ [Parse \/ Returned]_parserVars => ParserTypeOK'
  <2> SUFFICES ASSUME ParserTypeOK, [Parse \/ Returned]_parserVars
               PROVE  ParserTypeOK'
    OBVIOUS
  <2> USE ParserAssumption DEF ParserTypeOK
  <2>1. CASE CheckHeader
    BY <2>1 DEF CheckHeader, input
  <2>2. CASE Pad1
    BY <2>2 DEF Pad1, InLoop, Larger, input
  <2>3. CASE TooLong
    BY <2>3 DEF TooLong, InLoop, Larger, input
  <2>4. CASE Handle
    <3>1. /\ pos < body_length /\ length <= body_length - pos
          /\ reach' = Larger(reach, pos + 2 + length)
          /\ pos' = pos + length + 2
          /\ UNCHANGED <<input, pc>>
      BY <2>4 DEF Handle, InLoop
    <3>2. length \in Nat
      BY <2>4, HeaderOfTlv DEF Handle
    <3> QED
      BY <3>1, <3>2 DEF Larger, input
  <2>5. CASE Skip
    BY <2>5, HeaderOfTlv DEF Skip, InLoop, Larger, input
  <2>6. CASE Finish
    BY <2>6 DEF Finish, input
  <2>7. CASE UNCHANGED parserVars
    BY <2>7 DEF parserVars, input
  <2> QED
    BY <2>1, <2>2, <2>3, <2>4, <2>5, <2>6, <2>7 DEF Parse, Returned
<1> QED
  BY <1>1, <1>2, PTL DEF ParserSpec

\* Whatever the datagram, handle_message_h() reads at most two bytes behind the
\* body that the header announces.
THEOREM ParserOverrun == ParserSpec => []OverrunAtMostTwo
<1>1. ParserInit => OverrunAtMostTwo
  BY ParserAssumption DEF ParserInit, OverrunAtMostTwo
<1>2. ParserTypeOK /\ OverrunAtMostTwo /\ [Parse \/ Returned]_parserVars
        => OverrunAtMostTwo'
  <2> SUFFICES ASSUME ParserTypeOK, OverrunAtMostTwo, [Parse \/ Returned]_parserVars
               PROVE  OverrunAtMostTwo'
    OBVIOUS
  <2> USE ParserAssumption DEF ParserTypeOK, OverrunAtMostTwo
  <2>1. CASE CheckHeader
    BY <2>1 DEF CheckHeader, input
  <2>2. CASE Pad1
    BY <2>2 DEF Pad1, InLoop, Larger, input
  <2>3. CASE TooLong
    BY <2>3 DEF TooLong, InLoop, Larger, input
  <2>4. CASE Handle
    <3>1. /\ pos < body_length /\ length <= body_length - pos
          /\ reach' = Larger(reach, pos + 2 + length)
          /\ pos' = pos + length + 2
          /\ UNCHANGED <<input, pc>>
      BY <2>4 DEF Handle, InLoop
    <3>2. length \in Nat
      BY <2>4, HeaderOfTlv DEF Handle
    <3> QED
      BY <3>1, <3>2 DEF Larger, input
  <2>5. CASE Skip
    BY <2>5, HeaderOfTlv DEF Skip, InLoop, Larger, input
  <2>6. CASE Finish
    BY <2>6 DEF Finish, input
  <2>7. CASE UNCHANGED parserVars
    BY <2>7 DEF parserVars, input
  <2> QED
    BY <2>1, <2>2, <2>3, <2>4, <2>5, <2>6, <2>7 DEF Parse, Returned
<1> QED
  BY <1>1, <1>2, ParserTypeCorrect, PTL DEF ParserSpec
-----------------------------------------------------------------------------
\* The end of the TLV that starts at c, as IsCut() defines it.
TlvEnd(c) == IF body[c] = 0 THEN c + 1 ELSE c + 2 + body[c + 1]

Starts == {handled[i][1] : i \in 1..Len(handled)}

HandledType == handled \in Seq(Nat \X Nat \X Nat)

\* How far the parser has come in a body that C cuts into TLVs.
Reached(C) ==
  /\ pos \in C
  /\ reach <= pos
  /\ Starts = {c \in C : c < pos /\ body[c] # 0 /\ body[c] < NB_TLV}
  /\ \A i, j \in 1..Len(handled) : i < j => handled[i][1] < handled[j][1]
  /\ \A i \in 1..Len(handled) : handled[i][1] < pos
  /\ pc = "done" => pos = body_length

\* The strengthening: the parser stands on a cut of every cutting.
OnCut ==
  Accepted => \A C \in SUBSET (0..body_length) : IsCut(C) => Reached(C)

\* From a cut the end of the TLV that begins there is the next one.
LEMMA CutStep ==
  ASSUME ParserTypeOK, InLoop, NEW C \in SUBSET (0..body_length), IsCut(C), pos \in C
  PROVE  /\ TlvEnd(pos) \in C
         /\ TlvEnd(pos) \in Nat /\ TlvEnd(pos) <= body_length /\ pos < TlvEnd(pos)
         /\ \A c \in C : c < TlvEnd(pos) <=> c < pos \/ c = pos
<1>1. pos \in C \ {body_length}
  BY DEF InLoop, ParserTypeOK
<1>2. TlvEnd(pos) \in C /\ \A x \in C : x <= pos \/ x >= TlvEnd(pos)
  BY <1>1 DEF IsCut, TlvEnd
<1>3. type \in Nat /\ length \in Nat
  BY HeaderOfTlv
<1>4. TlvEnd(pos) \in Nat /\ pos < TlvEnd(pos)
  BY <1>3 DEF TlvEnd, type, length, ParserTypeOK
<1>5. pos \in Nat /\ body_length \in Nat /\ C \subseteq 0..body_length
  BY DEF ParserTypeOK
<1>6. \A c \in C : c < TlvEnd(pos) <=> c < pos \/ c = pos
  BY <1>2, <1>4, <1>5
<1> QED
  BY <1>2, <1>4, <1>5, <1>6

\* Where a TLV that was handed over starts.
LEMMA StartType ==
  ASSUME HandledType, NEW i \in 1..Len(handled) PROVE handled[i][1] \in Nat
<1>1. handled[i] \in Nat \X Nat \X Nat
  BY DEF HandledType
<1> QED
  BY <1>1

\* What handing a TLV over does to the history.
LEMMA HandOver ==
  ASSUME HandledType, NEW t \in Nat \X Nat \X Nat, handled' = Append(handled, t),
         NEW b \in Nat, t[1] < b,
         \A i, j \in 1..Len(handled) : i < j => handled[i][1] < handled[j][1],
         \A i \in 1..Len(handled) : handled[i][1] < t[1]
  PROVE  /\ HandledType'
         /\ Starts' = Starts \cup {t[1]}
         /\ \A i, j \in 1..Len(handled') : i < j => handled'[i][1] < handled'[j][1]
         /\ \A i \in 1..Len(handled') : handled'[i][1] < b
<1>1. Len(handled) \in Nat /\ Len(handled') = Len(handled) + 1 /\ HandledType'
  BY DEF HandledType
<1>2. handled'[Len(handled) + 1] = t
  BY DEF HandledType
<1>3. \A i \in 1..Len(handled) : handled'[i] = handled[i]
  BY DEF HandledType
<1>4. \A i \in 1..Len(handled') : i \in 1..Len(handled) \/ i = Len(handled) + 1
  BY <1>1
<1>5. \A i \in 1..Len(handled) : handled[i][1] \in Nat
  BY StartType
<1>6. t[1] \in Nat
  OBVIOUS
<1>7. Starts' = Starts \cup {t[1]}
  BY <1>1, <1>2, <1>3, <1>4 DEF Starts
<1>8. ASSUME NEW i \in 1..Len(handled'), NEW j \in 1..Len(handled'), i < j
      PROVE  handled'[i][1] < handled'[j][1]
  BY <1>1, <1>2, <1>3, <1>4, <1>8
<1>9. \A i \in 1..Len(handled') : handled'[i][1] < b
  BY <1>2, <1>3, <1>4, <1>5, <1>6
<1> QED
  BY <1>1, <1>7, <1>8, <1>9

\* One step of the loop over a body that C cuts up moves to the end of a TLV.
LEMMA ReachedStep ==
  ASSUME ParserTypeOK, HandledType, NEW C \in SUBSET (0..body_length),
         IsCut(C), Reached(C), Accepted, [Parse \/ Returned]_parserVars
  PROVE  Reached(C)'
<1>0. /\ pos \in C /\ pos \in Nat /\ reach \in Nat /\ body_length \in Nat
      /\ C \subseteq 0..body_length /\ reach <= pos
      /\ pc \in {"start", "loop", "done"}
  BY DEF ParserTypeOK, Reached
<1>1. CASE CheckHeader
  <2>1. UNCHANGED <<body_length, body, pos, reach, handled>> /\ pc' = "loop"
    BY <1>1 DEF CheckHeader, input
  <2> QED
    BY <2>1 DEF Reached, Starts
<1>2. CASE Pad1
  <2>1. /\ InLoop /\ body[pos] = 0 /\ pos' = pos + 1 /\ reach' = Larger(reach, pos + 1)
        /\ UNCHANGED <<body_length, body, handled, pc>> /\ pc = "loop"
    BY <1>2 DEF Pad1, InLoop, input, type
  <2>2. /\ pos + 1 \in C /\ \A c \in C : c < pos + 1 <=> c < pos \/ c = pos
    BY <2>1, <1>0, CutStep DEF TlvEnd
  <2>3. reach' <= pos'
    BY <2>1, <1>0 DEF Larger
  <2>4. Starts' = {c \in C : c < pos' /\ body'[c] # 0 /\ body'[c] < NB_TLV}
    <3>1. Starts' = Starts
      BY <2>1 DEF Starts
    <3>2. \A c \in C : (c < pos' /\ body'[c] # 0 /\ body'[c] < NB_TLV)
                    <=> (c < pos /\ body[c] # 0 /\ body[c] < NB_TLV)
      BY <2>1, <2>2
    <3> QED
      BY <3>1, <3>2 DEF Reached
  <2>5. \A i \in 1..Len(handled) : handled[i][1] < pos + 1
    <3>1. \A i \in 1..Len(handled) : handled[i][1] \in Nat /\ handled[i][1] < pos
      BY StartType DEF Reached
    <3> QED
      BY <3>1, <1>0
  <2> QED
    BY <2>1, <2>2, <2>3, <2>4, <2>5 DEF Reached
<1>3. CASE TooLong
  <2>1. InLoop /\ body[pos] # 0 /\ body[pos + 1] > body_length - pos
    BY <1>3 DEF TooLong, type, length
  <2>2. TlvEnd(pos) = pos + 2 + body[pos + 1] /\ TlvEnd(pos) <= body_length
    BY <2>1, <1>0, CutStep DEF TlvEnd
  <2>3. body[pos + 1] \in Nat
    BY <2>1, HeaderOfTlv DEF length
  <2> QED
    BY <2>1, <2>2, <2>3, <1>0
<1>4. CASE Handle
  <2>1. /\ InLoop /\ type # 0 /\ type < NB_TLV
        /\ handled' = Append(handled, <<pos, type, length>>)
        /\ reach' = Larger(reach, pos + 2 + length)
        /\ pos' = pos + length + 2
        /\ UNCHANGED <<body_length, body, pc>> /\ pc = "loop"
    BY <1>4 DEF Handle, InLoop, input
  <2>2. type \in Nat /\ length \in Nat
    BY <2>1, HeaderOfTlv
  <2>3. TlvEnd(pos) = pos'
    <3>1. type # 0 /\ pos' = pos + length + 2
      BY <2>1
    <3>2. TlvEnd(pos) = pos + 2 + length
      BY <3>1 DEF TlvEnd, type, length
    <3> QED
      BY <3>1, <3>2, <2>2, <1>0
  <2>4. pos' \in C /\ pos' \in Nat /\ \A c \in C : c < pos' <=> c < pos \/ c = pos
    BY <2>1, <2>3, <1>0, CutStep
  <2>5. reach' <= pos'
    BY <2>1, <2>2, <1>0 DEF Larger
  <2>6. /\ Starts' = Starts \cup {pos}
        /\ \A i, j \in 1..Len(handled') : i < j => handled'[i][1] < handled'[j][1]
        /\ \A i \in 1..Len(handled') : handled'[i][1] < pos'
    <3> DEFINE t == <<pos, type, length>>
    <3>1. t \in Nat \X Nat \X Nat /\ t[1] = pos
      BY <2>2, <1>0
    <3>2. handled' = Append(handled, t) /\ t[1] < pos'
      BY <2>1, <2>2, <1>0
    <3>3. /\ \A i, j \in 1..Len(handled) : i < j => handled[i][1] < handled[j][1]
          /\ \A i \in 1..Len(handled) : handled[i][1] < t[1]
      BY <3>1 DEF Reached
    <3> HIDE DEF t
    <3> QED
      BY <3>1, <3>2, <3>3, <2>4, HandOver
  <2>7. Starts' = {c \in C : c < pos' /\ body'[c] # 0 /\ body'[c] < NB_TLV}
    <3>1. Starts = {c \in C : c < pos /\ body[c] # 0 /\ body[c] < NB_TLV}
      BY DEF Reached
    <3>2. \A c \in C : (c < pos' /\ body'[c] # 0 /\ body'[c] < NB_TLV)
                    <=> (c < pos /\ body[c] # 0 /\ body[c] < NB_TLV) \/ c = pos
      BY <2>1, <2>4 DEF type
    <3> QED
      BY <3>1, <3>2, <2>6, <1>0
  <2> QED
    BY <2>1, <2>4, <2>5, <2>6, <2>7 DEF Reached
<1>5. CASE Skip
  <2>1. /\ InLoop /\ type # 0 /\ type >= NB_TLV
        /\ reach' = Larger(reach, pos + 2)
        /\ pos' = pos + length + 2
        /\ UNCHANGED <<body_length, body, handled, pc>> /\ pc = "loop"
    BY <1>5 DEF Skip, InLoop, input
  <2>2. type \in Nat /\ length \in Nat
    BY <2>1, HeaderOfTlv
  <2>3. TlvEnd(pos) = pos'
    <3>1. type # 0 /\ pos' = pos + length + 2
      BY <2>1
    <3>2. TlvEnd(pos) = pos + 2 + length
      BY <3>1 DEF TlvEnd, type, length
    <3> QED
      BY <3>1, <3>2, <2>2, <1>0
  <2>4. pos' \in C /\ pos' \in Nat /\ \A c \in C : c < pos' <=> c < pos \/ c = pos
    BY <2>1, <2>3, <1>0, CutStep
  <2>5. reach' <= pos'
    BY <2>1, <2>2, <1>0 DEF Larger
  <2>6. Starts' = {c \in C : c < pos' /\ body'[c] # 0 /\ body'[c] < NB_TLV}
    <3>1. Starts' = Starts
      BY <2>1 DEF Starts
    <3>2. ~(body[pos] < NB_TLV)
      BY <2>1, <2>2, ParserAssumption DEF type
    <3>3. \A c \in C : (c < pos' /\ body'[c] # 0 /\ body'[c] < NB_TLV)
                    <=> (c < pos /\ body[c] # 0 /\ body[c] < NB_TLV)
      BY <2>1, <2>4, <3>2
    <3> QED
      BY <3>1, <3>3 DEF Reached
  <2>7. \A i \in 1..Len(handled) : handled[i][1] < pos'
    <3>1. \A i \in 1..Len(handled) : handled[i][1] \in Nat /\ handled[i][1] < pos
      BY StartType DEF Reached
    <3> QED
      BY <3>1, <2>1, <2>2, <1>0
  <2> QED
    BY <2>1, <2>4, <2>5, <2>6, <2>7 DEF Reached
<1>6. CASE Finish
  <2>1. UNCHANGED <<body_length, body, pos, reach, handled>> /\ pos >= body_length
    BY <1>6 DEF Finish, input
  <2>2. pos = body_length
    BY <2>1, <1>0
  <2> QED
    BY <2>1, <2>2 DEF Reached, Starts
<1>7. CASE UNCHANGED parserVars
  BY <1>7 DEF parserVars, input, Reached, Starts
<1> QED
  BY <1>1, <1>2, <1>3, <1>4, <1>5, <1>6, <1>7 DEF Parse, Returned

\* The history keeps its type.
LEMMA HandledTypeStep ==
  ASSUME ParserTypeOK, HandledType, [Parse \/ Returned]_parserVars
  PROVE  HandledType'
<1>1. CASE Handle
  <2>1. type \in Nat /\ length \in Nat /\ pos \in Nat
    BY <1>1, HeaderOfTlv DEF Handle, ParserTypeOK
  <2>2. handled' = Append(handled, <<pos, type, length>>)
    BY <1>1 DEF Handle
  <2>3. <<pos, type, length>> \in Nat \X Nat \X Nat
    BY <2>1
  <2> QED
    BY <2>2, <2>3 DEF HandledType
<1>2. CASE UNCHANGED handled
  BY <1>2 DEF HandledType
<1> QED
  BY <1>1, <1>2 DEF Parse, Returned, parserVars, CheckHeader, Pad1, TooLong, Skip,
                    Finish

\* A body that can be cut into TLVs is handled exactly: every byte read lies in
\* it, and the handlers get its TLVs of known type, each once and in order.
THEOREM ParserWellFormed == ParserSpec => []WellFormedHandled
<1> DEFINE Inv == ParserTypeOK /\ HandledType /\ OnCut
<1>1. ParserInit => HandledType /\ OnCut
  <2> SUFFICES ASSUME ParserInit, NEW C \in SUBSET (0..body_length), IsCut(C)
               PROVE  HandledType /\ Reached(C)
    BY DEF OnCut, HandledType, ParserInit
  <2>1. pos = 0 /\ reach = 0 /\ handled = <<>> /\ pc = "start"
    BY DEF ParserInit
  <2>2. \A c \in C : ~(c < 0)
    OBVIOUS
  <2>3. Starts = {} /\ Len(handled) = 0
    BY <2>1 DEF Starts
  <2>4. 0 \in C
    BY DEF IsCut
  <2>5. HandledType
    BY <2>1 DEF HandledType
  <2>6. Starts = {c \in C : c < pos /\ body[c] # 0 /\ body[c] < NB_TLV}
    BY <2>1, <2>2, <2>3
  <2>7. 1..Len(handled) = {}
    BY <2>3
  <2> QED
    BY <2>1, <2>4, <2>5, <2>6, <2>7 DEF Reached
<1>2. Inv /\ [Parse \/ Returned]_parserVars => HandledType' /\ OnCut'
  <2> SUFFICES ASSUME Inv, [Parse \/ Returned]_parserVars
               PROVE  HandledType' /\ OnCut'
    OBVIOUS
  <2>1. HandledType'
    BY HandledTypeStep
  <2>2. UNCHANGED <<buf_t, valid, body_length, body>>
    BY DEF Parse, Returned, CheckHeader, Pad1, TooLong, Handle, Skip, Finish,
           parserVars, input
  <2>3. Accepted' = Accepted
    BY <2>2 DEF Accepted
  <2>4. ASSUME Accepted, NEW C \in SUBSET (0..body_length), IsCut(C)'
        PROVE  Reached(C)'
    <3>1. IsCut(C)
      BY <2>2, <2>4 DEF IsCut
    <3>2. Reached(C)
      BY <2>4, <3>1 DEF OnCut
    <3> QED
      BY <2>4, <3>1, <3>2, ReachedStep
  <2>5. OnCut'
    BY <2>2, <2>3, <2>4 DEF OnCut
  <2> QED
    BY <2>1, <2>5
<1>3. Inv => WellFormedHandled
  <2> SUFFICES ASSUME Inv, Accepted, WellFormed
               PROVE  /\ reach <= body_length
                      /\ pc = "done" =>
                           /\ {handled[i][1] : i \in 1..Len(handled)} = Reference
                           /\ \A i, j \in 1..Len(handled) :
                                i < j => handled[i][1] < handled[j][1]
    BY DEF WellFormedHandled
  <2> DEFINE C == CHOOSE X \in SUBSET (0..body_length) : IsCut(X)
  <2>1. C \in SUBSET (0..body_length) /\ IsCut(C)
    BY DEF WellFormed
  <2>2. Reference = {c \in C \ {body_length} : body[c] # 0 /\ body[c] < NB_TLV}
    BY DEF Reference
  <2> HIDE DEF C
  <2>3. Reached(C)
    BY <2>1 DEF OnCut
  <2>4. reach <= body_length
    BY <2>1, <2>3 DEF Reached, ParserTypeOK
  <2>5. ASSUME pc = "done" PROVE Starts = Reference
    <3>1. pos = body_length
      BY <2>3, <2>5 DEF Reached
    <3>2. \A c \in C : c < body_length <=> c # body_length
      BY <2>1 DEF ParserTypeOK
    <3>3. Starts = {c \in C : c < body_length /\ body[c] # 0 /\ body[c] < NB_TLV}
      BY <2>3, <3>1 DEF Reached
    <3> QED
      BY <2>2, <3>2, <3>3
  <2> QED
    BY <2>3, <2>4, <2>5 DEF Reached, Starts
<1> QED
  BY <1>1, <1>2, <1>3, ParserTypeCorrect, PTL DEF ParserSpec
-----------------------------------------------------------------------------
\* A next pointer leads to a block or nowhere.
Pointers(next) ==
  /\ NULL \notin DOMAIN next
  /\ \A c \in DOMAIN next : next[c] = NULL \/ next[c] \in DOMAIN next

\* What holds of the first block, and of each with the one before it, holds of the
\* chain.
LEMMA ChainInduction ==
  ASSUME NEW next, NEW x, NEW S, S \subseteq DOMAIN next,
         x = NULL \/ x \in S,
         \A c \in S : next[c] = NULL \/ next[c] \in S
  PROVE  Chain(next, x) \subseteq S
BY DEF Chain

\* A chain is made of blocks of the heap ...
LEMMA ChainIn == \A next, x : Chain(next, x) \subseteq DOMAIN next
BY DEF Chain

\* ... it holds the first ...
LEMMA ChainFirst ==
  ASSUME NEW next, Pointers(next), NEW x \in DOMAIN next
  PROVE  x \in Chain(next, x)
BY DEF Chain, Pointers

\* ... and with each block the next, ...
LEMMA ChainOn ==
  ASSUME NEW next, Pointers(next), NEW x, NEW c \in Chain(next, x), next[c] # NULL
  PROVE  next[c] \in Chain(next, x)
BY DEF Chain, Pointers

\* ... and nothing if it begins nowhere.
LEMMA ChainEmpty ==
  ASSUME NEW next
  PROVE  Chain(next, NULL) = {}
<1> DEFINE S == {}
<1>1. S \subseteq DOMAIN next /\ \A c \in S : next[c] = NULL \/ next[c] \in S
  OBVIOUS
<1> HIDE DEF S
<1>2. Chain(next, NULL) \subseteq S
  BY <1>1, ChainInduction
<1> QED
  BY <1>2 DEF S

\* The chain from a block of the chain is part of it.
LEMMA ChainRest ==
  ASSUME NEW next, Pointers(next), NEW x, NEW c \in Chain(next, x)
  PROVE  Chain(next, c) \subseteq Chain(next, x)
<1>1. Chain(next, x) \subseteq DOMAIN next
  BY ChainIn
<1>2. \A d \in Chain(next, x) : next[d] = NULL \/ next[d] \in Chain(next, x)
  BY ChainOn
<1> QED
  BY <1>1, <1>2, ChainInduction

\* A chain is its first block and the chain from the next.
LEMMA ChainUnfold ==
  ASSUME NEW next, Pointers(next), NEW x \in DOMAIN next
  PROVE  /\ Chain(next, x) = {x} \cup Chain(next, next[x])
         /\ next[x] = NULL => Chain(next, x) = {x}
<1>1. Chain(next, next[x]) \subseteq Chain(next, x)
  <2>1. CASE next[x] = NULL
    BY <2>1, ChainEmpty
  <2>2. CASE next[x] # NULL
    BY <2>2, ChainFirst, ChainOn, ChainRest
  <2> QED
    BY <2>1, <2>2
<1>2. x \in Chain(next, x)
  BY ChainFirst
<1>3. Chain(next, x) \subseteq {x} \cup Chain(next, next[x])
  <2> DEFINE S == {x} \cup Chain(next, next[x])
  <2>1. S \subseteq DOMAIN next
    BY ChainIn
  <2>2. ASSUME NEW c \in S PROVE next[c] = NULL \/ next[c] \in S
    <3>1. CASE c = x
      BY <3>1, ChainFirst DEF Pointers
    <3>2. CASE c \in Chain(next, next[x])
      BY <3>2, ChainOn
    <3> QED
      BY <3>1, <3>2
  <2> HIDE DEF S
  <2>3. x \in S
    BY DEF S
  <2>4. Chain(next, x) \subseteq S
    BY <2>1, <2>2, <2>3, ChainInduction
  <2> QED
    BY <2>4 DEF S
<1> QED
  BY <1>1, <1>2, <1>3, ChainEmpty

\* Every block but the first is reached from another.
LEMMA ChainBack ==
  ASSUME NEW next, Pointers(next), NEW x \in DOMAIN next \cup {NULL},
         NEW c \in Chain(next, x), c # x
  PROVE  \E b \in Chain(next, x) : next[b] = c
<1> SUFFICES ASSUME ~ \E b \in Chain(next, x) : next[b] = c PROVE FALSE
  OBVIOUS
<1> DEFINE S == Chain(next, x) \ {c}
<1>1. S \subseteq DOMAIN next
  BY ChainIn
<1>2. \A b \in S : next[b] = NULL \/ next[b] \in S
  BY ChainOn
<1>3. x = NULL \/ x \in S
  BY ChainFirst
<1> HIDE DEF S
<1>4. Chain(next, x) \subseteq S
  BY <1>1, <1>2, <1>3, ChainInduction
<1> QED
  BY <1>4 DEF S

\* Of two blocks of a chain one comes first.
LEMMA ChainOrder ==
  ASSUME NEW next, Pointers(next), NEW x \in DOMAIN next \cup {NULL},
         NEW a \in Chain(next, x), NEW b \in Chain(next, x)
  PROVE  b \in Chain(next, a) \/ a \in Chain(next, b)
<1> DEFINE S == {c \in Chain(next, x) : c \in Chain(next, a) \/ a \in Chain(next, c)}
<1>1. S \subseteq DOMAIN next
  BY ChainIn
<1>2. ASSUME NEW c \in S PROVE next[c] = NULL \/ next[c] \in S
  <2> SUFFICES ASSUME next[c] # NULL PROVE next[c] \in S
    OBVIOUS
  <2>1. next[c] \in Chain(next, x) /\ c \in DOMAIN next
    BY ChainOn, <1>1
  <2>2. CASE c \in Chain(next, a)
    BY <2>1, <2>2, ChainOn
  <2>3. CASE a \in Chain(next, c) /\ c # a
    BY <2>1, <2>3, ChainUnfold
  <2>4. CASE c = a
    <3>1. a \in Chain(next, a)
      BY ChainFirst, <2>1, <2>4
    <3> QED
      BY <2>1, <2>4, <3>1, ChainOn
  <2> QED
    BY <2>2, <2>3, <2>4
<1>3. x = NULL \/ x \in S
  BY ChainFirst
<1> HIDE DEF S
<1>4. Chain(next, x) \subseteq S
  BY <1>1, <1>2, <1>3, ChainInduction
<1> QED
  BY <1>4 DEF S

\* A chain ends once ...
LEMMA OneEnd ==
  ASSUME NEW next, Pointers(next), NEW x \in DOMAIN next \cup {NULL},
         NEW a \in Chain(next, x), NEW b \in Chain(next, x),
         next[a] = NULL, next[b] = NULL
  PROVE  a = b
<1>1. a \in DOMAIN next /\ b \in DOMAIN next
  BY ChainIn
<1>2. Chain(next, a) = {a} /\ Chain(next, b) = {b}
  BY <1>1, ChainUnfold
<1> QED
  BY <1>2, ChainOrder

\* ... and one that ends does not come back.
LEMMA NoReturn ==
  ASSUME NEW next, Pointers(next), NEW n \in DOMAIN next, NEW m \in Chain(next, n),
         next[m] = NULL, next[n] # NULL
  PROVE  n \notin Chain(next, next[n])
<1> SUFFICES ASSUME n \in Chain(next, next[n]) PROVE FALSE
  OBVIOUS
<1> DEFINE S == {b \in Chain(next, n) : n \in Chain(next, b)}
<1>1. S \subseteq DOMAIN next
  BY ChainIn
<1>2. ASSUME NEW c \in S PROVE next[c] = NULL \/ next[c] \in S
  <2> SUFFICES ASSUME next[c] # NULL PROVE next[c] \in S
    OBVIOUS
  <2>1. next[c] \in Chain(next, n) /\ c \in DOMAIN next
    BY ChainOn, <1>1
  <2>2. n \in Chain(next, next[c])
    BY <2>1, ChainUnfold
  <2> QED
    BY <2>1, <2>2
<1>3. n \in S
  BY ChainFirst
<1> HIDE DEF S
<1>4. m \in S
  BY <1>1, <1>2, <1>3, ChainInduction
<1>5. n \in Chain(next, m) /\ m \in DOMAIN next
  BY <1>1, <1>4 DEF S
<1> QED
  BY <1>5, ChainUnfold

\* A block of the chain without a next one is its end.
LEMMA EndIs ==
  ASSUME NEW next, Pointers(next), NEW x \in DOMAIN next \cup {NULL},
         NEW e \in Chain(next, x), next[e] = NULL
  PROVE  End(next, x) = e
BY OneEnd DEF End

\* No two blocks have the same next block, and the chain does not come back to x.
Straight(next, x) ==
  \A a, b \in DOMAIN next : next[a] # NULL => next[a] # x /\ (next[a] = next[b] => a = b)

\* A block that follows another is in every chain after it, or begins the chain.
LEMMA ChainBefore ==
  ASSUME NEW next, Pointers(next), NEW x, Straight(next, x),
         NEW d \in DOMAIN next, NEW c \in DOMAIN next, next[c] # NULL,
         next[c] \in Chain(next, d), next[c] # d
  PROVE  c \in Chain(next, d)
<1>1. PICK b \in Chain(next, d) : next[b] = next[c]
  BY ChainBack
<1>2. b \in DOMAIN next
  BY ChainIn
<1> QED
  BY <1>1, <1>2 DEF Straight

\* Induction along a chain in which what is claimed may be assumed of all the blocks
\* that come before.
LEMMA StrongInduction ==
  ASSUME NEW next, Pointers(next), NEW x \in DOMAIN next, Straight(next, x), NEW S,
         x \in S,
         \A c \in Chain(next, x) :
           /\ next[c] # NULL
           /\ \A d \in Chain(next, x) : c \in Chain(next, d) => d \in S
           => next[c] \in S
  PROVE  Chain(next, x) \subseteq S
<1> DEFINE R == {b \in Chain(next, x) :
                   \A d \in Chain(next, x) : b \in Chain(next, d) => d \in S}
<1>1. R \subseteq DOMAIN next
  BY ChainIn
<1>2. x \in R
  <2>1. x \in Chain(next, x)
    BY ChainFirst
  <2>2. ASSUME NEW d \in Chain(next, x), x \in Chain(next, d) PROVE d \in S
    <3> SUFFICES ASSUME d # x PROVE FALSE
      OBVIOUS
    <3>1. d \in DOMAIN next
      BY ChainIn
    <3>2. PICK b \in Chain(next, d) : next[b] = x
      BY <2>2, <3>1, ChainBack
    <3>3. b \in DOMAIN next
      BY ChainIn
    <3> QED
      BY <3>2, <3>3 DEF Straight, Pointers
  <2> QED
    BY <2>1, <2>2
<1>3. ASSUME NEW c \in R PROVE next[c] = NULL \/ next[c] \in R
  <2> SUFFICES ASSUME next[c] # NULL PROVE next[c] \in R
    OBVIOUS
  <2>1. c \in Chain(next, x) /\ c \in DOMAIN next
    BY <1>1
  <2>2. next[c] \in S /\ next[c] \in Chain(next, x)
    BY <2>1, ChainOn
  <2>3. ASSUME NEW d \in Chain(next, x), next[c] \in Chain(next, d) PROVE d \in S
    <3>1. d \in DOMAIN next
      BY ChainIn
    <3>2. CASE d = next[c]
      BY <2>2, <3>2
    <3>3. CASE d # next[c]
      BY <2>1, <2>3, <3>1, <3>3, ChainBefore
    <3> QED
      BY <3>2, <3>3
  <2> QED
    BY <2>2, <2>3
<1> HIDE DEF R
<1>4. Chain(next, x) \subseteq R
  BY <1>1, <1>2, <1>3, ChainInduction
<1>5. \A b \in R : b \in Chain(next, b)
  BY <1>1, ChainFirst
<1>6. \A b \in R : b \in S
  BY <1>4, <1>5 DEF R
<1> QED
  BY <1>4, <1>6

\* In a finite heap such a chain ends.
LEMMA ChainEnds ==
  ASSUME NEW next, Pointers(next), IsFiniteSet(DOMAIN next), NEW x \in DOMAIN next,
         Straight(next, x)
  PROVE  /\ End(next, x) \in Chain(next, x)
         /\ next[End(next, x)] = NULL
<1> DEFINE C == Chain(next, x)
<1> SUFFICES ASSUME \A b \in C : next[b] # NULL PROVE FALSE
  BY DEF End
<1>1. x \in C /\ C \subseteq DOMAIN next
  BY ChainFirst, ChainIn
<1>2. IsFiniteSet(C) /\ IsFiniteSet(C \ {x})
  BY <1>1, FS_Subset
<1>3. Cardinality(C) \in Nat /\ Cardinality(C \ {x}) = Cardinality(C) - 1
  BY <1>1, <1>2, FS_RemoveElement, FS_CardinalityType
<1> DEFINE f == [b \in C |-> next[b]]
<1>4. \A b \in C : next[b] \in C \ {x}
  BY <1>1, ChainOn DEF Straight
<1>5. f \in [C -> C \ {x}]
  BY <1>4
<1>6. Cardinality(C \ {x}) < Cardinality(C)
  BY <1>3
<1> HIDE DEF f
<1>7. PICK a, b \in C : a # b /\ f[a] = f[b]
  BY <1>2, <1>5, <1>6, FS_PigeonHole
<1> QED
  BY <1>1, <1>7 DEF f, Straight
-----------------------------------------------------------------------------
\* The heap is finite, and a pointer in it leads to a node or nowhere.
Typed(t) ==
  /\ t = [root |-> t.root, node |-> t.node]
  /\ IsFiniteSet(DOMAIN t.node) /\ DOMAIN t.node \subseteq Block
  /\ t.node \in [DOMAIN t.node -> Node]
  /\ t.root \in DOMAIN t.node \cup {NULL}
  /\ \A b \in DOMAIN t.node :
       /\ t.node[b].left \in DOMAIN t.node \cup {NULL}
       /\ t.node[b].right \in DOMAIN t.node \cup {NULL}

\* At most one pointer leads to a node, and none to the root.
OneParent(t) ==
  \A a, b \in DOMAIN t.node :
    /\ t.node[a].left # NULL =>
         /\ t.node[a].left # t.root
         /\ t.node[a].left # t.node[b].right
         /\ t.node[a].left = t.node[b].left => a = b
    /\ t.node[a].right # NULL =>
         /\ t.node[a].right # t.root
         /\ t.node[a].right = t.node[b].right => a = b

\* The search for the key of a node finds that node.
Searchable(t) == \A b \in DOMAIN t.node : b \in Path(t, t.node[b].key)

TreeInv(t) == Typed(t) /\ OneParent(t) /\ Searchable(t)

\* What the types say of one node.
LEMMA TypedNode ==
  ASSUME NEW t, Typed(t)
  PROVE  /\ NULL \notin DOMAIN t.node
         /\ \A b \in DOMAIN t.node :
              /\ t.node[b].key \in Key /\ t.node[b].key \in Nat /\ t.node[b].val \in Ident
              /\ t.node[b] = [key |-> t.node[b].key, val |-> t.node[b].val,
                              left |-> t.node[b].left, right |-> t.node[b].right]
<1>1. NULL \notin DOMAIN t.node
  BY AbrAssumption DEF Typed
<1>2. ASSUME NEW b \in DOMAIN t.node
      PROVE  /\ t.node[b].key \in Key /\ t.node[b].val \in Ident
             /\ t.node[b] = [key |-> t.node[b].key, val |-> t.node[b].val,
                             left |-> t.node[b].left, right |-> t.node[b].right]
  <2>1. t.node[b] \in Node
    BY DEF Typed
  <2> QED
    BY <2>1 DEF Node
<1> QED
  BY <1>1, <1>2, AbrAssumption

\* Where a search goes from a node.
LEMMA SearchIs ==
  ASSUME NEW t, Typed(t), NEW j \in Nat
  PROVE  /\ DOMAIN Search(t, j) = DOMAIN t.node
         /\ \A b \in DOMAIN t.node :
              /\ t.node[b].key = j => Search(t, j)[b] = NULL
              /\ t.node[b].key > j => Search(t, j)[b] = t.node[b].left
              /\ t.node[b].key < j => Search(t, j)[b] = t.node[b].right
<1>1. \A b \in DOMAIN t.node : t.node[b].key \in Nat
  BY TypedNode
<1> QED
  BY <1>1 DEF Search

\* A search follows pointers of the tree ...
LEMMA SearchPointers ==
  ASSUME NEW t, Typed(t), NEW j \in Nat
  PROVE  /\ Pointers(Search(t, j))
         /\ \A b \in DOMAIN t.node :
              Search(t, j)[b] \in {NULL, t.node[b].left, t.node[b].right}
<1> DEFINE s == Search(t, j)
<1>1. DOMAIN s = DOMAIN t.node /\ NULL \notin DOMAIN t.node
  BY SearchIs, TypedNode
<1>2. ASSUME NEW b \in DOMAIN t.node
      PROVE  s[b] \in {NULL, t.node[b].left, t.node[b].right}
  <2>1. t.node[b].key \in Nat
    BY TypedNode
  <2>2. t.node[b].key = j \/ t.node[b].key > j \/ t.node[b].key < j
    BY <2>1
  <2> QED
    BY <2>2, SearchIs
<1> QED
  BY <1>1, <1>2 DEF Typed, Pointers

\* ... and never two that lead to the same node.
LEMMA SearchStraight ==
  ASSUME NEW t, Typed(t), OneParent(t), NEW j \in Nat
  PROVE  Straight(Search(t, j), t.root)
<1> DEFINE s == Search(t, j)
<1>1. DOMAIN s = DOMAIN t.node
  BY SearchIs
<1>2. \A b \in DOMAIN s : s[b] \in {NULL, t.node[b].left, t.node[b].right}
  BY <1>1, SearchPointers
<1> HIDE DEF s
<1>3. Straight(s, t.root)
  BY <1>1, <1>2 DEF Straight, OneParent
<1> QED
  BY <1>3 DEF s

\* A search that meets a node has met the node that points to it, and went from
\* there along that pointer.
LEMMA PathBack ==
  ASSUME NEW t, Typed(t), OneParent(t), NEW j \in Nat,
         NEW b \in DOMAIN t.node, NEW c \in Path(t, j),
         c = t.node[b].left \/ c = t.node[b].right
  PROVE  /\ b \in Path(t, j) /\ Search(t, j)[b] = c
         /\ c = t.node[b].left => t.node[b].key > j
         /\ c = t.node[b].right => t.node[b].key < j
<1> DEFINE s == Search(t, j)
<1>1. Pointers(s) /\ DOMAIN s = DOMAIN t.node /\ NULL \notin DOMAIN t.node
  BY SearchPointers, SearchIs, TypedNode
<1>2. c \in DOMAIN t.node
  BY <1>1, ChainIn DEF Path
<1>3. c # t.root /\ c # NULL
  BY <1>1, <1>2 DEF OneParent
<1>4. t.root \in DOMAIN s \cup {NULL}
  BY <1>1 DEF Typed
<1>5. PICK a \in Chain(s, t.root) : s[a] = c
  BY <1>1, <1>3, <1>4, ChainBack DEF Path
<1>6. a \in DOMAIN t.node /\ s[a] \in {NULL, t.node[a].left, t.node[a].right}
  BY <1>1, <1>5, ChainIn, SearchPointers
<1>7. a = b
  BY <1>3, <1>5, <1>6 DEF OneParent
<1>8. t.node[b].key \in Nat
  BY TypedNode
<1>9. /\ c = t.node[b].left => c # t.node[b].right
      /\ c = t.node[b].right => c # t.node[b].left
  BY <1>3 DEF OneParent
<1>10. t.node[b].key = j \/ t.node[b].key > j \/ t.node[b].key < j
  BY <1>8
<1>11. s[b] = c
  BY <1>5, <1>7
<1> QED
  BY <1>3, <1>5, <1>7, <1>9, <1>10, <1>11, SearchIs DEF Path

\* The path of a search begins at the root, goes on where the search does and ends
\* once, at the place of the key.
LEMMA PathFacts ==
  ASSUME NEW t, Typed(t), NEW j \in Nat
  PROVE  /\ Path(t, j) \subseteq DOMAIN t.node
         /\ t.root # NULL => t.root \in Path(t, j)
         /\ \A b \in Path(t, j) :
              Search(t, j)[b] # NULL => Search(t, j)[b] \in Path(t, j)
         /\ \A a, b \in Path(t, j) :
              Search(t, j)[a] = NULL /\ Search(t, j)[b] = NULL => a = b
         /\ \A b \in Path(t, j) : Search(t, j)[b] = NULL => Place(t, j) = b
<1> DEFINE s == Search(t, j)
<1>1. Pointers(s) /\ DOMAIN s = DOMAIN t.node /\ t.root \in DOMAIN s \cup {NULL}
  BY SearchPointers, SearchIs DEF Typed
<1>2. Path(t, j) \subseteq DOMAIN t.node /\ t.root # NULL => t.root \in Path(t, j)
  BY <1>1, ChainIn, ChainFirst DEF Path
<1>3. \A b \in Path(t, j) : s[b] # NULL => s[b] \in Path(t, j)
  BY <1>1, ChainOn DEF Path
<1>4. \A a, b \in Path(t, j) : s[a] = NULL /\ s[b] = NULL => a = b
  BY <1>1, OneEnd DEF Path
<1>5. \A b \in Path(t, j) : s[b] = NULL => Place(t, j) = b
  BY <1>1, EndIs DEF Path, Place
<1>6. Path(t, j) \subseteq DOMAIN t.node
  BY <1>1, ChainIn DEF Path
<1> QED
  BY <1>2, <1>3, <1>4, <1>5, <1>6

\* The place of a key in a tree that is not empty.
LEMMA PlaceIs ==
  ASSUME NEW t, Typed(t), OneParent(t), NEW j \in Nat, t.root # NULL
  PROVE  /\ Place(t, j) \in Path(t, j) /\ Place(t, j) \in DOMAIN t.node
         /\ Search(t, j)[Place(t, j)] = NULL
<1> DEFINE s == Search(t, j)
<1>1. Pointers(s) /\ DOMAIN s = DOMAIN t.node /\ t.root \in DOMAIN s
  BY SearchPointers, SearchIs DEF Typed
<1>2. Straight(s, t.root) /\ IsFiniteSet(DOMAIN s)
  BY <1>1, SearchStraight DEF Typed
<1>3. End(s, t.root) \in Chain(s, t.root) /\ s[End(s, t.root)] = NULL
  BY <1>1, <1>2, ChainEnds
<1> QED
  BY <1>1, <1>3, ChainIn DEF Place, Path

\* No two nodes have the same key, and a lookup finds the one that has it.
LEMMA Lookup ==
  ASSUME NEW t, TreeInv(t), NEW j \in Nat
  PROVE  /\ \A b \in DOMAIN t.node :
              t.node[b].key = j =>
                Place(t, j) = b /\ Known(t, j) /\ get_ident(t, j) = t.node[b].val
         /\ Known(t, j) => Place(t, j) \in DOMAIN t.node /\ t.node[Place(t, j)].key = j
         /\ ~Known(t, j) => get_ident(t, j) = NULL
<1> USE DEF TreeInv
<1>1. ASSUME NEW b \in DOMAIN t.node, t.node[b].key = j
      PROVE  Place(t, j) = b /\ Known(t, j) /\ get_ident(t, j) = t.node[b].val
  <2>1. b \in Path(t, j)
    BY <1>1 DEF Searchable
  <2>2. Search(t, j)[b] = NULL
    BY <1>1, SearchIs
  <2>3. Place(t, j) = b
    BY <2>1, <2>2, PathFacts
  <2>4. t.root # NULL
    BY <2>1, ChainEmpty DEF Path
  <2> QED
    BY <1>1, <2>3, <2>4 DEF Known, get_ident
<1>2. ASSUME Known(t, j)
      PROVE  Place(t, j) \in DOMAIN t.node /\ t.node[Place(t, j)].key = j
  BY <1>2, PlaceIs DEF Known
<1>3. ASSUME ~Known(t, j) PROVE get_ident(t, j) = NULL
  BY <1>3 DEF get_ident
<1> QED
  BY <1>1, <1>2, <1>3

\* No two nodes have the same key.
LEMMA DistinctKeys ==
  ASSUME NEW t, TreeInv(t), NEW a \in DOMAIN t.node, NEW b \in DOMAIN t.node,
         t.node[a].key = t.node[b].key
  PROVE  a = b
<1>1. t.node[a].key \in Nat
  BY TypedNode DEF TreeInv
<1> QED
  BY <1>1, Lookup
-----------------------------------------------------------------------------
\* Two trees with the same keys and pointers are searched alike.
LEMMA SameSearch ==
  ASSUME NEW t, NEW u, TreeInv(t), Typed(u), u.root = t.root,
         DOMAIN u.node = DOMAIN t.node,
         \A b \in DOMAIN t.node :
           /\ u.node[b].key = t.node[b].key
           /\ u.node[b].left = t.node[b].left /\ u.node[b].right = t.node[b].right
  PROVE  TreeInv(u)
<1> USE DEF TreeInv
<1>1. OneParent(u)
  BY DEF OneParent
<1>2. ASSUME NEW j \in Nat PROVE Search(u, j) = Search(t, j)
  <2>1. DOMAIN Search(u, j) = DOMAIN Search(t, j)
    BY SearchIs
  <2>2. ASSUME NEW b \in DOMAIN t.node PROVE Search(u, j)[b] = Search(t, j)[b]
    BY DEF Search
  <2>3. /\ Search(u, j) = [b \in DOMAIN u.node |-> Search(u, j)[b]]
        /\ Search(t, j) = [b \in DOMAIN t.node |-> Search(t, j)[b]]
    BY DEF Search
  <2> QED
    BY <2>1, <2>2, <2>3
<1>3. \A j \in Nat : Path(u, j) = Path(t, j)
  BY <1>2 DEF Path
<1> QED
  BY <1>1, <1>3, TypedNode DEF Searchable

\* u is tree t with the dates of val in the node of the key.
Refreshed(t, u, key, val) ==
  /\ DOMAIN u.node = DOMAIN t.node
  /\ \A b \in DOMAIN t.node :
       /\ u.node[b].key = t.node[b].key
       /\ u.node[b].val = IF t.node[b].key = key
                          THEN [val EXCEPT !.id = t.node[b].val.id] ELSE t.node[b].val

\* Refreshing a node that is there.
LEMMA RefreshInv ==
  ASSUME NEW t, TreeInv(t), NEW key \in Key, NEW val \in Ident, NEW block,
         Known(t, key)
  PROVE  LET u == add_neighbor_aux(t, key, val, block)
         IN  TreeInv(u) /\ Refreshed(t, u, key, val)
<1> DEFINE u == add_neighbor_aux(t, key, val, block)
           p == Place(t, key)
           v == [t.node[p].val EXCEPT !.last_hello = val.last_hello,
                                      !.last_hello_long = val.last_hello_long]
<1>1. key \in Nat /\ Typed(t)
  BY AbrAssumption DEF TreeInv
<1>2. p \in DOMAIN t.node /\ t.node[p].key = key
  BY <1>1, Lookup
<1>3. t.node[p].val \in Ident /\ t = [root |-> t.root, node |-> t.node]
  BY <1>1, <1>2, TypedNode DEF Typed
<1>4. v \in Ident /\ v = [val EXCEPT !.id = t.node[p].val.id]
  BY <1>3 DEF Ident
<1>5. t.node \in [DOMAIN t.node -> Node]
  BY <1>1 DEF Typed
<1>6. u = [root |-> t.root, node |-> [t.node EXCEPT ![p] = [t.node[p] EXCEPT !.val = v]]]
  <2>1. u = [t EXCEPT !.node[p].val.last_hello = val.last_hello,
                      !.node[p].val.last_hello_long = val.last_hello_long]
    BY DEF add_neighbor_aux
  <2>2. p \in DOMAIN t.node /\ t.node[p] \in Node
    BY <1>2, <1>5
  <2> HIDE DEF u, p
  <2>3. DOMAIN t.node[p] = {"key", "val", "left", "right"}
    BY <2>2 DEF Node
  <2>4. DOMAIN t.node[p].val = {"id", "last_hello", "last_hello_long"}
    BY <1>3 DEF Ident
  <2>5. DOMAIN t = {"root", "node"}
    BY <1>3
  <2> QED
    BY <1>3, <2>1, <2>2, <2>3, <2>4, <2>5
<1> HIDE DEF u, v, p
<1>7. [t.node[p] EXCEPT !.val = v] \in Node
  BY <1>2, <1>4, <1>5 DEF Node
<1>8. /\ DOMAIN u.node = DOMAIN t.node /\ u.root = t.root
      /\ u = [root |-> u.root, node |-> u.node]
      /\ u.node \in [DOMAIN t.node -> Node]
  BY <1>5, <1>6, <1>7
<1>9. ASSUME NEW b \in DOMAIN t.node
      PROVE  /\ u.node[b].key = t.node[b].key
             /\ u.node[b].left = t.node[b].left /\ u.node[b].right = t.node[b].right
             /\ u.node[b].val = IF b = p THEN v ELSE t.node[b].val
  <2>1. t.node[b] \in Node
    BY <1>5
  <2> QED
    BY <1>6, <2>1 DEF Node
<1>10. Typed(u)
  BY <1>1, <1>8, <1>9 DEF Typed
<1>11. TreeInv(u)
  BY <1>8, <1>9, <1>10, SameSearch
<1>12. \A b \in DOMAIN t.node : t.node[b].key = key <=> b = p
  BY <1>1, <1>2, DistinctKeys
<1> QED
  BY <1>4, <1>8, <1>9, <1>11, <1>12 DEF u, Refreshed

\* Hanging up a new node.
LEMMA HangInv ==
  ASSUME NEW t, TreeInv(t), NEW key \in Key, NEW val \in Ident,
         NEW block \in Block \ DOMAIN t.node, ~Known(t, key)
  PROVE  LET u == add_neighbor_aux(t, key, val, block)
         IN  /\ TreeInv(u)
             /\ DOMAIN u.node = DOMAIN t.node \cup {block}
             /\ u.node[block].key = key /\ u.node[block].val = val
             /\ \A b \in DOMAIN t.node :
                  /\ t.node[b].key # key
                  /\ u.node[b].key = t.node[b].key /\ u.node[b].val = t.node[b].val
<1> DEFINE u == add_neighbor_aux(t, key, val, block)
           p == Place(t, key)
           D == DOMAIN t.node
<1>1. key \in Nat /\ Typed(t) /\ OneParent(t) /\ Searchable(t)
  BY AbrAssumption DEF TreeInv
<1>2. block # NULL /\ block \in Block
  BY AbrAssumption
<1>3. /\ t.root \in D \cup {NULL}
      /\ \A b \in D : t.node[b].left \in D \cup {NULL} /\ t.node[b].right \in D \cup {NULL}
      /\ D \subseteq Block /\ t.node \in [D -> Node]
  BY <1>1 DEF Typed
<1>4. \A b \in D : t.node[b].key # key /\ t.node[b].key \in Nat
  BY <1>1, Lookup, TypedNode
<1>5. t.root # NULL => /\ p \in D /\ p \in Path(t, key) /\ Search(t, key)[p] = NULL
                       /\ t.node[p].key > key => t.node[p].left = NULL
                       /\ t.node[p].key < key => t.node[p].right = NULL
  BY <1>1, PlaceIs, SearchIs
<1>6. t.root = NULL => D = {}
  <2> SUFFICES ASSUME t.root = NULL, NEW b \in D PROVE FALSE
    OBVIOUS
  <2> QED
    BY <1>1, ChainEmpty DEF Searchable, Path
<1>7. /\ u = [root |-> IF t.root = NULL THEN block ELSE t.root, node |-> Hung(t, key, val, block)]
      /\ DOMAIN u.node = D \cup {block}
  BY DEF add_neighbor_aux, Hung
<1>8. u.node[block] = [key |-> key, val |-> val, left |-> NULL, right |-> NULL]
  BY <1>7 DEF Hung, Leaf
<1>9. ASSUME NEW b \in D
      PROVE  /\ u.node[b].key = t.node[b].key /\ u.node[b].val = t.node[b].val
             /\ u.node[b].left = IF b = p /\ t.node[b].key > key THEN block ELSE t.node[b].left
             /\ u.node[b].right = IF b = p /\ t.node[b].key < key THEN block ELSE t.node[b].right
             /\ u.node[b] \in Node
  <2>1. t.node[b] \in Node
    BY <1>3
  <2>2. u.node[b] = IF b # p THEN t.node[b]
                    ELSE IF t.node[b].key > key THEN [t.node[b] EXCEPT !.left = block]
                    ELSE [t.node[b] EXCEPT !.right = block]
    BY <1>7 DEF Hung
  <2>3. t.node[b].key > key \/ t.node[b].key < key
    BY <1>1, <1>4
  <2>4. ~(t.node[b].key > key /\ t.node[b].key < key)
    BY <1>1, <1>4
  <2>5. /\ t.node[b].key \in Key /\ t.node[b].val \in Ident
        /\ t.node[b].left \in Block \cup {NULL} /\ t.node[b].right \in Block \cup {NULL}
        /\ t.node[b] = [key |-> t.node[b].key, val |-> t.node[b].val,
                        left |-> t.node[b].left, right |-> t.node[b].right]
    BY <2>1 DEF Node
  <2>6. CASE b # p
    BY <2>1, <2>2, <2>6
  <2>7. CASE b = p /\ t.node[b].key > key
    <3>1. u.node[b] = [key |-> t.node[b].key, val |-> t.node[b].val,
                       left |-> block, right |-> t.node[b].right]
      BY <2>2, <2>5, <2>7
    <3> QED
      BY <1>2, <2>4, <2>5, <2>7, <3>1 DEF Node
  <2>8. CASE b = p /\ t.node[b].key < key
    <3>1. u.node[b] = [key |-> t.node[b].key, val |-> t.node[b].val,
                       left |-> t.node[b].left, right |-> block]
      BY <2>2, <2>4, <2>5, <2>8
    <3> QED
      BY <1>2, <2>4, <2>5, <2>8, <3>1 DEF Node
  <2> QED
    BY <2>3, <2>6, <2>7, <2>8
<1> HIDE DEF u, p, D
<1>10. Typed(u)
  <2>1. u = [root |-> u.root, node |-> u.node]
    BY <1>7
  <2>2. IsFiniteSet(D \cup {block})
    BY <1>1, FS_AddElement DEF Typed, D
  <2>3. u.node[block] \in Node
    BY <1>8 DEF Node
  <2>4. u.node \in [D \cup {block} -> Node]
    <3>1. \A b \in D \cup {block} : u.node[b] \in Node
      BY <1>9, <2>3
    <3>2. u.node = [b \in DOMAIN u.node |-> u.node[b]]
      BY <1>7 DEF Hung
    <3> QED
      BY <1>7, <3>1, <3>2
  <2>5. u.root \in D \cup {block}
    BY <1>3, <1>7
  <2>6. \A b \in D \cup {block} : /\ u.node[b].left \in D \cup {block} \cup {NULL}
                                  /\ u.node[b].right \in D \cup {block} \cup {NULL}
    BY <1>3, <1>8, <1>9
  <2> QED
    BY <1>2, <1>3, <1>7, <2>1, <2>2, <2>4, <2>5, <2>6 DEF Typed
<1>11. OneParent(u)
  <2>1. \A b \in D : t.node[b].left # block /\ t.node[b].right # block
    BY <1>2, <1>3 DEF D
  <2>2. u.root = IF t.root = NULL THEN block ELSE t.root
    BY <1>7
  <2>3. ASSUME NEW a \in D, NEW b \in D \cup {block}
        PROVE /\ u.node[a].left # NULL =>
                   /\ u.node[a].left # u.root
                   /\ u.node[a].left # u.node[b].right
                   /\ u.node[a].left = u.node[b].left => a = b
              /\ u.node[a].right # NULL =>
                   /\ u.node[a].right # u.root
                   /\ u.node[a].right = u.node[b].right => a = b
    <3>1. CASE b \in D
      <4>1. OneParent(t) /\ t.root # block /\ t.root # NULL
        BY <1>1, <1>3, <1>6, <2>3 DEF D
      <4>2. t.node[a].key \in Nat /\ t.node[b].key \in Nat /\ key \in Nat
        BY <1>1, <1>4, <3>1
      <4>3. ~(t.node[p].key > key /\ t.node[p].key < key)
        BY <1>1, <1>4, <1>5, <4>1
      <4>4. /\ t.node[a].left # NULL =>
                 /\ t.node[a].left # t.root
                 /\ t.node[a].left # t.node[b].right
                 /\ t.node[a].left = t.node[b].left => a = b
            /\ t.node[a].right # NULL =>
                 /\ t.node[a].right # t.root
                 /\ t.node[a].right = t.node[b].right => a = b
        BY <3>1, <4>1 DEF OneParent, D
      <4>5. u.node[a].left = block \/ u.node[a].left = t.node[a].left
        BY <1>9
      <4>6. u.node[a].right = block \/ u.node[a].right = t.node[a].right
        BY <1>9
      <4>7. /\ u.node[a].left = block => a = p /\ t.node[p].key > key
            /\ u.node[a].right = block => a = p /\ t.node[p].key < key
        BY <1>9, <2>1
      <4>8. /\ u.node[b].left = block => b = p /\ t.node[p].key > key
            /\ u.node[b].right = block => b = p /\ t.node[p].key < key
        BY <1>9, <2>1, <3>1
      <4>9. /\ u.node[b].left = block \/ u.node[b].left = t.node[b].left
            /\ u.node[b].right = block \/ u.node[b].right = t.node[b].right
        BY <1>9, <3>1
      <4> QED
        BY <2>1, <2>2, <3>1, <4>1, <4>3, <4>4, <4>5, <4>6, <4>7, <4>8, <4>9
    <3>2. CASE b = block
      <4>1. u.root # block /\ t.root # NULL /\ u.root = t.root
        BY <1>3, <1>6, <2>2, <2>3 DEF D
      <4>2. /\ t.node[a].left # NULL => t.node[a].left # t.root
            /\ t.node[a].right # NULL => t.node[a].right # t.root
        BY <1>1 DEF OneParent, D
      <4>3. u.node[b].left = NULL /\ u.node[b].right = NULL
        BY <1>8, <3>2
      <4>4. u.node[a].left = block \/ u.node[a].left = t.node[a].left
        BY <1>9
      <4>5. u.node[a].right = block \/ u.node[a].right = t.node[a].right
        BY <1>9
      <4> QED
        BY <4>1, <4>2, <4>3, <4>4, <4>5
    <3> QED
      BY <2>3, <3>1, <3>2
  <2>4. u.node[block].left = NULL /\ u.node[block].right = NULL
    BY <1>8
  <2> QED
    BY <1>7, <2>3, <2>4 DEF OneParent
<1>12. ASSUME NEW j \in Nat PROVE Path(t, j) \subseteq Path(u, j)
  <2> DEFINE S == {b \in Path(t, j) : b \in Path(u, j)}
             s == Search(t, j)
  <2>1. CASE t.root = NULL
    BY <2>1, ChainEmpty DEF Path
  <2>2. CASE t.root # NULL
    <3>1. Pointers(s) /\ DOMAIN s = D
      BY <1>1, SearchPointers, SearchIs DEF D
    <3>2. S \subseteq D
      BY <1>1, PathFacts DEF D
    <3>3. t.root \in S
      BY <1>1, <1>2, <1>7, <1>10, <2>2, PathFacts
    <3>4. ASSUME NEW c \in S PROVE s[c] = NULL \/ s[c] \in S
      <4> SUFFICES ASSUME s[c] # NULL PROVE s[c] \in S
        OBVIOUS
      <4>1. c \in D /\ c \in DOMAIN u.node /\ t.node[c].key \in Nat /\ u.node[c].key = t.node[c].key
        BY <1>4, <1>7, <1>9, <3>2
      <4>2. s[c] \in Path(t, j)
        BY <1>1, PathFacts
      <4>3. Search(u, j)[c] = s[c]
        <5>1. CASE t.node[c].key > j
          <6>1. s[c] = t.node[c].left /\ Search(u, j)[c] = u.node[c].left
            BY <1>1, <1>10, <4>1, <5>1, SearchIs DEF D
          <6>2. ~(c = p /\ t.node[c].key > key)
            BY <1>5, <2>2, <6>1
          <6> QED
            BY <1>9, <4>1, <6>1, <6>2
        <5>2. CASE t.node[c].key < j
          <6>1. s[c] = t.node[c].right /\ Search(u, j)[c] = u.node[c].right
            BY <1>1, <1>10, <4>1, <5>2, SearchIs DEF D
          <6>2. ~(c = p /\ t.node[c].key < key)
            BY <1>5, <2>2, <6>1
          <6> QED
            BY <1>9, <4>1, <6>1, <6>2
        <5>3. CASE t.node[c].key = j
          BY <1>1, <4>1, <5>3, SearchIs DEF D
        <5> QED
          BY <4>1, <5>1, <5>2, <5>3
      <4>4. s[c] \in Path(u, j)
        BY <1>10, <4>3, PathFacts
      <4> QED
        BY <4>2, <4>4
    <3> HIDE DEF S, s
    <3>5. Chain(s, t.root) \subseteq S
      BY <3>1, <3>2, <3>3, <3>4, ChainInduction
    <3> QED
      BY <3>5 DEF S, s, Path
  <2> QED
    BY <2>1, <2>2
<1>13. block \in Path(u, key)
  <2>1. CASE t.root = NULL
    BY <1>1, <1>2, <1>7, <1>10, <2>1, PathFacts
  <2>2. CASE t.root # NULL
    <3>1. p \in Path(u, key) /\ p \in D /\ p \in DOMAIN u.node
      BY <1>1, <1>5, <1>7, <1>12, <2>2
    <3>2. /\ t.node[p].key \in Nat /\ t.node[p].key # key /\ u.node[p].key = t.node[p].key
          /\ t.node[p].key > key => u.node[p].left = block
          /\ t.node[p].key < key => u.node[p].right = block
      BY <1>4, <1>9, <3>1
    <3>3. Search(u, key)[p] = block
      BY <1>1, <1>10, <3>1, <3>2, SearchIs
    <3> QED
      BY <1>1, <1>2, <1>10, <3>1, <3>3, PathFacts
  <2> QED
    BY <2>1, <2>2
<1>14. Searchable(u)
  <2>1. ASSUME NEW b \in D PROVE b \in Path(u, u.node[b].key)
    BY <1>1, <1>4, <1>9, <1>12 DEF Searchable, D
  <2>2. block \in Path(u, u.node[block].key)
    BY <1>8, <1>13
  <2> QED
    BY <1>7, <2>1, <2>2 DEF Searchable
<1>15. /\ TreeInv(u)
       /\ DOMAIN u.node = DOMAIN t.node \cup {block}
       /\ u.node[block].key = key /\ u.node[block].val = val
       /\ \A b \in DOMAIN t.node :
            /\ t.node[b].key # key
            /\ u.node[b].key = t.node[b].key /\ u.node[b].val = t.node[b].val
  BY <1>4, <1>7, <1>8, <1>9, <1>10, <1>11, <1>14 DEF TreeInv, D
<1> QED
  BY <1>15 DEF u
-----------------------------------------------------------------------------
\* The left pointers make chains.
LEMMA LeftIs ==
  ASSUME NEW t, Typed(t)
  PROVE  /\ Pointers(Left(t.node)) /\ DOMAIN Left(t.node) = DOMAIN t.node
         /\ \A b \in DOMAIN t.node : Left(t.node)[b] = t.node[b].left
BY TypedNode DEF Typed, Left, Pointers

\* A search that meets a node on the left spine under r has come down it from r.
LEMMA SpineBack ==
  ASSUME NEW t, Typed(t), OneParent(t), NEW j \in Nat, NEW r \in DOMAIN t.node,
         NEW d \in Chain(Left(t.node), r), d \in Path(t, j)
  PROVE  r \in Path(t, j) /\ d \in Chain(Search(t, j), r)
<1> DEFINE s == Search(t, j)
           next == Left(t.node)
           S == {c \in DOMAIN t.node : c \in Path(t, j) => r \in Path(t, j) /\ c \in Chain(s, r)}
<1>1. /\ Pointers(s) /\ DOMAIN s = DOMAIN t.node
      /\ Pointers(next) /\ DOMAIN next = DOMAIN t.node
      /\ \A b \in DOMAIN t.node : next[b] = t.node[b].left
  BY SearchPointers, SearchIs, LeftIs
<1>2. r \in S
  BY <1>1, ChainFirst
<1>3. ASSUME NEW c \in S PROVE next[c] = NULL \/ next[c] \in S
  <2> SUFFICES ASSUME next[c] # NULL, next[c] \in Path(t, j)
               PROVE  r \in Path(t, j) /\ next[c] \in Chain(s, r)
    BY <1>1 DEF Pointers
  <2>1. c \in Path(t, j) /\ s[c] = next[c]
    BY <1>1, PathBack
  <2> QED
    BY <1>1, <2>1, ChainOn
<1>4. S \subseteq DOMAIN next
  BY <1>1
<1> HIDE DEF S, next, s
<1>5. Chain(next, r) \subseteq S
  BY <1>2, <1>3, <1>4, ChainInduction
<1> QED
  BY <1>5 DEF S, next, s

\* A search that meets the last node of the spine has met all of it, and has gone to
\* the left everywhere.
LEMMA SpineKeys ==
  ASSUME NEW t, Typed(t), OneParent(t), NEW j \in Nat, NEW r \in DOMAIN t.node,
         NEW m \in Chain(Left(t.node), r), t.node[m].left = NULL, m \in Path(t, j),
         NEW d \in Chain(Left(t.node), r), d # m
  PROVE  d \in Path(t, j) /\ t.node[d].key > j
<1> DEFINE next == Left(t.node)
<1>1. /\ Pointers(next) /\ DOMAIN next = DOMAIN t.node
      /\ \A b \in DOMAIN t.node : next[b] = t.node[b].left
  BY LeftIs
<1>2. Chain(next, r) \subseteq DOMAIN t.node
  BY <1>1, ChainIn
<1>3. m \in DOMAIN t.node /\ next[m] = NULL
  BY <1>1, <1>2
<1>4. ASSUME NEW c \in Chain(next, r) PROVE c \in Path(t, j)
  <2>1. m \in Chain(next, c)
    <3>1. c \in Chain(next, m) \/ m \in Chain(next, c)
      BY <1>1, ChainOrder
    <3>2. Chain(next, m) = {m} /\ m \in Chain(next, m)
      BY <1>1, <1>3, ChainUnfold
    <3> QED
      BY <3>1, <3>2
  <2> QED
    BY <1>2, <2>1, SpineBack
<1>5. next[d] # NULL
  BY <1>1, <1>3, OneEnd
<1>6. next[d] \in Path(t, j) /\ d \in DOMAIN t.node
  BY <1>1, <1>2, <1>4, <1>5, ChainOn
<1> QED
  BY <1>1, <1>4, <1>6, PathBack

\* Conversely, a search for less than the keys of the spine goes down to its end.
LEMMA SpineDown ==
  ASSUME NEW t, Typed(t), OneParent(t), NEW j \in Nat, NEW r \in DOMAIN t.node, r \in Path(t, j),
         NEW m \in Chain(Left(t.node), r), t.node[m].left = NULL,
         \A d \in Chain(Left(t.node), r) : d # m => t.node[d].key > j
  PROVE  m \in Path(t, j)
<1> DEFINE next == Left(t.node)
           S == {c \in Chain(next, r) : c \in Path(t, j)}
<1>1. /\ Pointers(next) /\ DOMAIN next = DOMAIN t.node
      /\ \A b \in DOMAIN t.node : next[b] = t.node[b].left
  BY LeftIs
<1>2. S \subseteq DOMAIN next
  BY <1>1, ChainIn
<1>3. r \in S
  BY <1>1, ChainFirst
<1>4. ASSUME NEW c \in S PROVE next[c] = NULL \/ next[c] \in S
  <2> SUFFICES ASSUME next[c] # NULL PROVE next[c] \in S
    OBVIOUS
  <2>1. c \in DOMAIN t.node /\ c # m /\ next[c] = t.node[c].left
    BY <1>1, <1>2
  <2>2. Search(t, j)[c] = next[c]
    BY <2>1, SearchIs
  <2> QED
    BY <1>1, <2>2, ChainOn, PathFacts
<1> HIDE DEF S
<1>5. Chain(next, r) \subseteq S
  BY <1>2, <1>3, <1>4, ChainInduction
<1> QED
  BY <1>5 DEF S

\* The least node on the right of n, and the one above it.
LEMMA LeastIs ==
  ASSUME NEW t, TreeInv(t), NEW n \in DOMAIN t.node, NEW r \in DOMAIN t.node,
         t.node[n].right = r, t.node[r].left # NULL
  PROVE  LET min == End(Left(t.node), r)
             q == BeforeMin(t.node, r)
             spine == Chain(Left(t.node), r)
         IN  /\ min \in spine /\ q \in spine /\ n \notin spine /\ spine \subseteq DOMAIN t.node
             /\ t.node[min].left = NULL /\ t.node[q].left = min /\ min # q /\ min # r
             /\ t.node[min].right # n
             /\ t.node[n].key < t.node[min].key
             /\ \A d \in spine : d # min => t.node[d].key > t.node[min].key
<1> DEFINE next == Left(t.node)
           min == End(next, r)
           q == BeforeMin(t.node, r)
           spine == Chain(next, r)
<1>1. Typed(t) /\ OneParent(t) /\ Searchable(t)
  BY DEF TreeInv
<1>2. /\ Pointers(next) /\ DOMAIN next = DOMAIN t.node /\ IsFiniteSet(DOMAIN next)
      /\ \A b \in DOMAIN t.node : next[b] = t.node[b].left
  BY <1>1, LeftIs DEF Typed
<1>3. r # NULL
  BY <1>1, TypedNode
<1>4. Straight(next, r)
  BY <1>1, <1>2, <1>3 DEF Straight, OneParent
<1>5. min \in spine /\ next[min] = NULL
  BY <1>2, <1>4, ChainEnds
<1>6. spine \subseteq DOMAIN t.node
  BY <1>2, ChainIn
<1>7. min \in DOMAIN t.node /\ t.node[min].left = NULL /\ min # r /\ min # NULL
  BY <1>1, <1>2, <1>5, <1>6, TypedNode
<1>8. q \in spine /\ t.node[q].left = min
  <2>1. \E b \in spine : next[b] = min
    BY <1>2, <1>5, <1>7, ChainBack
  <2>2. \E b \in spine : t.node[b].left = min
    BY <1>2, <1>6, <2>1
  <2> QED
    BY <2>2 DEF BeforeMin
<1>9. min # q
  BY <1>7, <1>8
<1>10. t.node[n].key \in Nat /\ t.node[min].key \in Nat
  BY <1>1, <1>7, TypedNode
<1>11. n \notin spine
  <2> SUFFICES ASSUME n \in spine PROVE FALSE
    OBVIOUS
  <2>1. n \in Path(t, t.node[n].key)
    BY <1>1 DEF Searchable
  <2>2. r \in Path(t, t.node[n].key)
    BY <1>1, <1>10, <2>1, SpineBack
  <2>3. t.node[n].key < t.node[n].key
    BY <1>1, <1>10, <2>2, PathBack
  <2> QED
    BY <1>10, <2>3
<1>12. min \in Path(t, t.node[min].key)
  BY <1>1, <1>7 DEF Searchable
<1>13. r \in Path(t, t.node[min].key)
  BY <1>1, <1>5, <1>10, <1>12, SpineBack
<1>14. n \in Path(t, t.node[min].key) /\ t.node[n].key < t.node[min].key
  BY <1>1, <1>10, <1>13, PathBack
<1>15. t.node[min].right # n
  <2> SUFFICES ASSUME t.node[min].right = n PROVE FALSE
    OBVIOUS
  <2>1. t.node[min].key < t.node[min].key
    BY <1>1, <1>7, <1>10, <1>14, PathBack
  <2> QED
    BY <1>10, <2>1
<1>16. \A d \in spine : d # min => t.node[d].key > t.node[min].key
  BY <1>1, <1>5, <1>7, <1>10, <1>12, SpineKeys
<1> QED
  BY <1>5, <1>6, <1>7, <1>8, <1>9, <1>11, <1>14, <1>15, <1>16

\* Keys grow from left to right, one pointer at a time.
LEMMA ChildKeys ==
  ASSUME NEW t, TreeInv(t), NEW b \in DOMAIN t.node
  PROVE  /\ t.node[b].left # NULL => t.node[t.node[b].left].key < t.node[b].key
         /\ t.node[b].right # NULL => t.node[t.node[b].right].key > t.node[b].key
<1>1. Typed(t) /\ OneParent(t) /\ Searchable(t)
  BY DEF TreeInv
<1>2. ASSUME NEW c \in DOMAIN t.node PROVE c \in Path(t, t.node[c].key) /\ t.node[c].key \in Nat
  BY <1>1, TypedNode DEF Searchable
<1>3. t.node[b].key \in Nat
  BY <1>2
<1>4. ASSUME t.node[b].left # NULL PROVE t.node[t.node[b].left].key < t.node[b].key
  <2> DEFINE c == t.node[b].left
  <2>1. c \in DOMAIN t.node
    BY <1>1, <1>4 DEF Typed
  <2>2. t.node[b].key > t.node[c].key
    BY <1>1, <1>2, <2>1, PathBack
  <2> QED
    BY <1>2, <1>3, <2>1, <2>2
<1>5. ASSUME t.node[b].right # NULL PROVE t.node[t.node[b].right].key > t.node[b].key
  <2> DEFINE c == t.node[b].right
  <2>1. c \in DOMAIN t.node
    BY <1>1, <1>5 DEF Typed
  <2>2. t.node[b].key < t.node[c].key
    BY <1>1, <1>2, <2>1, PathBack
  <2> QED
    BY <1>2, <1>3, <2>1, <2>2
<1> QED
  BY <1>4, <1>5

\* The three ways in which the branches of a removed node n are joined: no right
\* branch, a right branch without a left one, and the least node of it moved up.
NoRight(t, n) == t.node[n].right = NULL

NoLeft(t, n) == t.node[n].right # NULL /\ t.node[t.node[n].right].left = NULL

HasLeast(t, n) == t.node[n].right # NULL /\ t.node[t.node[n].right].left # NULL

Least(t, n) == End(Left(t.node), t.node[n].right)

Above(t, n) == BeforeMin(t.node, t.node[n].right)

\* The node that takes the place of n, and the branches of the others after it.
Heir(t, n) ==
  IF NoRight(t, n) THEN t.node[n].left
  ELSE IF NoLeft(t, n) THEN t.node[n].right ELSE Least(t, n)

NewLeft(t, n, b) ==
  IF NoLeft(t, n) /\ b = t.node[n].right THEN t.node[n].left
  ELSE IF HasLeast(t, n) /\ b = Least(t, n) THEN t.node[n].left
  ELSE IF HasLeast(t, n) /\ b = Above(t, n) THEN t.node[Least(t, n)].right
  ELSE t.node[b].left

NewRight(t, n, b) ==
  IF HasLeast(t, n) /\ b = Least(t, n) THEN t.node[n].right ELSE t.node[b].right

\* A pointer that led to n leads to its heir.
Via(t, n, x) == IF x = n THEN Heir(t, n) ELSE x

\* Joined() says the same, pointer by pointer.
LEMMA JoinedIs ==
  ASSUME NEW t, TreeInv(t), NEW n \in DOMAIN t.node
  PROVE  LET j == Joined(t.node, t.node[n].left, t.node[n].right)
         IN  /\ j.root = Heir(t, n)
             /\ \A b \in DOMAIN t.node :
                  j.node[b] = [key |-> t.node[b].key, val |-> t.node[b].val,
                               left |-> NewLeft(t, n, b), right |-> NewRight(t, n, b)]
<1> DEFINE l == t.node[n].left
           r == t.node[n].right
           j == Joined(t.node, l, r)
<1>1. Typed(t) /\ r \in DOMAIN t.node \cup {NULL}
  BY DEF TreeInv, Typed
<1>2. \A b \in DOMAIN t.node :
        t.node[b] = [key |-> t.node[b].key, val |-> t.node[b].val,
                     left |-> t.node[b].left, right |-> t.node[b].right]
  BY <1>1, TypedNode
<1>3. t.node = [b \in DOMAIN t.node |-> t.node[b]]
  BY <1>1 DEF Typed
<1>4. CASE r = NULL
  <2>1. j.root = l /\ j.node = t.node
    BY <1>4 DEF Joined
  <2> QED
    BY <1>2, <1>4, <2>1 DEF NoRight, NoLeft, HasLeast, Heir, NewLeft, NewRight
<1>5. CASE r # NULL /\ t.node[r].left = NULL
  <2>1. j.root = r /\ j.node = [t.node EXCEPT ![r].left = l]
    BY <1>5 DEF Joined
  <2>2. Heir(t, n) = r
    BY <1>5 DEF NoRight, NoLeft, Heir
  <2>3. \A b \in DOMAIN t.node :
          /\ NewLeft(t, n, b) = IF b = r THEN l ELSE t.node[b].left
          /\ NewRight(t, n, b) = t.node[b].right
    BY <1>5 DEF NoLeft, HasLeast, NewLeft, NewRight
  <2>4. \A b \in DOMAIN t.node :
          j.node[b] = IF b = r THEN [t.node[b] EXCEPT !.left = l] ELSE t.node[b]
    BY <1>1, <1>3, <1>5, <2>1
  <2>5. ASSUME NEW b \in DOMAIN t.node
        PROVE  j.node[b] = [key |-> t.node[b].key, val |-> t.node[b].val,
                            left |-> NewLeft(t, n, b), right |-> NewRight(t, n, b)]
    <3> HIDE DEF j, l, r
    <3> QED
      BY <1>2, <2>3, <2>4
  <2> QED
    BY <2>1, <2>2, <2>5
<1>6. CASE r # NULL /\ t.node[r].left # NULL
  <2> DEFINE min == End(Left(t.node), r)
             q == BeforeMin(t.node, r)
  <2>1. min \in DOMAIN t.node /\ q \in DOMAIN t.node /\ min # q
    BY <1>1, <1>6, LeastIs
  <2>2. /\ j.root = min
        /\ j.node = [t.node EXCEPT ![q].left = t.node[min].right, ![min].left = l, ![min].right = r]
    BY <1>6 DEF Joined, Promoted
  <2>3. Heir(t, n) = min
    BY <1>6 DEF NoRight, NoLeft, Heir, Least
  <2>4. \A b \in DOMAIN t.node :
          /\ NewLeft(t, n, b) = IF b = min THEN l
                                ELSE IF b = q THEN t.node[min].right ELSE t.node[b].left
          /\ NewRight(t, n, b) = IF b = min THEN r ELSE t.node[b].right
    BY <1>6 DEF NoLeft, HasLeast, NewLeft, NewRight, Least, Above
  <2>5. \A b \in DOMAIN t.node :
          j.node[b] = IF b = q THEN [t.node[b] EXCEPT !.left = t.node[min].right]
                      ELSE IF b = min THEN [[t.node[b] EXCEPT !.left = l] EXCEPT !.right = r]
                      ELSE t.node[b]
    <3> HIDE DEF l, r, j, min, q
    <3> QED
      BY <1>3, <2>1, <2>2
  <2>6. ASSUME NEW b \in DOMAIN t.node
        PROVE  j.node[b] = [key |-> t.node[b].key, val |-> t.node[b].val,
                            left |-> NewLeft(t, n, b), right |-> NewRight(t, n, b)]
    <3> HIDE DEF j, l, r, min, q
    <3>1. CASE b = q
      BY <1>2, <2>1, <2>4, <2>5, <3>1
    <3>2. CASE b = min
      BY <1>2, <2>1, <2>4, <2>5, <3>2
    <3>3. CASE b # q /\ b # min
      BY <1>2, <2>4, <2>5, <3>3
    <3> QED
      BY <3>1, <3>2, <3>3
  <2> QED
    BY <2>2, <2>3, <2>6
<1> QED
  BY <1>4, <1>5, <1>6

\* Where the pointers of the joined branches lead: never to n, but for the one that
\* did before.
LEMMA JoinedTypes ==
  ASSUME NEW t, TreeInv(t), NEW n \in DOMAIN t.node
  PROVE  /\ Heir(t, n) \in (DOMAIN t.node \ {n}) \cup {NULL}
         /\ \A b \in DOMAIN t.node \ {n} :
              /\ NewLeft(t, n, b) \in DOMAIN t.node \cup {NULL}
              /\ NewRight(t, n, b) \in DOMAIN t.node \cup {NULL}
              /\ NewLeft(t, n, b) = n <=> t.node[b].left = n
              /\ NewRight(t, n, b) = n <=> t.node[b].right = n
<1> DEFINE D == DOMAIN t.node
           l == t.node[n].left
           r == t.node[n].right
<1>1. /\ Typed(t) /\ NULL \notin D /\ t.node[n].key \in Nat
      /\ \A b \in D : t.node[b].left \in D \cup {NULL} /\ t.node[b].right \in D \cup {NULL}
  BY TypedNode DEF TreeInv, Typed
<1>2. l # n /\ r # n
  <2>1. l = n => t.node[n].key < t.node[n].key
    BY <1>1, ChildKeys
  <2>2. r = n => t.node[n].key > t.node[n].key
    BY <1>1, ChildKeys
  <2> QED
    BY <1>1, <2>1, <2>2
<1>3. CASE NoRight(t, n)
  BY <1>1, <1>2, <1>3 DEF NoRight, NoLeft, HasLeast, Heir, NewLeft, NewRight
<1>4. CASE NoLeft(t, n)
  BY <1>1, <1>2, <1>4 DEF NoRight, NoLeft, HasLeast, Heir, NewLeft, NewRight
<1>5. CASE HasLeast(t, n)
  <2>1. /\ Least(t, n) \in D /\ Above(t, n) \in D /\ Least(t, n) # Above(t, n)
        /\ Least(t, n) # n /\ Above(t, n) # n
        /\ t.node[Least(t, n)].left = NULL /\ t.node[Above(t, n)].left = Least(t, n)
        /\ t.node[Least(t, n)].right # n
    BY <1>1, <1>5, LeastIs DEF HasLeast, Least, Above
  <2>2. Heir(t, n) = Least(t, n)
    BY <1>5 DEF NoRight, NoLeft, HasLeast, Heir
  <2>3. ASSUME NEW b \in D
        PROVE  /\ NewLeft(t, n, b) = IF b = Least(t, n) THEN l
                                     ELSE IF b = Above(t, n) THEN t.node[Least(t, n)].right
                                     ELSE t.node[b].left
               /\ NewRight(t, n, b) = IF b = Least(t, n) THEN r ELSE t.node[b].right
    BY <1>5 DEF NoLeft, HasLeast, NewLeft, NewRight
  <2>4. t.node[Least(t, n)].right \in D \cup {NULL} /\ l \in D \cup {NULL} /\ r \in D \cup {NULL}
    BY <1>1, <2>1
  <2>5. ASSUME NEW b \in D \ {n}
        PROVE  /\ NewLeft(t, n, b) \in D \cup {NULL} /\ NewRight(t, n, b) \in D \cup {NULL}
               /\ NewLeft(t, n, b) = n <=> t.node[b].left = n
               /\ NewRight(t, n, b) = n <=> t.node[b].right = n
    <3>1. /\ t.node[b].left \in D \cup {NULL} /\ t.node[b].right \in D \cup {NULL}
          /\ n \in D /\ r # NULL
      BY <1>1, <1>5 DEF HasLeast
    <3>2. b = Least(t, n) => t.node[b].right # n /\ t.node[b].left # n
      BY <1>1, <2>1, <3>1
    <3>3. b = Above(t, n) => t.node[b].left # n
      BY <2>1
    <3> QED
      BY <1>2, <2>1, <2>3, <2>4, <3>1, <3>2, <3>3
  <2> QED
    BY <2>1, <2>2, <2>5
<1> QED
  BY <1>3, <1>4, <1>5 DEF NoRight, NoLeft, HasLeast

\* u is tree t without node n, pointer by pointer.
Without(t, n, u) ==
  /\ u = [root |-> u.root, node |-> u.node]
  /\ u.root = Via(t, n, t.root)
  /\ DOMAIN u.node = DOMAIN t.node \ {n}
  /\ u.node = [b \in DOMAIN u.node |-> u.node[b]]
  /\ \A b \in DOMAIN u.node :
       /\ u.node[b] = [key |-> u.node[b].key, val |-> u.node[b].val,
                       left |-> u.node[b].left, right |-> u.node[b].right]
       /\ u.node[b].key = t.node[b].key /\ u.node[b].val = t.node[b].val
       /\ u.node[b].left = Via(t, n, NewLeft(t, n, b))
       /\ u.node[b].right = Via(t, n, NewRight(t, n, b))

\* So does remove_neighbor_aux(): the pointer it redirects is the one to n.
LEMMA RemovedIs ==
  ASSUME NEW t, TreeInv(t), NEW n \in DOMAIN t.node
  PROVE  Without(t, n, remove_neighbor_aux(t, t.node[n].key))
<1> DEFINE k == t.node[n].key
           u == remove_neighbor_aux(t, k)
           j == Joined(t.node, t.node[n].left, t.node[n].right)
           s == Search(t, k)
<1>1. Typed(t) /\ OneParent(t) /\ Searchable(t)
  BY DEF TreeInv
<1>2. k \in Nat /\ n # NULL
  BY <1>1, TypedNode
<1>3. Known(t, k) /\ Place(t, k) = n
  BY <1>2, Lookup
<1>4. /\ j.root = Heir(t, n)
      /\ \A b \in DOMAIN t.node :
           j.node[b] = [key |-> t.node[b].key, val |-> t.node[b].val,
                        left |-> NewLeft(t, n, b), right |-> NewRight(t, n, b)]
  BY JoinedIs
<1> HIDE DEF j, k
<1>5. u = [root |-> IF t.root = n THEN j.root ELSE t.root,
           node |-> [b \in DOMAIN t.node \ {n} |->
                        IF b \in Path(t, k) /\ s[b] = n
                        THEN Redirected(j.node[b], k, j.root) ELSE j.node[b]]]
  BY <1>3 DEF remove_neighbor_aux, j
<1> HIDE DEF u
<1>6. ASSUME NEW b \in DOMAIN t.node \ {n}
      PROVE  u.node[b] = [key |-> t.node[b].key, val |-> t.node[b].val,
                          left |-> Via(t, n, NewLeft(t, n, b)),
                          right |-> Via(t, n, NewRight(t, n, b))]
  <2>0. j.node[b] = [key |-> t.node[b].key, val |-> t.node[b].val,
                     left |-> NewLeft(t, n, b), right |-> NewRight(t, n, b)]
    BY <1>4
  <2>1. u.node[b] = IF b \in Path(t, k) /\ s[b] = n
                    THEN Redirected(j.node[b], k, j.root) ELSE j.node[b]
    BY <1>5
  <2>2. /\ NewLeft(t, n, b) = n <=> t.node[b].left = n
        /\ NewRight(t, n, b) = n <=> t.node[b].right = n
    BY JoinedTypes
  <2>3. n \in Path(t, k) /\ t.node[b].key \in Nat
    BY <1>1, TypedNode DEF Searchable, k
  <2>4. CASE t.node[b].left = n
    <3>1. b \in Path(t, k) /\ s[b] = n /\ t.node[b].key > k
      BY <1>1, <1>2, <2>3, <2>4, PathBack
    <3>2. t.node[b].right # n
      BY <1>1, <1>2, <2>4 DEF OneParent
    <3>3. j.node[b].key > k
      BY <2>0, <3>1
    <3>4. u.node[b] = [j.node[b] EXCEPT !.left = Heir(t, n)]
      BY <1>4, <2>1, <3>1, <3>3 DEF Redirected
    <3>5. Via(t, n, NewLeft(t, n, b)) = Heir(t, n) /\ Via(t, n, NewRight(t, n, b)) = NewRight(t, n, b)
      BY <2>2, <2>4, <3>2 DEF Via
    <3> QED
      BY <2>0, <3>4, <3>5
  <2>5. CASE t.node[b].right = n
    <3>1. b \in Path(t, k) /\ s[b] = n /\ t.node[b].key < k
      BY <1>1, <1>2, <2>3, <2>5, PathBack
    <3>2. t.node[b].left # n
      BY <1>1, <1>2, <2>5 DEF OneParent
    <3>3. ~(j.node[b].key > k)
      BY <1>2, <2>0, <2>3, <3>1
    <3>4. u.node[b] = [j.node[b] EXCEPT !.right = Heir(t, n)]
      BY <1>4, <2>1, <3>1, <3>3 DEF Redirected
    <3>5. Via(t, n, NewLeft(t, n, b)) = NewLeft(t, n, b) /\ Via(t, n, NewRight(t, n, b)) = Heir(t, n)
      BY <2>2, <2>5, <3>2 DEF Via
    <3> QED
      BY <2>0, <3>4, <3>5
  <2>6. CASE t.node[b].left # n /\ t.node[b].right # n
    <3>1. s[b] # n
      BY <1>1, <1>2, <2>6, SearchPointers
    <3> QED
      BY <2>0, <2>1, <2>2, <2>6, <3>1 DEF Via
  <2> QED
    BY <2>4, <2>5, <2>6
<1>7. u.root = Via(t, n, t.root)
  BY <1>4, <1>5 DEF Via
<1>8. /\ u = [root |-> u.root, node |-> u.node]
      /\ DOMAIN u.node = DOMAIN t.node \ {n}
      /\ u.node = [b \in DOMAIN u.node |-> u.node[b]]
  BY <1>5
<1>9. ASSUME NEW b \in DOMAIN u.node
      PROVE  /\ u.node[b] = [key |-> u.node[b].key, val |-> u.node[b].val,
                             left |-> u.node[b].left, right |-> u.node[b].right]
             /\ u.node[b].key = t.node[b].key /\ u.node[b].val = t.node[b].val
             /\ u.node[b].left = Via(t, n, NewLeft(t, n, b))
             /\ u.node[b].right = Via(t, n, NewRight(t, n, b))
  <2>1. u.node[b] = [key |-> t.node[b].key, val |-> t.node[b].val,
                     left |-> Via(t, n, NewLeft(t, n, b)),
                     right |-> Via(t, n, NewRight(t, n, b))]
    BY <1>6, <1>8
  <2> QED
    BY <2>1
<1> QED
  BY <1>7, <1>8, <1>9 DEF u, k, Without

\* Without n, no pointer leads to n or out of the heap ...
LEMMA RemovedTyped ==
  ASSUME NEW t, TreeInv(t), NEW n \in DOMAIN t.node, NEW u, Without(t, n, u)
  PROVE  Typed(u)
<1> DEFINE D == DOMAIN t.node
<1>1. Typed(t) /\ NULL \notin D
  BY TypedNode DEF TreeInv
<1>2. /\ u = [root |-> u.root, node |-> u.node]
      /\ u.root = Via(t, n, t.root)
      /\ DOMAIN u.node = D \ {n}
      /\ u.node = [b \in DOMAIN u.node |-> u.node[b]]
      /\ \A b \in DOMAIN u.node :
           /\ u.node[b] = [key |-> u.node[b].key, val |-> u.node[b].val,
                           left |-> u.node[b].left, right |-> u.node[b].right]
           /\ u.node[b].key = t.node[b].key /\ u.node[b].val = t.node[b].val
           /\ u.node[b].left = Via(t, n, NewLeft(t, n, b))
           /\ u.node[b].right = Via(t, n, NewRight(t, n, b))
  BY DEF Without
<1>3. IsFiniteSet(D \ {n}) /\ D \ {n} \subseteq Block
  BY <1>1, FS_RemoveElement DEF Typed
<1>4. \A x \in D \cup {NULL} : Via(t, n, x) \in (D \ {n}) \cup {NULL}
  BY JoinedTypes DEF Via
<1>5. u.root \in (D \ {n}) \cup {NULL}
  BY <1>1, <1>2, <1>4 DEF Typed
<1>6. ASSUME NEW b \in D \ {n}
      PROVE  /\ u.node[b] \in Node
             /\ u.node[b].left \in (D \ {n}) \cup {NULL}
             /\ u.node[b].right \in (D \ {n}) \cup {NULL}
  <2>1. /\ Via(t, n, NewLeft(t, n, b)) \in (D \ {n}) \cup {NULL}
        /\ Via(t, n, NewRight(t, n, b)) \in (D \ {n}) \cup {NULL}
    BY <1>4, JoinedTypes
  <2>2. t.node[b].key \in Key /\ t.node[b].val \in Ident
    BY <1>1, TypedNode
  <2>3. /\ u.node[b] = [key |-> u.node[b].key, val |-> u.node[b].val,
                         left |-> u.node[b].left, right |-> u.node[b].right]
        /\ u.node[b].key \in Key /\ u.node[b].val \in Ident
        /\ u.node[b].left \in (D \ {n}) \cup {NULL}
        /\ u.node[b].right \in (D \ {n}) \cup {NULL}
    BY <1>2, <2>1, <2>2
  <2>4. /\ u.node[b].left \in Block \cup {NULL}
        /\ u.node[b].right \in Block \cup {NULL}
    BY <1>3, <2>3
  <2>5. u.node[b] \in Node
    BY <2>3, <2>4 DEF Node
  <2> QED
    BY <2>3, <2>5
<1>7. u.node \in [DOMAIN u.node -> Node]
  BY <1>2, <1>6
<1> QED
  BY <1>2, <1>3, <1>5, <1>6, <1>7 DEF Typed

\* ... and no two to the same node.
LEMMA RemovedOneParent ==
  ASSUME NEW t, TreeInv(t), NEW n \in DOMAIN t.node, NEW u, Without(t, n, u)
  PROVE  OneParent(u)
<1> DEFINE D == DOMAIN t.node
           L(b) == NewLeft(t, n, b)
           R(b) == NewRight(t, n, b)
<1>1. Typed(t) /\ OneParent(t) /\ NULL \notin D
  BY TypedNode DEF TreeInv
<1>2. /\ u.root = Via(t, n, t.root)
      /\ DOMAIN u.node = D \ {n}
      /\ \A b \in D \ {n} : u.node[b].left = Via(t, n, L(b)) /\ u.node[b].right = Via(t, n, R(b))
  BY DEF Without
<1>3. Heir(t, n) # n /\ n # NULL
  BY <1>1, JoinedTypes
\* Before the pointer to n is replaced, none leads to the heir.
<1>4. ASSUME NEW a \in D \ {n}, NEW b \in D \ {n}
      PROVE  /\ L(a) # NULL =>
                  L(a) # t.root /\ L(a) # Heir(t, n) /\ L(a) # R(b) /\ (L(a) = L(b) => a = b)
             /\ R(a) # NULL =>
                  R(a) # t.root /\ R(a) # Heir(t, n) /\ (R(a) = R(b) => a = b)
  <2>1. /\ t.node[a].left # NULL =>
             /\ t.node[a].left # t.root
             /\ t.node[a].left # t.node[b].right /\ t.node[a].left # t.node[n].right
             /\ t.node[a].left # t.node[a].right
             /\ t.node[a].left # t.node[n].left
             /\ t.node[a].left = t.node[b].left => a = b
        /\ t.node[a].right # NULL =>
             /\ t.node[a].right # t.root
             /\ t.node[a].right # t.node[n].right
             /\ t.node[a].right # t.node[n].left /\ t.node[a].right # t.node[b].left
             /\ t.node[a].right = t.node[b].right => a = b
        /\ t.node[n].left # NULL => t.node[n].left # t.root /\ t.node[n].left # t.node[n].right
        /\ t.node[n].right # NULL => t.node[n].right # t.root
    BY <1>1 DEF OneParent
  <2>2. /\ t.node[b].left # NULL =>
             /\ t.node[b].left # t.node[n].left /\ t.node[b].left # t.node[n].right
        /\ t.node[b].right # NULL =>
             /\ t.node[b].right # t.node[n].left /\ t.node[b].right # t.node[n].right
    BY <1>1 DEF OneParent
  <2>3. CASE NoRight(t, n)
    BY <2>1, <2>2, <2>3 DEF NoRight, NoLeft, HasLeast, Heir, NewLeft, NewRight
  <2>4. CASE NoLeft(t, n)
    BY <2>1, <2>2, <2>4 DEF NoRight, NoLeft, HasLeast, Heir, NewLeft, NewRight
  <2>5. CASE HasLeast(t, n)
    <3> DEFINE m == Least(t, n)
               q == Above(t, n)
    <3>1. /\ m \in D /\ q \in D /\ m # q /\ m # n /\ q # n
          /\ t.node[m].left = NULL /\ t.node[q].left = m
      BY <1>1, <2>5, LeastIs DEF HasLeast, Least, Above, Typed
    <3>2. Heir(t, n) = m /\ t.node[n].right # NULL /\ m # NULL
      BY <1>1, <2>5, <3>1 DEF NoRight, NoLeft, HasLeast, Heir
    <3>3. \A c \in D : /\ L(c) = IF c = m THEN t.node[n].left
                                 ELSE IF c = q THEN t.node[m].right ELSE t.node[c].left
                       /\ R(c) = IF c = m THEN t.node[n].right ELSE t.node[c].right
      BY <2>5 DEF NoLeft, HasLeast, NewLeft, NewRight
    <3>4. /\ m # t.root
          /\ \A c \in D : (c # q => t.node[c].left # m) /\ t.node[c].right # m
      BY <1>1, <3>1, <3>2 DEF OneParent
    <3>5. /\ \A c \in D \ {m} : t.node[m].right # NULL => t.node[c].right # t.node[m].right
          /\ \A c \in D : t.node[m].right # NULL => t.node[c].left # t.node[m].right
          /\ t.node[m].right # NULL => t.node[m].right # t.root
      BY <1>1, <3>1 DEF OneParent
    <3> HIDE DEF m, q, L, R
    <3>6. L(a) # NULL =>
             L(a) # t.root /\ L(a) # Heir(t, n) /\ L(a) # R(b) /\ (L(a) = L(b) => a = b)
      BY <2>1, <2>2, <3>1, <3>2, <3>3, <3>4, <3>5
    <3>7. R(a) # NULL => R(a) # t.root /\ R(a) # Heir(t, n) /\ (R(a) = R(b) => a = b)
      BY <2>1, <2>2, <3>1, <3>2, <3>3, <3>4, <3>5
    <3> QED
      BY <3>6, <3>7
  <2> QED
    BY <2>3, <2>4, <2>5 DEF NoRight, NoLeft, HasLeast
<1>5. Heir(t, n) # NULL => t.root # Heir(t, n)
  <2>1. HasLeast(t, n) =>
          Above(t, n) \in D /\ t.node[Above(t, n)].left = Least(t, n)
    BY <1>1, LeastIs DEF HasLeast, Least, Above, Typed
  <2> QED
    BY <1>1, <2>1 DEF OneParent, NoRight, NoLeft, HasLeast, Heir
<1> HIDE DEF L, R
<1>6. ASSUME NEW a \in D \ {n}, NEW b \in D \ {n}
      PROVE  /\ u.node[a].left # NULL =>
                  /\ u.node[a].left # u.root
                  /\ u.node[a].left # u.node[b].right
                  /\ u.node[a].left = u.node[b].left => a = b
             /\ u.node[a].right # NULL =>
                  /\ u.node[a].right # u.root
                  /\ u.node[a].right = u.node[b].right => a = b
  <2>1. /\ L(a) # NULL =>
             L(a) # t.root /\ L(a) # Heir(t, n) /\ L(a) # R(b) /\ (L(a) = L(b) => a = b)
        /\ R(a) # NULL =>
             R(a) # t.root /\ R(a) # Heir(t, n) /\ (R(a) = R(b) => a = b)
        /\ L(b) # NULL => L(b) # Heir(t, n)
        /\ R(b) # NULL => R(b) # Heir(t, n)
    BY <1>4
  <2>2. \A x, y \in {L(a), R(a), L(b), R(b), t.root} :
          Via(t, n, x) # NULL /\ Via(t, n, x) = Via(t, n, y) => x = y /\ x # NULL
    BY <1>3, <1>5, <2>1 DEF Via
  <2> QED
    BY <1>2, <2>1, <2>2
<1> QED
  BY <1>2, <1>6 DEF OneParent

\* A search that found a node other than n finds it after n is removed.
LEMMA RemovedSearchable ==
  ASSUME NEW t, TreeInv(t), NEW n \in DOMAIN t.node, NEW u, Without(t, n, u)
  PROVE  Searchable(u)
<1> DEFINE D == DOMAIN t.node
<1>1. Typed(t) /\ OneParent(t) /\ Searchable(t) /\ Typed(u) /\ NULL \notin D
  BY RemovedTyped, TypedNode DEF TreeInv
<1>2. \A b \in D : t.node[b].key \in Nat
  BY <1>1, TypedNode
<1>3. DOMAIN u.node = D \ {n} /\ u.root = Via(t, n, t.root)
  BY DEF Without
<1>4. ASSUME NEW b \in D \ {n}
      PROVE  /\ u.node[b].key = t.node[b].key
             /\ u.node[b].left = Via(t, n, NewLeft(t, n, b))
             /\ u.node[b].right = Via(t, n, NewRight(t, n, b))
  BY <1>3 DEF Without
<1> SUFFICES ASSUME NEW m \in D \ {n}, m \notin Path(u, t.node[m].key) PROVE FALSE
  BY <1>3, <1>4 DEF Searchable
<1> DEFINE j == t.node[m].key
           s == Search(t, j)
           P == Path(t, j)
           Q == Path(u, j)
           S == {b \in P : Via(t, n, b) # NULL => Via(t, n, b) \in Q}
<1>5. j \in Nat /\ m \in P
  BY <1>1, <1>2 DEF Searchable
<1> HIDE DEF j
<1>6. s[m] = NULL
  BY <1>1, <1>5, SearchIs DEF j
<1>7. /\ Pointers(s) /\ DOMAIN s = D /\ P \subseteq D
      /\ Straight(s, t.root) /\ P = Chain(s, t.root)
  BY <1>1, <1>5, SearchPointers, SearchIs, SearchStraight, PathFacts DEF Path
<1>8. t.root \in D
  BY <1>1, <1>5, <1>7, ChainEmpty DEF Typed
<1>9. t.root \in S
  <2>1. t.root \in P
    BY <1>1, <1>5, <1>7, <1>8, PathFacts
  <2>2. u.root # NULL => u.root \in Q
    BY <1>1, <1>5, PathFacts
  <2> QED
    BY <1>3, <2>1, <2>2
<1>10. ASSUME NEW c \in P, s[c] # NULL, \A d \in P : c \in Chain(s, d) => d \in S
       PROVE  s[c] \in S
  <2> DEFINE e == s[c]
  <2>1. c \in D /\ e \in P /\ e \in D
    BY <1>1, <1>5, <1>7, <1>10, PathFacts
  <2>2. c \in S
    BY <1>7, <1>10, <2>1, ChainFirst
  <2>3. \/ t.node[c].key > j /\ e = t.node[c].left
        \/ t.node[c].key < j /\ e = t.node[c].right
    <3>1. t.node[c].key = j \/ t.node[c].key > j \/ t.node[c].key < j
      BY <1>2, <1>5, <2>1
    <3> QED
      BY <1>1, <1>5, <1>10, <2>1, <3>1, SearchIs
  <2>4. ASSUME NEW b \in Q
        PROVE  /\ t.node[b].key > j /\ u.node[b].left # NULL => u.node[b].left \in Q
               /\ t.node[b].key < j /\ u.node[b].right # NULL => u.node[b].right \in Q
    <3>1. b \in D \ {n}
      BY <1>1, <1>3, <1>5, PathFacts
    <3>2. /\ t.node[b].key > j => Search(u, j)[b] = u.node[b].left
          /\ t.node[b].key < j => Search(u, j)[b] = u.node[b].right
      BY <1>1, <1>3, <1>4, <1>5, <3>1, SearchIs
    <3> QED
      BY <1>1, <1>5, <3>2, PathFacts
  <2> HIDE DEF S, Q, P, s
  <2> SUFFICES ASSUME Via(t, n, e) # NULL PROVE Via(t, n, e) \in Q
    BY <2>1 DEF S
  <2>5. CASE c = n
    <3> DEFINE l == t.node[n].left
               r == t.node[n].right
    <3>1. Heir(t, n) # NULL => Heir(t, n) \in Q
      BY <2>2, <2>5 DEF S, Via
    <3>2. /\ l # NULL => l # n /\ t.node[l].key < t.node[n].key
          /\ r # NULL => r # n /\ t.node[r].key > t.node[n].key
          /\ l \in D \cup {NULL} /\ r \in D \cup {NULL}
      BY <1>1, <1>2, ChildKeys DEF Typed
    <3>3. Via(t, n, e) = e /\ e # NULL
      BY <1>1, <2>1, <2>3, <2>5, <3>2 DEF Via
    <3>4. CASE NoRight(t, n)
      BY <2>3, <2>5, <3>1, <3>3, <3>4 DEF NoRight, Heir
    <3>5. CASE NoLeft(t, n)
      <4>1. Heir(t, n) = r /\ r # NULL /\ r \in Q /\ NewLeft(t, n, r) = l
        BY <3>1, <3>5 DEF NoRight, NoLeft, Heir, NewLeft
      <4>2. CASE e = r
        BY <3>3, <4>1, <4>2
      <4>3. CASE e = l /\ t.node[n].key > j
        <5>1. r \in D \ {n} /\ t.node[r].key > j
          BY <1>2, <1>5, <3>2, <4>1, <4>3
        <5>2. u.node[r].left = e
          BY <1>4, <3>3, <4>1, <4>3, <5>1
        <5> QED
          BY <2>4, <3>3, <4>1, <5>1, <5>2
      <4> QED
        BY <2>3, <2>5, <4>2, <4>3
    <3>6. CASE HasLeast(t, n)
      <4> DEFINE min == Least(t, n)
                 spine == Chain(Left(t.node), r)
      <4>1. r # NULL /\ r \in D
        BY <3>2, <3>6 DEF HasLeast
      <4>2. /\ min \in spine /\ n \notin spine /\ spine \subseteq D
            /\ t.node[min].left = NULL /\ t.node[n].key < t.node[min].key
            /\ \A d \in spine : d # min => t.node[d].key > t.node[min].key
        BY <1>1, <3>6, <4>1, LeastIs DEF HasLeast, Least
      <4>3. min \in D \ {n} /\ Heir(t, n) = min /\ min \in Q
        BY <1>1, <3>1, <3>6, <4>2 DEF NoRight, NoLeft, HasLeast, Heir
      <4>4. NewLeft(t, n, min) = l /\ NewRight(t, n, min) = r
        BY <3>6 DEF NoLeft, HasLeast, NewLeft, NewRight
      <4>5. CASE e = l /\ t.node[n].key > j
        <5>1. t.node[min].key > j
          BY <1>2, <1>5, <4>2, <4>3, <4>5
        <5>2. u.node[min].left = e
          BY <1>4, <3>3, <4>3, <4>4, <4>5
        <5> QED
          BY <2>4, <3>3, <4>3, <5>1, <5>2
      <4>6. CASE e = r /\ t.node[min].key < j
        <5>1. u.node[min].right = e
          BY <1>4, <3>3, <4>3, <4>4, <4>6
        <5> QED
          BY <2>4, <3>3, <4>3, <4>6, <5>1
      <4>7. CASE e = r /\ t.node[min].key = j
        <5>1. min = m
          BY <4>3, <4>7, DistinctKeys DEF j
        <5> QED
          BY <4>3, <5>1 DEF j, Q
      <4>8. CASE e = r /\ t.node[min].key > j
        <5>1. \A d \in spine : d # min => t.node[d].key > j
          BY <1>2, <1>5, <4>2, <4>3, <4>8
        <5>2. r \in Path(t, j)
          BY <2>1, <4>8 DEF P
        <5>3. min \in Path(t, j)
          BY <1>1, <1>5, <4>1, <4>2, <5>1, <5>2, SpineDown
        <5>4. s[min] = NULL
          BY <1>1, <1>5, <4>2, <4>3, <4>8, SearchIs DEF s
        <5>5. min = m
          BY <1>1, <1>5, <1>6, <5>3, <5>4, PathFacts DEF s, P
        <5> QED
          BY <1>5, <4>8, <5>5 DEF j
      <4>9. t.node[min].key < j \/ t.node[min].key = j \/ t.node[min].key > j
        BY <1>2, <1>5, <4>3
      <4> QED
        BY <2>3, <2>5, <4>5, <4>6, <4>7, <4>8, <4>9
    <3> QED
      BY <3>4, <3>5, <3>6 DEF NoRight, NoLeft, HasLeast
  <2>6. CASE c # n
    <3>1. c \in Q /\ c \in D \ {n}
      BY <1>1, <2>1, <2>2, <2>6 DEF S, Via
    <3>2. CASE t.node[c].key > j /\ e = t.node[c].left
      <4>1. CASE NewLeft(t, n, c) = t.node[c].left
        BY <1>4, <2>4, <3>1, <3>2, <4>1
      <4>2. CASE NewLeft(t, n, c) # t.node[c].left
        <5> DEFINE r == t.node[n].right
        <5>1. HasLeast(t, n)
          BY <1>1, <2>1, <3>2, <4>2 DEF NewLeft, NoLeft
        <5>2. /\ r \in D /\ t.node[n].right = r /\ t.node[r].left # NULL
          BY <1>1, <5>1 DEF HasLeast, Typed
        <5>3. /\ t.node[Least(t, n)].left = NULL /\ t.node[Above(t, n)].left = Least(t, n)
              /\ Above(t, n) \in Chain(Left(t.node), r)
          BY <5>2, LeastIs DEF Least, Above
        <5>4. c = Above(t, n)
          BY <1>1, <2>1, <3>2, <4>2, <5>1, <5>3 DEF NewLeft, NoLeft, HasLeast
        <5>5. r \in Path(t, j) /\ c \in Chain(s, r)
          BY <1>1, <1>5, <5>2, <5>3, <5>4, SpineBack DEF P, s
        <5>6. n \in P /\ s[n] = r
          BY <1>1, <1>5, <5>2, <5>5, PathBack DEF P, s
        <5>7. c \in Chain(s, n)
          BY <1>7, <5>5, <5>6, ChainUnfold
        <5>8. Heir(t, n) # NULL => Heir(t, n) \in Q
          BY <1>10, <5>6, <5>7 DEF S, Via
        <5>9. Heir(t, n) = e
          BY <3>2, <5>1, <5>3, <5>4 DEF Heir, NoRight, NoLeft, HasLeast
        <5>10. e # n
          BY <1>1, <2>1, <5>9, JoinedTypes
        <5> QED
          BY <1>1, <2>1, <5>8, <5>9, <5>10 DEF Via
      <4> QED
        BY <4>1, <4>2
    <3>3. CASE t.node[c].key < j /\ e = t.node[c].right
      <4>1. CASE NewRight(t, n, c) = t.node[c].right
        BY <1>4, <2>4, <3>1, <3>3, <4>1
      <4>2. CASE NewRight(t, n, c) # t.node[c].right
        <5> DEFINE r == t.node[n].right
                   q == Above(t, n)
        <5>1. HasLeast(t, n) /\ c = Least(t, n)
          BY <4>2 DEF NewRight
        <5>2. /\ r \in D /\ t.node[n].right = r /\ t.node[r].left # NULL
          BY <1>1, <5>1 DEF HasLeast, Typed
        <5>3. /\ t.node[c].left = NULL /\ t.node[q].left = c /\ q # c /\ q # n
              /\ q \in Chain(Left(t.node), r) /\ q \in D /\ c \in Chain(Left(t.node), r)
          BY <5>1, <5>2, LeastIs DEF Least, Above
        <5>4. q \in P /\ s[q] = c /\ t.node[q].key > j
          BY <1>1, <1>5, <5>3, PathBack DEF P, s
        <5>5. c \in Chain(s, q)
          BY <1>7, <2>1, <5>3, <5>4, ChainUnfold, ChainFirst
        <5>6. q \in Q
          BY <1>1, <1>10, <5>3, <5>4, <5>5 DEF S, Via
        <5>7. NewLeft(t, n, q) = e
          BY <3>3, <5>1, <5>3 DEF NewLeft, NoLeft, HasLeast
        <5> QED
          BY <1>4, <2>4, <5>3, <5>4, <5>6, <5>7
      <4> QED
        BY <4>1, <4>2
    <3> QED
      BY <2>3, <3>2, <3>3
  <2> QED
    BY <2>5, <2>6
<1>11. P \subseteq S
  <2> HIDE DEF S
  <2> QED
    BY <1>7, <1>8, <1>9, <1>10, StrongInduction
<1>12. m \in Q
  BY <1>1, <1>5, <1>11 DEF Via
<1> QED
  BY <1>12 DEF j

\* Removing a key, whether a node has it or not.
LEMMA RemoveInv ==
  ASSUME NEW t, TreeInv(t), NEW key \in Key
  PROVE  LET u == remove_neighbor_aux(t, key)
         IN  /\ TreeInv(u)
             /\ DOMAIN u.node = {b \in DOMAIN t.node : t.node[b].key # key}
             /\ \A b \in DOMAIN u.node :
                  u.node[b].key = t.node[b].key /\ u.node[b].val = t.node[b].val
<1> DEFINE u == remove_neighbor_aux(t, key)
           n == Place(t, key)
<1>1. key \in Nat
  BY AbrAssumption
<1>2. CASE Known(t, key)
  <2>1. n \in DOMAIN t.node /\ t.node[n].key = key
    BY <1>1, <1>2, Lookup
  <2>2. Without(t, n, u)
    BY <2>1, RemovedIs
  <2> HIDE DEF u, n
  <2>3. TreeInv(u)
    BY <2>1, <2>2, RemovedTyped, RemovedOneParent, RemovedSearchable DEF TreeInv
  <2>4. /\ DOMAIN u.node = DOMAIN t.node \ {n}
        /\ \A b \in DOMAIN u.node :
             u.node[b].key = t.node[b].key /\ u.node[b].val = t.node[b].val
    BY <2>2 DEF Without
  <2>5. \A b \in DOMAIN t.node : t.node[b].key = key <=> b = n
    BY <2>1, DistinctKeys
  <2> QED
    BY <2>3, <2>4, <2>5 DEF u
<1>3. CASE ~Known(t, key)
  <2>1. u = t
    BY <1>3 DEF remove_neighbor_aux
  <2>2. \A b \in DOMAIN t.node : t.node[b].key # key
    BY <1>1, <1>3, Lookup
  <2> QED
    BY <2>1, <2>2
<1> QED
  BY <1>2, <1>3
-----------------------------------------------------------------------------
\* The empty tree.
LEMMA InitInv == AbrInit => TreeInv(tree)
<1> SUFFICES ASSUME AbrInit PROVE TreeInv(tree)
  OBVIOUS
<1>1. /\ tree = [root |-> tree.root, node |-> tree.node] /\ tree.root = NULL
      /\ DOMAIN tree.node = {} /\ tree.node = [b \in {} |-> Leaf(0, NULL)]
  BY DEF AbrInit
<1>2. IsFiniteSet({})
  BY FS_EmptySet
<1> QED
  BY <1>1, <1>2 DEF TreeInv, Typed, OneParent, Searchable

\* What a step does to the nodes: those that stay keep their block and their key.
LEMMA StepInv ==
  ASSUME TreeInv(tree), AbrNext
  PROVE  /\ TreeInv(tree')
         /\ \A b \in DOMAIN tree.node \cap DOMAIN tree'.node :
              tree'.node[b].key = tree.node[b].key
         /\ \A b \in DOMAIN tree'.node \ DOMAIN tree.node, c \in DOMAIN tree.node :
              tree'.node[b].key # tree.node[c].key
<1>1. ASSUME NEW k \in Key, NEW v \in Ident, add_neighbor(k, v)
      PROVE  /\ TreeInv(tree')
             /\ \A b \in DOMAIN tree.node \cap DOMAIN tree'.node :
                  tree'.node[b].key = tree.node[b].key
             /\ \A b \in DOMAIN tree'.node \ DOMAIN tree.node, c \in DOMAIN tree.node :
                  tree'.node[b].key # tree.node[c].key
  <2>1. PICK block \in Block \ DOMAIN tree.node : tree' = add_neighbor_aux(tree, k, v, block)
    BY <1>1 DEF add_neighbor
  <2>2. CASE Known(tree, k)
    <3>1. TreeInv(tree') /\ Refreshed(tree, tree', k, v)
      BY <2>1, <2>2, RefreshInv
    <3> QED
      BY <3>1 DEF Refreshed
  <2>3. CASE ~Known(tree, k)
    BY <2>1, <2>3, HangInv
  <2> QED
    BY <2>2, <2>3
<1>2. ASSUME NEW k \in Key, remove_neighbor(k)
      PROVE  /\ TreeInv(tree')
             /\ \A b \in DOMAIN tree.node \cap DOMAIN tree'.node :
                  tree'.node[b].key = tree.node[b].key
             /\ \A b \in DOMAIN tree'.node \ DOMAIN tree.node, c \in DOMAIN tree.node :
                  tree'.node[b].key # tree.node[c].key
  <2>1. tree' = remove_neighbor_aux(tree, k)
    BY <1>2 DEF remove_neighbor
  <2> QED
    BY <2>1, RemoveInv
<1> QED
  BY <1>1, <1>2 DEF AbrNext

\* The tree is a search tree without shared, lost or dangling nodes, whatever is
\* inserted into it and removed from it (abr.c).
THEOREM AbrInvariant == AbrSpec => []TreeInv(tree)
<1>1. TreeInv(tree) /\ [AbrNext]_tree => TreeInv(tree)'
  BY StepInv
<1> QED
  BY <1>1, InitInv, PTL DEF AbrSpec

\* Everything under a branch of a node is found by going down that branch, so it is
\* on the side of the node that its key belongs to.
LEMMA UnderKeys ==
  ASSUME NEW t, TreeInv(t), NEW b \in DOMAIN t.node
  PROVE  /\ \A a \in Under(t, t.node[b].left) :
              a \in DOMAIN t.node /\ t.node[a].key < t.node[b].key
         /\ \A a \in Under(t, t.node[b].right) :
              a \in DOMAIN t.node /\ t.node[b].key < t.node[a].key
<1>1. Typed(t) /\ OneParent(t) /\ Searchable(t) /\ NULL \notin DOMAIN t.node
  BY TypedNode DEF TreeInv
<1>2. \A a \in DOMAIN t.node : t.node[a].key \in Nat
  BY <1>1, TypedNode
<1>3. ASSUME NEW x \in DOMAIN t.node, NEW a \in Under(t, x)
      PROVE  a \in DOMAIN t.node /\ x \in Path(t, t.node[a].key)
  <2> DEFINE S == {c \in DOMAIN t.node : \A j \in Nat : c \in Path(t, j) => x \in Path(t, j)}
  <2>1. S \subseteq DOMAIN t.node /\ x \in S
    BY <1>3
  <2>2. ASSUME NEW c \in S PROVE {t.node[c].left, t.node[c].right} \ {NULL} \subseteq S
    <3> SUFFICES ASSUME NEW d \in {t.node[c].left, t.node[c].right}, d # NULL PROVE d \in S
      OBVIOUS
    <3>1. d \in DOMAIN t.node
      BY <1>1, <2>1 DEF Typed
    <3>2. ASSUME NEW j \in Nat, d \in Path(t, j) PROVE c \in Path(t, j)
      BY <1>1, <2>1, <3>2, PathBack
    <3> QED
      BY <3>1, <3>2
  <2> HIDE DEF S
  <2>3. a \in S
    BY <1>3, <2>1, <2>2 DEF Under
  <2> QED
    BY <1>1, <1>2, <2>3 DEF S, Searchable
<1>4. ASSUME NEW a \in Under(t, NULL) PROVE FALSE
  <2> DEFINE S == {}
  <2>1. S \subseteq DOMAIN t.node /\ \A c \in S : {t.node[c].left, t.node[c].right} \ {NULL} \subseteq S
    OBVIOUS
  <2>2. a \in S
    BY <1>4, <2>1 DEF Under
  <2> QED
    BY <2>2
<1>5. ASSUME NEW a \in Under(t, t.node[b].left)
      PROVE  a \in DOMAIN t.node /\ t.node[a].key < t.node[b].key
  <2>1. t.node[b].left \in DOMAIN t.node
    BY <1>1, <1>4, <1>5 DEF Typed
  <2>2. a \in DOMAIN t.node /\ t.node[b].left \in Path(t, t.node[a].key)
    BY <1>3, <1>5, <2>1
  <2>3. t.node[b].key > t.node[a].key
    BY <1>1, <1>2, <2>2, PathBack
  <2> QED
    BY <1>2, <2>2, <2>3
<1>6. ASSUME NEW a \in Under(t, t.node[b].right)
      PROVE  a \in DOMAIN t.node /\ t.node[b].key < t.node[a].key
  <2>1. t.node[b].right \in DOMAIN t.node
    BY <1>1, <1>4, <1>6 DEF Typed
  <2>2. a \in DOMAIN t.node /\ t.node[b].right \in Path(t, t.node[a].key)
    BY <1>3, <1>6, <2>1
  <2> QED
    BY <1>1, <1>2, <2>2, PathBack
<1> QED
  BY <1>5, <1>6

\* find_by() meets every node there is.
LEMMA AllUnderRoot ==
  ASSUME NEW t, TreeInv(t)
  PROVE  DOMAIN t.node = Under(t, t.root)
<1>1. Typed(t) /\ Searchable(t)
  BY DEF TreeInv
<1>2. ASSUME NEW j \in Nat PROVE Path(t, j) \subseteq Under(t, t.root)
  <2>1. Pointers(Search(t, j)) /\ DOMAIN Search(t, j) = DOMAIN t.node
    BY <1>1, SearchPointers, SearchIs
  <2>2. ASSUME NEW S \in SUBSET DOMAIN t.node, t.root # NULL => t.root \in S,
               \A c \in S : {t.node[c].left, t.node[c].right} \ {NULL} \subseteq S
        PROVE  Path(t, j) \subseteq S
    <3>1. \A c \in S : Search(t, j)[c] \in {NULL, t.node[c].left, t.node[c].right}
      BY <1>1, SearchPointers
    <3>2. \A c \in S : Search(t, j)[c] = NULL \/ Search(t, j)[c] \in S
      BY <2>2, <3>1
    <3> QED
      BY <2>1, <2>2, <3>2, ChainInduction DEF Path
  <2>3. Path(t, j) \subseteq DOMAIN t.node
    BY <1>1, PathFacts
  <2> QED
    BY <2>2, <2>3 DEF Under
<1>3. \A b \in DOMAIN t.node : b \in Under(t, t.root)
  BY <1>1, <1>2, TypedNode DEF Searchable
<1> QED
  BY <1>3 DEF Under

\* What the order of the list rests on.
LEMMA InvOrdered == TreeInv(tree) => Ordered
<1> SUFFICES ASSUME TreeInv(tree) PROVE Ordered
  OBVIOUS
<1>1. Typed(tree)
  BY DEF TreeInv
<1>2. TreeOK
  BY <1>1 DEF Typed, TreeOK
<1>3. DOMAIN tree.node = Under(tree, tree.root)
  BY AllUnderRoot
<1>4. \A b \in DOMAIN tree.node : tree.node[b].key \in Nat
  BY <1>1, TypedNode
<1>5. ASSUME NEW a \in DOMAIN tree.node, NEW b \in DOMAIN tree.node, Before(tree, a, b)
      PROVE  tree.node[a].key < tree.node[b].key
  <2>1. CASE a \in Under(tree, tree.node[b].left)
    BY <2>1, UnderKeys
  <2>2. CASE b \in Under(tree, tree.node[a].right)
    BY <2>2, UnderKeys
  <2>3. CASE \E c \in DOMAIN tree.node :
               a \in Under(tree, tree.node[c].left) /\ b \in Under(tree, tree.node[c].right)
    <3>1. PICK c \in DOMAIN tree.node :
            a \in Under(tree, tree.node[c].left) /\ b \in Under(tree, tree.node[c].right)
      BY <2>3
    <3>2. tree.node[a].key < tree.node[c].key /\ tree.node[c].key < tree.node[b].key
      BY <3>1, UnderKeys
    <3> QED
      BY <1>4, <3>2
  <2> QED
    BY <1>5, <2>1, <2>2, <2>3 DEF Before
<1>6. \A b \in DOMAIN tree.node : get_ident(tree, tree.node[b].key) = tree.node[b].val
  BY <1>4, Lookup
<1> QED
  BY <1>2, <1>3, <1>5, <1>6 DEF Ordered

\* The list of find_by() is always in strictly increasing order and complete, and a
\* lookup finds every node of it.
THEOREM AbrOrdered == AbrSpec => []Ordered
BY AbrInvariant, InvOrdered, PTL

\* No step moves a key to another block (remove_neighbor_aux, remove_min).
THEOREM AbrPointersStable == AbrSpec => PointersStable
<1>1. TreeInv(tree) /\ [AbrNext]_tree =>
        [\A b \in DOMAIN tree.node, c \in DOMAIN tree'.node :
           tree.node[b].key = tree'.node[c].key => b = c]_tree
  <2> SUFFICES ASSUME TreeInv(tree), AbrNext,
                      NEW b \in DOMAIN tree.node, NEW c \in DOMAIN tree'.node,
                      tree.node[b].key = tree'.node[c].key
               PROVE  b = c
    OBVIOUS
  <2>1. c \in DOMAIN tree.node /\ tree'.node[c].key = tree.node[c].key
    BY StepInv
  <2> QED
    BY <2>1, DistinctKeys
<1> QED
  BY <1>1, AbrInvariant, PTL DEF AbrSpec, PointersStable

\* The table that lookups see: one entry for each node.
LEMMA TableIs ==
  ASSUME NEW t, TreeInv(t)
  PROVE  /\ DOMAIN Table(t) = {t.node[b].key : b \in DOMAIN t.node}
         /\ \A b \in DOMAIN t.node : Table(t)[t.node[b].key] = t.node[b].val
         /\ Table(t) = [k \in DOMAIN Table(t) |-> Table(t)[k]]
<1>1. Typed(t) /\ Key \subseteq Nat /\ NULL \notin Ident
  BY AbrAssumption DEF TreeInv
<1>2. ASSUME NEW b \in DOMAIN t.node
      PROVE  /\ t.node[b].key \in Key /\ t.node[b].key \in Nat /\ t.node[b].val # NULL
             /\ get_ident(t, t.node[b].key) = t.node[b].val
  <2>1. t.node[b].key \in Key /\ t.node[b].key \in Nat /\ t.node[b].val # NULL
    BY <1>1, TypedNode
  <2> QED
    BY <2>1, Lookup
<1>3. ASSUME NEW k \in Key, get_ident(t, k) # NULL
      PROVE  \E b \in DOMAIN t.node : t.node[b].key = k
  BY <1>1, <1>3, Lookup
<1>4. /\ DOMAIN Table(t) = {k \in Key : get_ident(t, k) # NULL}
      /\ \A k \in DOMAIN Table(t) : Table(t)[k] = get_ident(t, k)
      /\ Table(t) = [k \in DOMAIN Table(t) |-> Table(t)[k]]
  BY DEF Table
<1> HIDE DEF Table
<1>5. DOMAIN Table(t) = {t.node[b].key : b \in DOMAIN t.node}
  BY <1>2, <1>3, <1>4
<1> QED
  BY <1>2, <1>4, <1>5

\* Insertion into the tree is insertion into the table ...
LEMMA AddTable ==
  ASSUME TreeInv(tree), NEW k \in Key, NEW v \in Ident, add_neighbor(k, v)
  PROVE  Table(tree') = T!add_neighbor_aux(Table(tree), k, v)
<1> DEFINE A == Table(tree)
           B == Table(tree')
<1>1. PICK block \in Block \ DOMAIN tree.node : tree' = add_neighbor_aux(tree, k, v, block)
  BY DEF add_neighbor
<1>2. TreeInv(tree')
  BY StepInv DEF AbrNext
<1>3. /\ DOMAIN A = {tree.node[b].key : b \in DOMAIN tree.node}
      /\ \A b \in DOMAIN tree.node : A[tree.node[b].key] = tree.node[b].val
  BY TableIs
<1>4. /\ DOMAIN B = {tree'.node[b].key : b \in DOMAIN tree'.node}
      /\ \A b \in DOMAIN tree'.node : B[tree'.node[b].key] = tree'.node[b].val
      /\ B = [a \in DOMAIN B |-> B[a]]
  BY <1>2, TableIs
<1> HIDE DEF A, B
<1> DEFINE new(a) == IF a # k THEN A[a]
                     ELSE IF k \in DOMAIN A THEN [v EXCEPT !.id = A[k].id] ELSE v
<1>5. DOMAIN B = DOMAIN A \cup {k} /\ \A a \in DOMAIN B : B[a] = new(a)
  <2>1. CASE Known(tree, k)
    <3>1. /\ DOMAIN tree'.node = DOMAIN tree.node
          /\ \A b \in DOMAIN tree.node :
               /\ tree'.node[b].key = tree.node[b].key
               /\ tree'.node[b].val = IF tree.node[b].key = k
                                      THEN [v EXCEPT !.id = tree.node[b].val.id]
                                      ELSE tree.node[b].val
      <4>1. Refreshed(tree, tree', k, v)
        BY <1>1, <2>1, RefreshInv
      <4> QED
        BY <4>1 DEF Refreshed
    <3>2. k \in DOMAIN A
      <4>1. k \in Nat /\ Typed(tree)
        BY AbrAssumption DEF TreeInv
      <4>2. PICK b \in DOMAIN tree.node : tree.node[b].key = k
        BY <2>1, <4>1, Lookup
      <4> QED
        BY <1>3, <4>2
    <3>3. DOMAIN B = DOMAIN A
      <4>1. \A b \in DOMAIN tree.node : tree'.node[b].key = tree.node[b].key
        BY <3>1
      <4>2. DOMAIN B \subseteq DOMAIN A
        BY <1>3, <1>4, <3>1, <4>1
      <4>3. DOMAIN A \subseteq DOMAIN B
        BY <1>3, <1>4, <3>1, <4>1
      <4> QED
        BY <4>2, <4>3
    <3>4. ASSUME NEW b \in DOMAIN tree.node PROVE B[tree.node[b].key] = new(tree.node[b].key)
      <4>1. B[tree.node[b].key] = tree'.node[b].val
        BY <1>4, <3>1
      <4>2. CASE tree.node[b].key = k
        <5>1. tree'.node[b].val = [v EXCEPT !.id = tree.node[b].val.id]
          BY <3>1, <4>2
        <5>2. A[k] = tree.node[b].val
          BY <1>3, <4>2
        <5> QED
          BY <3>2, <4>1, <4>2, <5>1, <5>2
      <4>3. CASE tree.node[b].key # k
        BY <1>3, <3>1, <4>1, <4>3
      <4> QED
        BY <4>2, <4>3
    <3> HIDE DEF new
    <3> QED
      BY <1>3, <3>2, <3>3, <3>4
  <2>2. CASE ~Known(tree, k)
    <3>1. /\ DOMAIN tree'.node = DOMAIN tree.node \cup {block}
          /\ tree'.node[block].key = k /\ tree'.node[block].val = v
          /\ \A b \in DOMAIN tree.node :
               /\ tree.node[b].key # k
               /\ tree'.node[b].key = tree.node[b].key /\ tree'.node[b].val = tree.node[b].val
      BY <1>1, <2>2, HangInv
    <3>2. k \notin DOMAIN A /\ DOMAIN B = DOMAIN A \cup {k}
      BY <1>3, <1>4, <3>1
    <3>3. B[k] = new(k)
      BY <1>4, <3>1, <3>2
    <3>4. \A b \in DOMAIN tree.node : B[tree.node[b].key] = new(tree.node[b].key)
      BY <1>3, <1>4, <3>1
    <3> QED
      BY <1>3, <3>2, <3>3, <3>4
  <2> QED
    BY <2>1, <2>2
<1> HIDE DEF new
<1>6. B = [a \in DOMAIN A \cup {k} |-> new(a)]
  BY <1>4, <1>5
<1> QED
  BY <1>6 DEF A, B, new, T!add_neighbor_aux

\* ... and removal is removal.
LEMMA RemoveTable ==
  ASSUME TreeInv(tree), NEW k \in Key, remove_neighbor(k)
  PROVE  Table(tree') = T!remove_neighbor_aux(Table(tree), k)
<1> DEFINE A == Table(tree)
           B == Table(tree')
<1>1. /\ TreeInv(tree')
      /\ DOMAIN tree'.node = {b \in DOMAIN tree.node : tree.node[b].key # k}
      /\ \A b \in DOMAIN tree'.node :
           tree'.node[b].key = tree.node[b].key /\ tree'.node[b].val = tree.node[b].val
  BY RemoveInv DEF remove_neighbor
<1>2. /\ DOMAIN A = {tree.node[b].key : b \in DOMAIN tree.node}
      /\ \A b \in DOMAIN tree.node : A[tree.node[b].key] = tree.node[b].val
  BY TableIs
<1>3. /\ DOMAIN B = {tree'.node[b].key : b \in DOMAIN tree'.node}
      /\ \A b \in DOMAIN tree'.node : B[tree'.node[b].key] = tree'.node[b].val
      /\ B = [a \in DOMAIN B |-> B[a]]
  BY <1>1, TableIs
<1> HIDE DEF A, B
<1>4. DOMAIN B = DOMAIN A \ {k}
  BY <1>1, <1>2, <1>3
<1>5. \A a \in DOMAIN B : B[a] = A[a]
  BY <1>1, <1>2, <1>3
<1>6. B = [a \in DOMAIN A \ {k} |-> A[a]]
  BY <1>3, <1>4, <1>5
<1> QED
  BY <1>6 DEF A, B, T!remove_neighbor_aux

\* The tree refines the table that the other modules work with: insertion and removal
\* are those of Tables.
THEOREM AbrActsAsTable == AbrSpec => ActsAsTable
<1>1. TreeInv(tree) /\ [AbrNext]_tree =>
        [/\ \A k \in Key, v \in Ident : add_neighbor(k, v) =>
              Table(tree') = T!add_neighbor_aux(Table(tree), k, v)
         /\ \A k \in Key : remove_neighbor(k) =>
              Table(tree') = T!remove_neighbor_aux(Table(tree), k)]_tree
  BY AddTable, RemoveTable
<1> QED
  BY <1>1, AbrInvariant, PTL DEF AbrSpec, ActsAsTable
=============================================================================
