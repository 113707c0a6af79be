--------------------------- MODULE ContentsProofs ---------------------------
(***************************************************************************)
(* Theorems on the contents-array: until a call is made that it is not up  *)
(* to, its children stay in the order of the schema, the subscripts of     *)
(* each name stay dense, and its cursor rests on what is no text.          *)
(***************************************************************************)
EXTENDS Contents, Recursion, FiniteSetTheorems, SequenceTheorems

Names == Named \union {Unnamed}
Node == [name : Names \union {NoName}, index : Nat, ordinal : Ordinals, empty : BOOLEAN]

\* The nodes of a sequence that are in a set; the children of a name; those of an ordinal.
Where(s, K) == {i \in DOMAIN s : s[i] \in K}
Called(n) == {x \in Node : x.name = n}
Placed(o) == {x \in Node : x.ordinal = o}
Has(s, n, k) == \E i \in DOMAIN s : s[i].name = n /\ s[i].index = k

\* The ordinals of a name are one in each occurrence of the schema's sequence.
Belongs(o, n) == n \in Named /\ \E q \in 1..Cycles : o = q * Len(Order) - Position(n) + 1

NodeFits(x) ==
  /\ x.name = NoName <=> x.ordinal = Top + 1
  /\ x.ordinal \in 1..Top => Belongs(x.ordinal, x.name)

Ordered(s) ==
  /\ s \in Seq(Node)
  /\ \A i \in DOMAIN s : NodeFits(s[i])
  /\ \A i, j \in DOMAIN s :
       i < j /\ s[i].ordinal <= Top /\ s[j].ordinal <= Top => s[i].ordinal >= s[j].ordinal
  /\ \A i \in DOMAIN s :
       s[i].ordinal \in 1..Top =>
         Cardinality(Where(s, Placed(s[i].ordinal))) <= MaxOccurs[s[i].name]

\* Ordinal o may be given to a child called n, at i.
Room(s, n, o) ==
  \/ o = 0 /\ n \in Names
  \/ Belongs(o, n) /\ Cardinality(Where(s, Placed(o))) < MaxOccurs[n]

FitsAt(s, i, o) ==
  /\ i \in 1..(Len(s) + 1)
  /\ \A j \in DOMAIN s : /\ j < i /\ s[j].ordinal <= Top => s[j].ordinal >= o
                         /\ j >= i /\ s[j].ordinal <= Top => s[j].ordinal <= o

Array == [nodes : Seq(Node), count : [Names -> Nat], cursor : Nat,
          failed : {"", "cursor", "count", "resize"}]

Rests(c, i) == i \in 1..End(c) /\ ~HasText(c, i)

Good(c) ==
  /\ c \in Array
  /\ Ordered(c.nodes)
  /\ \A i \in DOMAIN c.nodes : c.nodes[i].index < Len(c.nodes)
  /\ \A n \in Names : c.count[n] = Cardinality(Where(c.nodes, Called(n)))
  /\ Rests(c, c.cursor)

Dense(c) == \A n \in Names, k \in Nat : k < c.count[n] => Has(c.nodes, n, k)
-----------------------------------------------------------------------------
(* The schema *)

LEMMA Schema ==
  /\ Len(Order) \in Nat /\ Top \in Nat
  /\ DOMAIN Order = 1..Len(Order)
  /\ \A n \in Named : Position(n) \in 1..Len(Order) /\ Order[Position(n)] = n
  /\ NoName \notin Names /\ Unnamed \notin Named
<1>1. Order \in Seq(Named) /\ Cycles \in Nat
  BY ContentsAssumption
<1>2. Len(Order) \in Nat /\ DOMAIN Order = 1..Len(Order)
  BY <1>1, LenProperties
<1>3. Cycles * Len(Order) \in Nat
  BY <1>1, <1>2
<1>4. ASSUME NEW n \in Named PROVE Position(n) \in 1..Len(Order) /\ Order[Position(n)] = n
  <2>1. \E i \in DOMAIN Order : Order[i] = n
    BY DEF Named
  <2> QED BY <1>2, <2>1 DEF Position
<1>5. NoName \notin Names /\ Unnamed \notin Named
  BY ContentsAssumption DEF Names, Named
<1> QED BY <1>2, <1>3, <1>4, <1>5 DEF Top

LEMMA Multiples ==
  ASSUME NEW p \in Nat, NEW q \in Nat, NEW N \in Nat, p <= q
  PROVE  /\ p * N \in Nat /\ q * N \in Nat /\ p * N <= q * N
         /\ p < q => p * N + N <= q * N
<1>1. PICK d \in Nat : q = p + d
  <2>1. q - p \in Nat /\ q = p + (q - p)
    OBVIOUS
  <2> QED BY <2>1
<1>2. q * N = p * N + d * N /\ d * N \in Nat /\ p * N \in Nat
  BY <1>1
<1>3. CASE p < q
  <2>1. PICK e \in Nat : d = e + 1
    <3>1. d - 1 \in Nat /\ d = (d - 1) + 1
      BY <1>1, <1>3
    <3> QED BY <3>1
  <2>2. d * N = e * N + N /\ e * N \in Nat
    BY <2>1
  <2> QED BY <1>2, <2>2
<1> QED BY <1>2, <1>3

LEMMA BelongsRange ==
  ASSUME NEW o, NEW n, Belongs(o, n)
  PROVE  o \in 1..Top
<1> DEFINE N == Len(Order)
<1>1. PICK q \in 1..Cycles : o = q * N - Position(n) + 1
  BY DEF Belongs
<1>2. N \in Nat /\ Position(n) \in 1..N /\ Cycles \in Nat
  BY Schema, ContentsAssumption DEF Belongs
<1>3. q \in Nat /\ 1 <= q /\ q <= Cycles
  BY <1>2
<1>4. q * N \in Nat /\ q * N <= Cycles * N /\ 1 * N <= q * N
  <2> HIDE DEF N
  <2> QED BY <1>2, <1>3, Multiples
<1>5. 1 * N = N
  BY <1>2
<1> QED BY ONLY <1>1, <1>2, <1>4, <1>5 DEF Top

LEMMA BelongsOnce ==
  ASSUME NEW o, NEW m, NEW n, Belongs(o, m), Belongs(o, n)
  PROVE  m = n
<1> DEFINE N == Len(Order)
           a == Position(m)
           b == Position(n)
<1>1. PICK p \in 1..Cycles : o = p * N - a + 1
  BY DEF Belongs
<1>2. PICK q \in 1..Cycles : o = q * N - b + 1
  BY DEF Belongs
<1>3. N \in Nat /\ a \in 1..N /\ b \in 1..N /\ Cycles \in Nat /\ Order[a] = m /\ Order[b] = n
  BY Schema, ContentsAssumption DEF Belongs
<1>4. p \in Nat /\ q \in Nat
  BY <1>3
<1> HIDE DEF N, a, b
<1>5. p * N \in Nat /\ q * N \in Nat
  BY <1>3, <1>4, Multiples
<1>6. p < q => p * N + N <= q * N
  BY <1>3, <1>4, Multiples
<1>7. q < p => q * N + N <= p * N
  BY <1>3, <1>4, Multiples
<1>8. p = q
  BY ONLY <1>1, <1>2, <1>3, <1>4, <1>5, <1>6, <1>7
<1>9. a = b
  BY ONLY <1>1, <1>2, <1>3, <1>4, <1>5, <1>8
<1> QED BY <1>3, <1>9
-----------------------------------------------------------------------------
(* Sequences of nodes *)

LEMMA WhereFinite ==
  ASSUME NEW s \in Seq(Node), NEW K
  PROVE  /\ DOMAIN s = 1..Len(s) /\ Len(s) \in Nat
         /\ IsFiniteSet(Where(s, K)) /\ Cardinality(Where(s, K)) \in Nat
         /\ Cardinality(Where(s, K)) <= Len(s)
<1>1. DOMAIN s = 1..Len(s) /\ Len(s) \in Nat
  BY LenProperties
<1>2. IsFiniteSet(1..Len(s)) /\ Cardinality(1..Len(s)) = Len(s)
  <2>1. /\ IsFiniteSet(1..Len(s))
        /\ Cardinality(1..Len(s)) = IF 1 > Len(s) THEN 0 ELSE Len(s) - 1 + 1
    BY <1>1, FS_Interval
  <2> QED BY <1>1, <2>1
<1>3. Where(s, K) \in SUBSET (1..Len(s))
  BY <1>1 DEF Where
<1>4. IsFiniteSet(Where(s, K)) /\ Cardinality(Where(s, K)) <= Len(s)
  BY <1>2, <1>3, FS_Subset
<1> QED BY <1>1, <1>4, FS_CardinalityType

With(s, i, x) == SubSeq(s, 1, i - 1) \o <<x>> \o SubSeq(s, i, Len(s))

LEMMA WithIs ==
  ASSUME NEW s \in Seq(Node), NEW i \in 1..(Len(s) + 1), NEW x \in Node
  PROVE  /\ With(s, i, x) \in Seq(Node)
         /\ Len(With(s, i, x)) = Len(s) + 1
         /\ \A j \in 1..(Len(s) + 1) :
              With(s, i, x)[j] = IF j < i THEN s[j] ELSE IF j = i THEN x ELSE s[j - 1]
<1> DEFINE A == SubSeq(s, 1, i - 1)
           M == <<x>>
           B == SubSeq(s, i, Len(s))
<1>1. Len(s) \in Nat /\ \A j \in 1..Len(s) : s[j] \in Node
  BY LenProperties, ElementOfSeq
<1>2. /\ A \in Seq(Node) /\ Len(A) = i - 1
      /\ \A j \in 1..(i - 1) : A[j] = s[j]
  <2>1. \A j \in 1..(i - 1) : s[j] \in Node
    BY <1>1
  <2>2. i - 1 \in Int /\ 1 \in Int
    BY <1>1
  <2>3. /\ A \in Seq(Node)
        /\ Len(A) = IF 1 <= i - 1 THEN i - 1 - 1 + 1 ELSE 0
        /\ \A j \in 1..(i - 1 - 1 + 1) : A[j] = s[1 + j - 1]
    BY <2>1, <2>2, SubSeqProperties
  <2> HIDE DEF A
  <2>4. \A j \in 1..(i - 1) : 1 + j - 1 = j
    OBVIOUS
  <2> QED BY <1>1, <2>3, <2>4
<1>3. /\ B \in Seq(Node) /\ Len(B) = Len(s) - i + 1
      /\ \A j \in 1..(Len(s) - i + 1) : B[j] = s[i + j - 1]
  <2>1. \A j \in i..Len(s) : s[j] \in Node
    BY <1>1
  <2>2. i \in Int /\ Len(s) \in Int
    BY <1>1
  <2>3. /\ B \in Seq(Node)
        /\ Len(B) = IF i <= Len(s) THEN Len(s) - i + 1 ELSE 0
        /\ \A j \in 1..(Len(s) - i + 1) : B[j] = s[i + j - 1]
    BY <2>1, <2>2, SubSeqProperties
  <2> HIDE DEF B
  <2> QED BY <1>1, <2>3
<1>4. M \in Seq(Node) /\ Len(M) = 1 /\ M[1] = x
  OBVIOUS
<1> HIDE DEF A, M, B
<1>5. /\ A \o M \in Seq(Node) /\ Len(A \o M) = Len(A) + Len(M)
      /\ \A j \in 1..(Len(A) + Len(M)) :
           (A \o M)[j] = IF j <= Len(A) THEN A[j] ELSE M[j - Len(A)]
  BY <1>2, <1>4, ConcatProperties
<1> DEFINE C == A \o M
<1>6. C \in Seq(Node) /\ Len(C) = i /\ \A j \in 1..i : C[j] = IF j < i THEN s[j] ELSE x
  <2>1. Len(C) = i
    BY <1>1, <1>2, <1>4, <1>5
  <2>2. ASSUME NEW j \in 1..i PROVE C[j] = IF j < i THEN s[j] ELSE x
    <3>1. CASE j < i
      BY <1>1, <1>2, <1>4, <1>5, <3>1
    <3>2. CASE j = i
      BY <1>1, <1>2, <1>4, <1>5, <3>2
    <3>3. j < i \/ j = i
      BY <1>1
    <3> QED BY <3>1, <3>2, <3>3
  <2> QED BY <1>5, <2>1, <2>2
<1> HIDE DEF C
<1>7. /\ C \o B \in Seq(Node) /\ Len(C \o B) = Len(C) + Len(B)
      /\ \A j \in 1..(Len(C) + Len(B)) :
           (C \o B)[j] = IF j <= Len(C) THEN C[j] ELSE B[j - Len(C)]
  BY <1>3, <1>6, ConcatProperties
<1>8. With(s, i, x) = C \o B
  BY DEF With, A, M, B, C
<1>9. Len(C) + Len(B) = Len(s) + 1
  BY <1>1, <1>3, <1>6
<1>10. ASSUME NEW j \in 1..(Len(s) + 1)
       PROVE  (C \o B)[j] = IF j < i THEN s[j] ELSE IF j = i THEN x ELSE s[j - 1]
  <2>1. CASE j <= i
    BY <1>1, <1>6, <1>7, <1>9, <2>1
  <2>2. CASE j > i
    <3>1. (C \o B)[j] = B[j - i]
      BY <1>1, <1>6, <1>7, <1>9, <2>2
    <3>2. j - i \in 1..(Len(s) - i + 1) /\ i + (j - i) - 1 = j - 1
      BY <1>1, <2>2
    <3>3. B[j - i] = s[i + (j - i) - 1]
      BY <1>3, <3>2
    <3> QED BY <2>2, <3>1, <3>2, <3>3
  <2>3. j <= i \/ j > i
    BY <1>1
  <2> QED BY <2>1, <2>2, <2>3
<1> QED BY <1>7, <1>8, <1>9, <1>10

LEMMA WhereWith ==
  ASSUME NEW s \in Seq(Node), NEW i \in 1..(Len(s) + 1), NEW x \in Node, NEW K
  PROVE  Cardinality(Where(With(s, i, x), K)) =
           IF x \in K THEN Cardinality(Where(s, K)) + 1 ELSE Cardinality(Where(s, K))
<1> DEFINE t == With(s, i, x)
           W == Where(s, K)
           U == Where(t, K) \ {i}
           f == [j \in W |-> IF j < i THEN j ELSE j + 1]
<1>1. Len(s) \in Nat /\ DOMAIN s = 1..Len(s)
  BY LenProperties
<1>2. /\ t \in Seq(Node) /\ Len(t) = Len(s) + 1 /\ DOMAIN t = 1..(Len(s) + 1)
      /\ \A j \in 1..(Len(s) + 1) : t[j] = IF j < i THEN s[j] ELSE IF j = i THEN x ELSE s[j - 1]
  <2>1. /\ t \in Seq(Node) /\ Len(t) = Len(s) + 1
        /\ \A j \in 1..(Len(s) + 1) :
             t[j] = IF j < i THEN s[j] ELSE IF j = i THEN x ELSE s[j - 1]
    BY WithIs
  <2> HIDE DEF t
  <2>2. DOMAIN t = 1..Len(t)
    BY <2>1, LenProperties
  <2> QED BY <2>1, <2>2
<1> HIDE DEF t
<1>3. f \in Bijection(W, U)
  <2>1. f \in [W -> U]
    <3> SUFFICES ASSUME NEW j \in W PROVE (IF j < i THEN j ELSE j + 1) \in U
      OBVIOUS
    <3>1. j \in 1..Len(s) /\ s[j] \in K
      BY <1>1 DEF Where
    <3> QED BY <1>1, <1>2, <3>1 DEF Where
  <2>2. f \in Injection(W, U)
    <3> SUFFICES ASSUME NEW j \in W, NEW k \in W, f[j] = f[k] PROVE j = k
      BY <2>1 DEF Injection, IsInjective
    <3>1. j \in 1..Len(s) /\ k \in 1..Len(s)
      BY <1>1 DEF Where
    <3> QED BY <1>1, <3>1
  <2>3. ASSUME NEW k \in U PROVE \E j \in W : f[j] = k
    <3>1. k \in 1..(Len(s) + 1) /\ k # i /\ t[k] \in K
      BY <1>2 DEF Where
    <3>2. CASE k < i
      <4>1. k \in W
        BY <1>1, <1>2, <3>1, <3>2 DEF Where
      <4> QED BY <3>2, <4>1
    <3>3. CASE k > i
      <4>1. k - 1 \in W /\ ~(k - 1 < i) /\ (k - 1) + 1 = k
        BY <1>1, <1>2, <3>1, <3>3 DEF Where
      <4> QED BY <4>1
    <3> QED BY <1>1, <3>1, <3>2, <3>3
  <2> QED BY <2>1, <2>2, <2>3 DEF Bijection, Surjection
<1>4. IsFiniteSet(W)
  BY WhereFinite
<1>5. IsFiniteSet(U) /\ Cardinality(U) = Cardinality(W)
  <2>1. ExistsBijection(W, U)
    BY <1>3 DEF ExistsBijection
  <2> HIDE DEF W, U
  <2> QED BY <1>4, <2>1, FS_Bijection
<1>6. i \in DOMAIN t /\ t[i] = x
  BY <1>1, <1>2
<1>7. CASE x \in K
  <2>1. Where(t, K) = U \union {i} /\ i \notin U
    BY <1>6, <1>7 DEF Where
  <2> HIDE DEF U, W
  <2>2. Cardinality(U \union {i}) = Cardinality(U) + 1
    BY <1>5, <2>1, FS_AddElement
  <2> QED BY <1>5, <1>7, <2>1, <2>2 DEF t, W
<1>8. CASE x \notin K
  <2>1. Where(t, K) = U
    BY <1>6, <1>8 DEF Where
  <2> QED BY <1>5, <1>8, <2>1 DEF t
<1> QED BY <1>7, <1>8

\* A child that has room where it is inserted keeps the order.
LEMMA TextIs ==
  /\ Text \in Node /\ Text.name = NoName /\ Text.ordinal = Top + 1 /\ Text.index = 0 /\ Text.empty
  /\ Terminator.ordinal = 0 /\ Terminator.name = NoName /\ Terminator.index = 0
  /\ NodeFits(Text)
<1>1. Top \in Nat
  BY Schema
<1> QED BY <1>1 DEF Text, Terminator, Child, Node, Ordinals, NodeFits

\* A child, or text anywhere.
LEMMA WithOrdered ==
  ASSUME NEW s, Ordered(s), NEW x \in Node, NEW i \in 1..(Len(s) + 1),
         x = Text \/ (Room(s, x.name, x.ordinal) /\ FitsAt(s, i, x.ordinal))
  PROVE  Ordered(With(s, i, x))
<1> DEFINE t == With(s, i, x)
<1>1. s \in Seq(Node) /\ Len(s) \in Nat /\ DOMAIN s = 1..Len(s) /\ i \in 1..(Len(s) + 1)
  BY LenProperties DEF Ordered
<1>2. /\ t \in Seq(Node) /\ Len(t) = Len(s) + 1 /\ DOMAIN t = 1..(Len(s) + 1)
      /\ \A j \in 1..(Len(s) + 1) : t[j] = IF j < i THEN s[j] ELSE IF j = i THEN x ELSE s[j - 1]
  <2>1. /\ t \in Seq(Node) /\ Len(t) = Len(s) + 1
        /\ \A j \in 1..(Len(s) + 1) :
             t[j] = IF j < i THEN s[j] ELSE IF j = i THEN x ELSE s[j - 1]
    BY <1>1, WithIs
  <2> HIDE DEF t
  <2>2. DOMAIN t = 1..Len(t)
    BY <2>1, LenProperties
  <2> QED BY <2>1, <2>2
<1>3. \A K : Cardinality(Where(t, K)) =
               IF x \in K THEN Cardinality(Where(s, K)) + 1 ELSE Cardinality(Where(s, K))
  BY <1>1, WhereWith
<1> HIDE DEF t
<1>4. /\ x.ordinal \in Nat /\ Top \in Nat
      /\ x.ordinal <= Top =>
           /\ x.ordinal \in 0..Top /\ x.name \in Names /\ x.name # NoName
           /\ Room(s, x.name, x.ordinal) /\ FitsAt(s, i, x.ordinal)
  <2>1. Belongs(x.ordinal, x.name) => x.ordinal \in 1..Top
    BY BelongsRange
  <2>2. Belongs(x.ordinal, x.name) => x.name \in Names
    BY DEF Belongs, Names
  <2>3. Top \in Nat
    BY Schema
  <2>4. CASE x = Text
    BY <2>3, <2>4, TextIs
  <2>5. CASE Room(s, x.name, x.ordinal) /\ FitsAt(s, i, x.ordinal)
    BY <2>1, <2>2, <2>3, <2>5, Schema DEF Room
  <2> QED BY <2>4, <2>5
<1>5. NodeFits(x)
  <2>1. CASE x = Text
    BY <2>1, TextIs
  <2>2. CASE x # Text
    <3>1. Room(s, x.name, x.ordinal)
      BY <2>2
    <3>2. x.ordinal <= Top
      <4>1. x.ordinal = 0 \/ x.ordinal \in 1..Top
        BY <3>1, BelongsRange DEF Room
      <4> QED BY <1>4, <4>1
    <3> QED BY <1>4, <3>1, <3>2 DEF NodeFits, Room
  <2> QED BY <2>1, <2>2
<1>6. \A j \in 1..Len(s) : s[j] \in Node /\ s[j].ordinal \in Nat
  <2>1. \A j \in 1..Len(s) : s[j] \in Node
    BY <1>1, ElementOfSeq
  <2> QED BY <2>1 DEF Node, Ordinals
<1>7. ASSUME NEW j \in DOMAIN t PROVE NodeFits(t[j])
  <2>1. t[j] = x \/ \E k \in DOMAIN s : t[j] = s[k]
    BY <1>1, <1>2
  <2> QED BY <1>5, <2>1 DEF Ordered
<1>8. ASSUME NEW j \in DOMAIN t, NEW k \in DOMAIN t, j < k,
             t[j].ordinal <= Top, t[k].ordinal <= Top
      PROVE  t[j].ordinal >= t[k].ordinal
  <2>1. j \in 1..(Len(s) + 1) /\ k \in 1..(Len(s) + 1) /\ Len(s) \in Nat /\ i \in Nat
    BY <1>1, <1>2
  <2>2. CASE k < i
    BY <1>1, <1>2, <1>8, <2>1, <2>2 DEF Ordered
  <2>3. CASE k = i
    <3>1. t[k] = x /\ t[j] = s[j] /\ j \in DOMAIN s
      BY <1>1, <1>2, <1>8, <2>1, <2>3
    <3> QED BY <1>4, <1>6, <1>8, <2>3, <3>1 DEF FitsAt
  <2>4. CASE k > i /\ j < i
    <3>1. t[k] = s[k - 1] /\ t[j] = s[j] /\ j \in DOMAIN s /\ k - 1 \in DOMAIN s
      BY <1>1, <1>2, <1>8, <2>1, <2>4
    <3>2. j < k - 1 \/ j = k - 1
      BY <2>1, <2>4
    <3>3. s[j].ordinal \in Nat
      BY <1>1, <1>6, <3>1
    <3>4. CASE j < k - 1
      BY <1>8, <3>1, <3>4 DEF Ordered
    <3>5. CASE j = k - 1
      BY <3>1, <3>3, <3>5
    <3> QED BY <3>2, <3>4, <3>5
  <2>5. CASE k > i /\ j = i
    <3>1. t[k] = s[k - 1] /\ t[j] = x /\ k - 1 \in DOMAIN s /\ k - 1 >= i
      BY <1>1, <1>2, <1>8, <2>1, <2>5
    <3> QED BY <1>1, <1>4, <1>6, <1>8, <3>1 DEF FitsAt
  <2>6. CASE k > i /\ j > i
    <3>1. t[k] = s[k - 1] /\ t[j] = s[j - 1] /\ k - 1 \in DOMAIN s /\ j - 1 \in DOMAIN s
          /\ j - 1 < k - 1
      BY <1>1, <1>2, <1>8, <2>1, <2>6
    <3> QED BY <1>8, <3>1 DEF Ordered
  <2> QED BY <2>1, <2>2, <2>3, <2>4, <2>5, <2>6
<1>9. ASSUME NEW j \in DOMAIN t, t[j].ordinal \in 1..Top
      PROVE  Cardinality(Where(t, Placed(t[j].ordinal))) <= MaxOccurs[t[j].name]
  <2> DEFINE o == t[j].ordinal
             K == Placed(o)
  <2>1. Cardinality(Where(s, K)) \in Nat
    BY <1>1, WhereFinite
  <2>2. Cardinality(Where(t, K)) = IF x \in K THEN Cardinality(Where(s, K)) + 1
                                              ELSE Cardinality(Where(s, K))
    BY <1>3
  <2>3. x \in K <=> x.ordinal = o
    BY DEF Placed
  <2>4. Belongs(o, t[j].name)
    BY <1>7, <1>9 DEF NodeFits
  <2>5. CASE x.ordinal = o
    <3>1. o # 0
      BY <1>9, <1>4
    <3>2. Belongs(o, x.name) /\ Cardinality(Where(s, K)) < MaxOccurs[x.name]
      <4>1. Room(s, x.name, x.ordinal)
        <5>1. x.ordinal <= Top
          BY <1>4, <1>9, <2>5
        <5> QED BY <1>4, <5>1
      <4> QED BY <2>5, <3>1, <4>1 DEF Room
    <3>3. t[j].name = x.name
      BY <2>4, <3>2, BelongsOnce
    <3>4. MaxOccurs[x.name] \in Nat
      BY <3>2, ContentsAssumption DEF Belongs
    <3> HIDE DEF K, o
    <3> QED BY <2>1, <2>2, <2>3, <2>5, <3>2, <3>3, <3>4 DEF o, K
  <2>6. CASE x.ordinal # o
    <3>1. \E k \in DOMAIN s : t[j] = s[k]
      <4>1. t[j] # x /\ j \in 1..(Len(s) + 1)
        BY <1>2, <2>6
      <4>2. (t[j] = s[j] /\ j \in 1..Len(s)) \/ (t[j] = s[j - 1] /\ j - 1 \in 1..Len(s))
        BY <1>1, <1>2, <4>1
      <4> QED BY <1>1, <4>2
    <3> QED BY <1>9, <2>2, <2>3, <2>6, <3>1 DEF Ordered
  <2> QED BY <2>5, <2>6
<1>10. /\ t \in Seq(Node) /\ \A j \in DOMAIN t : NodeFits(t[j])
       /\ \A j, k \in DOMAIN t : j < k /\ t[j].ordinal <= Top /\ t[k].ordinal <= Top
                                   => t[j].ordinal >= t[k].ordinal
       /\ \A j \in DOMAIN t : t[j].ordinal \in 1..Top =>
            Cardinality(Where(t, Placed(t[j].ordinal))) <= MaxOccurs[t[j].name]
  BY <1>2, <1>7, <1>8, <1>9
<1> QED BY <1>10 DEF Ordered, t

\* Nodes that turn into text, and those that keep name and ordinal.
Alters(s, t) ==
  /\ t \in Seq(Node) /\ Len(t) = Len(s)
  /\ \A i \in DOMAIN s : \/ t[i] = Text
                         \/ t[i].name = s[i].name /\ t[i].ordinal = s[i].ordinal

LEMMA AltersOrdered ==
  ASSUME NEW s, Ordered(s), NEW t, Alters(s, t)
  PROVE  /\ Ordered(t)
         /\ DOMAIN t = DOMAIN s
         /\ \A n, o : o <= Top /\ Room(s, n, o) => Room(t, n, o)
         /\ \A i, o : FitsAt(s, i, o) => FitsAt(t, i, o)
<1>1. /\ s \in Seq(Node) /\ t \in Seq(Node) /\ DOMAIN s = 1..Len(s) /\ DOMAIN t = DOMAIN s
      /\ Len(s) \in Nat /\ Len(t) = Len(s) /\ Top \in Nat
  <2>1. s \in Seq(Node) /\ t \in Seq(Node) /\ Len(t) = Len(s)
    BY DEF Ordered, Alters
  <2> QED BY <2>1, LenProperties, Schema
<1>2. ASSUME NEW i \in DOMAIN s, t[i].ordinal # Top + 1
      PROVE  t[i].name = s[i].name /\ t[i].ordinal = s[i].ordinal
  BY <1>2, TextIs DEF Alters
<1>3. ASSUME NEW o, o # Top + 1
      PROVE  /\ Cardinality(Where(t, Placed(o))) <= Cardinality(Where(s, Placed(o)))
             /\ Cardinality(Where(t, Placed(o))) \in Nat
             /\ Cardinality(Where(s, Placed(o))) \in Nat
  <2>1. \A i \in DOMAIN s : s[i] \in Node
    BY <1>1, ElementOfSeq
  <2>2. Where(t, Placed(o)) \in SUBSET Where(s, Placed(o))
    BY <1>1, <1>2, <1>3, <2>1 DEF Where, Placed
  <2>3. /\ IsFiniteSet(Where(s, Placed(o))) /\ Cardinality(Where(s, Placed(o))) \in Nat
        /\ Cardinality(Where(t, Placed(o))) \in Nat
    BY <1>1, WhereFinite
  <2> QED BY <2>2, <2>3, FS_Subset
<1>4. ASSUME NEW i \in DOMAIN t PROVE NodeFits(t[i])
  <2>1. t[i] = Text \/ (t[i].name = s[i].name /\ t[i].ordinal = s[i].ordinal)
    BY <1>1 DEF Alters
  <2>2. NodeFits(s[i])
    BY <1>1 DEF Ordered
  <2> QED BY <2>1, <2>2, TextIs DEF NodeFits
<1>5. ASSUME NEW i \in DOMAIN t, NEW j \in DOMAIN t, i < j,
             t[i].ordinal <= Top, t[j].ordinal <= Top
      PROVE  t[i].ordinal >= t[j].ordinal
  <2>1. t[i].ordinal = s[i].ordinal /\ t[j].ordinal = s[j].ordinal
    BY <1>1, <1>2, <1>5
  <2> QED BY <1>1, <1>5, <2>1 DEF Ordered
<1>6. ASSUME NEW i \in DOMAIN t, t[i].ordinal \in 1..Top
      PROVE  Cardinality(Where(t, Placed(t[i].ordinal))) <= MaxOccurs[t[i].name]
  <2>1. t[i].name = s[i].name /\ t[i].ordinal = s[i].ordinal /\ t[i].ordinal # Top + 1
    BY <1>1, <1>2, <1>6
  <2>2. Cardinality(Where(s, Placed(t[i].ordinal))) <= MaxOccurs[t[i].name]
    BY <1>1, <1>6, <2>1 DEF Ordered
  <2>3. Belongs(t[i].ordinal, t[i].name)
    BY <1>4, <1>6 DEF NodeFits
  <2>4. MaxOccurs[t[i].name] \in Nat
    BY <2>3, ContentsAssumption DEF Belongs
  <2>5. /\ Cardinality(Where(t, Placed(t[i].ordinal))) <= Cardinality(Where(s, Placed(t[i].ordinal)))
        /\ Cardinality(Where(t, Placed(t[i].ordinal))) \in Nat
        /\ Cardinality(Where(s, Placed(t[i].ordinal))) \in Nat
    BY <1>3, <2>1
  <2> QED BY ONLY <2>2, <2>4, <2>5
<1>7. Ordered(t)
  BY <1>1, <1>4, <1>5, <1>6 DEF Ordered
<1>8. ASSUME NEW n, NEW o, o <= Top, Room(s, n, o) PROVE Room(t, n, o)
  <2>1. CASE o = 0 /\ n \in Names
    BY <2>1 DEF Room
  <2>2. CASE Belongs(o, n) /\ Cardinality(Where(s, Placed(o))) < MaxOccurs[n]
    <3>1. o \in 1..Top
      BY <2>2, BelongsRange
    <3>2. MaxOccurs[n] \in Nat
      BY <2>2, ContentsAssumption DEF Belongs
    <3>3. /\ Cardinality(Where(t, Placed(o))) <= Cardinality(Where(s, Placed(o)))
          /\ Cardinality(Where(t, Placed(o))) \in Nat
          /\ Cardinality(Where(s, Placed(o))) \in Nat
      BY <1>1, <1>3, <3>1
    <3>4. Cardinality(Where(t, Placed(o))) < MaxOccurs[n]
      BY ONLY <2>2, <3>2, <3>3
    <3> QED BY <2>2, <3>4 DEF Room
  <2> QED BY <1>8, <2>1, <2>2 DEF Room
<1>9. ASSUME NEW i, NEW o, FitsAt(s, i, o) PROVE FitsAt(t, i, o)
  <2>1. \A j \in DOMAIN t : t[j].ordinal <= Top => t[j].ordinal = s[j].ordinal
    BY <1>1, <1>2
  <2> QED BY <1>1, <1>9, <2>1 DEF FitsAt
<1> QED BY <1>1, <1>7, <1>8, <1>9
-----------------------------------------------------------------------------
(* The cursor, and finding a child *)

LEMMA MinIs ==
  ASSUME NEW S \in SUBSET Nat, S # {}
  PROVE  Min(S) \in S /\ \A x \in S : Min(S) <= x
BY SmallestOf DEF Min

LEMMA MaxIs ==
  ASSUME NEW S \in SUBSET Nat, S # {}, NEW n \in Nat, \A x \in S : x <= n
  PROVE  Max(S) \in S /\ \A x \in S : x <= Max(S)
<1> DEFINE D == {n - x : x \in S}
<1>1. D \in SUBSET Nat /\ D # {}
  <2>1. \A x \in S : n - x \in Nat
    OBVIOUS
  <2>2. D # {}
    OBVIOUS
  <2> QED BY <2>1, <2>2
<1>2. PICK d \in D : \A e \in D : d <= e
  <2> HIDE DEF D
  <2> QED BY <1>1, SmallestOf
<1>3. PICK m \in S : d = n - m
  BY <1>2
<1>4. \A x \in S : n - x \in D
  OBVIOUS
<1>5. \A x \in S : x <= m
  <2> SUFFICES ASSUME NEW x \in S PROVE x <= m
    OBVIOUS
  <2>1. n - m <= n - x
    BY <1>2, <1>3, <1>4
  <2> QED BY ONLY <2>1, x \in S, m \in S, S \in SUBSET Nat, n \in Nat
<1>6. \E y \in S : \A x \in S : x <= y
  BY <1>5
<1> QED BY <1>6 DEF Max

LEMMA AtIs ==
  ASSUME NEW c, c.nodes \in Seq(Node)
  PROVE  /\ Len(c.nodes) \in Nat /\ DOMAIN c.nodes = 1..Len(c.nodes)
         /\ End(c) = Len(c.nodes) + 1 /\ End(c) \in Nat /\ ~HasText(c, End(c))
         /\ \A i \in 1..Len(c.nodes) : At(c, i) = c.nodes[i] /\ c.nodes[i] \in Node
         /\ \A i : i \notin 1..Len(c.nodes) => At(c, i) = Terminator
         /\ \A i : At(c, i).ordinal \in 0..(Top + 1)
<1>1. Len(c.nodes) \in Nat /\ DOMAIN c.nodes = 1..Len(c.nodes)
  BY LenProperties
<1>2. \A i \in 1..Len(c.nodes) : At(c, i) = c.nodes[i] /\ c.nodes[i] \in Node
  BY <1>1, ElementOfSeq DEF At
<1>3. \A i : i \notin 1..Len(c.nodes) => At(c, i) = Terminator
  BY <1>1 DEF At
<1>4. Top \in Nat
  BY Schema
<1>5. \A i : At(c, i).ordinal \in 0..(Top + 1)
  BY <1>2, <1>3, <1>4, TextIs DEF Node, Ordinals
<1>6. ~HasText(c, End(c)) /\ End(c) = Len(c.nodes) + 1
  BY <1>1, <1>3, <1>4, TextIs DEF End, HasText
<1> QED BY <1>1, <1>2, <1>3, <1>5, <1>6

LEMMA SkippingRests ==
  ASSUME NEW c, c.nodes \in Seq(Node), NEW i \in 1..End(c)
  PROVE  Rests(c, Skipping(c, i)) /\ Skipping(c, i) >= i
<1> DEFINE S == {j \in i..End(c) : ~HasText(c, j)}
<1>1. End(c) \in Nat /\ ~HasText(c, End(c))
  BY AtIs
<1>2. S \in SUBSET Nat /\ End(c) \in S
  BY <1>1
<1>3. Min(S) \in S
  <2> HIDE DEF S
  <2> QED BY <1>2, MinIs
<1> QED BY <1>1, <1>3 DEF Skipping, Rests

LEMMA Cursored ==
  ASSUME NEW c, Good(c), NEW x, Rests(c, x)
  PROVE  LET d == [c EXCEPT !.cursor = x]
         IN  /\ Good(d) /\ d.nodes = c.nodes /\ d.count = c.count /\ d.failed = c.failed
             /\ d.cursor = x
             /\ Dense(c) => Dense(d)
<1> DEFINE d == [c EXCEPT !.cursor = x]
<1>1. c \in Array /\ c.nodes \in Seq(Node)
  BY DEF Good, Ordered
<1>2. x \in Nat
  BY <1>1, AtIs DEF Rests
<1>3. d \in Array /\ d.nodes = c.nodes /\ d.count = c.count /\ d.failed = c.failed /\ d.cursor = x
  BY <1>1, <1>2 DEF Array
<1> HIDE DEF d
<1>4. Good(d)
  BY <1>3 DEF Good, Rests, HasText, At, End
<1>5. Dense(c) => Dense(d)
  BY <1>3 DEF Dense
<1> QED BY <1>3, <1>4, <1>5 DEF d

\* A name's children are no text.
LEMMA ChildIs ==
  ASSUME NEW c, Good(c), NEW n \in Names, NEW k, NEW i, IsChild(c, i, n, k)
  PROVE  /\ i \in DOMAIN c.nodes /\ i \in 1..Len(c.nodes) /\ Rests(c, i) /\ k \in Nat
         /\ c.nodes[i] \in Node /\ c.nodes[i].name = n /\ c.nodes[i].index = k
         /\ c.nodes[i].ordinal <= Top /\ k < Len(c.nodes)
         /\ Has(c.nodes, n, k)
<1>1. c.nodes \in Seq(Node)
  BY DEF Good, Ordered
<1>2. n # NoName
  BY Schema
<1>3. i \in 1..Len(c.nodes) /\ i \in DOMAIN c.nodes /\ At(c, i) = c.nodes[i] /\ c.nodes[i] \in Node
  BY <1>1, <1>2, AtIs, TextIs DEF IsChild
<1>4. c.nodes[i].name = n /\ c.nodes[i].index = k
  BY <1>3 DEF IsChild
<1>5. c.nodes[i].ordinal # Top + 1
  BY <1>2, <1>3, <1>4 DEF Good, Ordered, NodeFits
<1>6. c.nodes[i].ordinal <= Top /\ Top \in Nat
  BY <1>3, <1>5, Schema DEF Node, Ordinals
<1>7. Rests(c, i)
  BY <1>1, <1>3, <1>6, AtIs DEF Rests, HasText
<1>8. k \in Nat /\ k < Len(c.nodes)
  BY <1>3, <1>4 DEF Node, Good
<1> QED BY <1>3, <1>4, <1>6, <1>7, <1>8 DEF Has

LEMMA HasIsChild ==
  ASSUME NEW c, Good(c), NEW n, NEW k
  PROVE  \A i \in DOMAIN c.nodes : c.nodes[i].name = n /\ c.nodes[i].index = k
                                     => IsChild(c, i, n, k)
<1>1. c.nodes \in Seq(Node)
  BY DEF Good, Ordered
<1> QED BY <1>1, AtIs DEF IsChild

LEMMA SearchedIs ==
  ASSUME NEW c, Good(c), NEW from \in 1..End(c), NEW n \in Names, NEW k
  PROVE  LET it == Searched(c, from, n, k)
         IN  IF it = 0 THEN ~Has(c.nodes, n, k) ELSE IsChild(c, it, n, k)
<1> DEFINE A == {i \in from..Len(c.nodes) : IsChild(c, i, n, k)}
           B == {i \in 1..(from - 1) : IsChild(c, i, n, k)}
<1>1. c.nodes \in Seq(Node)
  BY DEF Good, Ordered
<1>2. Len(c.nodes) \in Nat /\ End(c) \in Nat /\ DOMAIN c.nodes = 1..Len(c.nodes)
  BY <1>1, AtIs
<1>3. A \in SUBSET Nat /\ B \in SUBSET Nat /\ 0 \notin A /\ 0 \notin B
  BY <1>2
<1>4. \A x \in A \union B : IsChild(c, x, n, k)
  OBVIOUS
<1>5. \A i \in 1..Len(c.nodes) : IsChild(c, i, n, k) => i \in A \union B
  BY <1>2
<1>6. Searched(c, from, n, k) = IF A # {} THEN Min(A) ELSE IF B # {} THEN Min(B) ELSE 0
  BY DEF Searched
<1> HIDE DEF A, B
<1>7. CASE A # {}
  BY <1>3, <1>4, <1>6, <1>7, MinIs
<1>8. CASE A = {} /\ B # {}
  <2>1. Min(B) \in B
    BY <1>3, <1>8, MinIs
  <2> QED BY <1>3, <1>4, <1>6, <1>8, <2>1
<1>9. CASE A = {} /\ B = {}
  <2>1. Searched(c, from, n, k) = 0
    BY <1>6, <1>9
  <2>2. ~Has(c.nodes, n, k)
    BY <1>2, <1>5, <1>9, HasIsChild DEF Has
  <2> QED BY <2>1, <2>2
<1> QED BY <1>7, <1>8, <1>9

\* What is found is what was asked for, and the cursor rests.
LEMMA Get1Is ==
  ASSUME NEW c, Good(c), NEW from, Rests(c, from), NEW n \in Names, NEW k
  PROVE  LET got == Get1(c, from, n, k)
         IN  /\ IF got.it = 0 THEN ~Has(c.nodes, n, k) ELSE IsChild(c, got.it, n, k)
             /\ Rests(c, got.cursor)
<1> DEFINE it == IF IsChild(c, from, n, k) THEN from ELSE Searched(c, from, n, k)
<1>1. from \in 1..End(c) /\ c.nodes \in Seq(Node)
  BY DEF Rests, Good, Ordered
<1>2. IF it = 0 THEN ~Has(c.nodes, n, k) ELSE IsChild(c, it, n, k)
  BY <1>1, SearchedIs
<1>3. Get1(c, from, n, k).it = it
      /\ Get1(c, from, n, k).cursor = IF it = 0 THEN from ELSE Skipping(c, it + 1)
  BY DEF Get1
<1> HIDE DEF it
<1>4. ASSUME it # 0 PROVE Rests(c, Skipping(c, it + 1))
  <2>1. it \in 1..Len(c.nodes)
    BY <1>2, <1>4, ChildIs
  <2>2. it + 1 \in 1..End(c)
    BY <1>1, <2>1, AtIs
  <2> QED BY <1>1, <2>2, SkippingRests
<1> QED BY <1>2, <1>3, <1>4

LEMMA Get2Is ==
  ASSUME NEW c, Good(c), NEW from, Rests(c, from), NEW n \in Names, NEW k
  PROVE  LET got == Get2(c, from, n, k)
         IN  /\ IF got.it = 0 THEN ~Has(c.nodes, n, 0) \/ ~Has(c.nodes, n, k)
                ELSE IsChild(c, got.it, n, k)
             /\ Rests(c, got.cursor)
<1> DEFINE got == Get2(c, from, n, k)
           first == Searched(c, from, n, 0)
<1>1. from \in 1..End(c) /\ c.nodes \in Seq(Node) /\ Len(c.nodes) \in Nat /\ from \in Nat
  BY AtIs DEF Rests, Good, Ordered
<1>2. CASE IsChild(c, from + k, n, k)
  <2>1. got = [it |-> from + k, cursor |-> from]
    BY <1>2 DEF Get2
  <2>2. from + k \in 1..Len(c.nodes)
    BY <1>2, ChildIs
  <2>3. got.it = from + k /\ got.cursor = from /\ from + k # 0
    BY <2>1, <2>2
  <2> HIDE DEF got
  <2> QED BY <1>2, <2>3 DEF got
<1>3. CASE ~IsChild(c, from + k, n, k) /\ At(c, from).name = n
  BY <1>3, Get1Is DEF Get2
<1>4. CASE ~IsChild(c, from + k, n, k) /\ At(c, from).name # n
  <2>1. IF first = 0 THEN ~Has(c.nodes, n, 0) ELSE IsChild(c, first, n, 0)
    BY <1>1, SearchedIs
  <2>2. got = IF first = 0 THEN [it |-> 0, cursor |-> from]
              ELSE IF IsChild(c, first + k, n, k) THEN [it |-> first + k, cursor |-> first]
              ELSE Get1(c, first, n, k)
    BY <1>4 DEF Get2
  <2> HIDE DEF got, first
  <2>3. CASE first = 0
    BY <2>1, <2>2, <2>3 DEF got
  <2>4. CASE first # 0
    <3>1. Rests(c, first)
      BY <2>1, <2>4, ChildIs
    <3>2. CASE IsChild(c, first + k, n, k)
      <4>1. got.it = first + k /\ got.cursor = first
        BY <2>2, <2>4, <3>2
      <4>2. first + k \in 1..Len(c.nodes)
        BY <3>2, ChildIs
      <4>3. first + k # 0
        BY <1>1, <4>2
      <4> QED BY <3>1, <3>2, <4>1, <4>3 DEF got
    <3>3. CASE ~IsChild(c, first + k, n, k)
      <4>1. got = Get1(c, first, n, k)
        BY <2>2, <2>4, <3>3
      <4> QED BY <3>1, <4>1, Get1Is DEF got
    <3> QED BY <3>2, <3>3
  <2> QED BY <2>3, <2>4
<1> QED BY <1>2, <1>3, <1>4

\* Of a dense array, whatever is there is found.
LEMMA CountsAtLeast ==
  ASSUME NEW c, Good(c), NEW n \in Names, NEW k, Has(c.nodes, n, k)
  PROVE  c.count[n] \in Nat /\ c.count[n] > 0
<1>1. c.nodes \in Seq(Node) /\ c.count \in [Names -> Nat]
  BY DEF Good, Ordered, Array
<1>2. Where(c.nodes, Called(n)) # {}
  BY <1>1, AtIs DEF Has, Where, Called
<1>3. IsFiniteSet(Where(c.nodes, Called(n)))
  BY <1>1, WhereFinite
<1>4. Cardinality(Where(c.nodes, Called(n))) # 0
  BY <1>2, <1>3, FS_EmptySet
<1> QED BY <1>1, <1>4 DEF Good

LEMMA FoundWhereDense ==
  ASSUME NEW c, Good(c), Dense(c), NEW from, Rests(c, from), NEW n \in Names, NEW k
  PROVE  LET got == Get2(c, from, n, k)
         IN  /\ IF Has(c.nodes, n, k) THEN IsChild(c, got.it, n, k) ELSE got.it = 0
             /\ Rests(c, got.cursor)
<1> DEFINE got == Get2(c, from, n, k)
<1>1. /\ IF got.it = 0 THEN ~Has(c.nodes, n, 0) \/ ~Has(c.nodes, n, k)
                       ELSE IsChild(c, got.it, n, k)
      /\ Rests(c, got.cursor)
  BY Get2Is
<1> HIDE DEF got
<1>2. CASE Has(c.nodes, n, k)
  <2>1. Has(c.nodes, n, 0)
    BY <1>2, CountsAtLeast DEF Dense
  <2> QED BY <1>1, <1>2, <2>1 DEF got
<1>3. CASE ~Has(c.nodes, n, k)
  <2>1. got.it = 0
    BY <1>1, <1>3, ChildIs
  <2> QED BY <1>1, <1>3, <2>1 DEF got
<1> QED BY <1>2, <1>3
-----------------------------------------------------------------------------
(* Changes of the array *)

LEMMA InsertedGood ==
  ASSUME NEW c, Good(c), NEW x \in Node, x.name \in Names, x.index = c.count[x.name],
         Room(c.nodes, x.name, x.ordinal), NEW i, FitsAt(c.nodes, i, x.ordinal)
  PROVE  LET d == Inserted(c, i, x)
         IN  /\ Good(d) /\ d.failed = c.failed
             /\ Dense(c) => Dense(d)
             /\ d.cursor = i /\ Len(d.nodes) = Len(c.nodes) + 1
             /\ \A m \in Names : d.count[m] = IF m = x.name THEN c.count[m] + 1 ELSE c.count[m]
<1> DEFINE d == Inserted(c, i, x)
           s == c.nodes
           t == With(s, i, x)
           n == x.name
           o == x.ordinal
<1>1. s \in Seq(Node) /\ c.count \in [Names -> Nat] /\ c \in Array
  BY DEF Good, Ordered, Array
<1>2. o \in 0..Top /\ Top \in Nat
  BY BelongsRange, Schema DEF Room
<1>3. x \in Node /\ x.name = n /\ x.ordinal = o /\ x.index = c.count[n]
  OBVIOUS
<1>4. i \in 1..(Len(s) + 1) /\ Len(s) \in Nat /\ i \in Nat /\ DOMAIN s = 1..Len(s)
  BY <1>1, AtIs DEF FitsAt
<1>5. d.nodes = t /\ d.cursor = i /\ d.count = [c.count EXCEPT ![n] = @ + 1]
      /\ d.failed = c.failed
  BY <1>1, <1>3 DEF Inserted, With, Array
<1>6. /\ t \in Seq(Node) /\ Len(t) = Len(s) + 1
      /\ \A j \in 1..(Len(s) + 1) : t[j] = IF j < i THEN s[j] ELSE IF j = i THEN x ELSE s[j - 1]
  <2>1. s \in Seq(Node) /\ i \in 1..(Len(s) + 1) /\ x \in Node
    BY <1>1, <1>3, <1>4
  <2> HIDE DEF s
  <2> QED BY <2>1, WithIs
<1>7. Ordered(t)
  <2>1. i \in 1..(Len(s) + 1)
    BY <1>4
  <2>2. Ordered(s)
    BY DEF Good
  <2> QED BY <2>1, <2>2, WithOrdered
<1>8. \A K : Cardinality(Where(t, K)) =
               IF x \in K THEN Cardinality(Where(s, K)) + 1 ELSE Cardinality(Where(s, K))
  BY <1>1, <1>3, <1>4, WhereWith
<1> HIDE DEF t
<1>9. DOMAIN t = 1..(Len(s) + 1)
  BY <1>6, LenProperties
<1>10. d \in Array
  <2>1. d = [c EXCEPT !.nodes = t, !.cursor = i, !.count = [c.count EXCEPT ![n] = @ + 1]]
    BY <1>1, <1>3, <1>5 DEF Inserted, With, Array, t
  <2> HIDE DEF d
  <2>2. [c.count EXCEPT ![n] = @ + 1] \in [Names -> Nat]
    BY <1>1
  <2> QED BY <1>1, <1>4, <1>6, <2>1, <2>2 DEF Array
<1> HIDE DEF d
<1>11. ASSUME NEW m \in Names PROVE d.count[m] = Cardinality(Where(t, Called(m)))
  <2>1. c.count[m] = Cardinality(Where(s, Called(m)))
    BY DEF Good
  <2>2. x \in Called(m) <=> m = n
    BY <1>3 DEF Called
  <2> QED BY <1>1, <1>5, <1>8, <2>1, <2>2
<1>12. ASSUME NEW j \in DOMAIN t PROVE t[j].index < Len(t)
  <2>1. c.count[n] <= Len(s) /\ c.count[n] \in Nat
    BY <1>1, WhereFinite DEF Good
  <2>2. t[j] = x \/ \E k \in DOMAIN s : t[j] = s[k]
    <3>1. j \in 1..(Len(s) + 1)
      BY <1>9
    <3>2. t[j] = IF j < i THEN s[j] ELSE IF j = i THEN x ELSE s[j - 1]
      BY <1>6, <3>1
    <3>3. j < i => j \in DOMAIN s
      BY <1>4, <3>1
    <3>4. j > i => j - 1 \in DOMAIN s
      BY <1>4, <3>1
    <3> HIDE DEF s, t
    <3>5. j < i \/ j = i \/ j > i
      BY <1>4, <3>1
    <3>6. CASE j < i
      BY <3>2, <3>3, <3>6
    <3>7. CASE j = i
      BY <1>4, <3>2, <3>7
    <3>8. CASE j > i
      <4>1. ~(j < i) /\ j # i
        BY <1>4, <3>1, <3>8
      <4> QED BY <3>2, <3>4, <3>8, <4>1
    <3> QED BY <3>5, <3>6, <3>7, <3>8
  <2>3. ASSUME NEW k \in DOMAIN s PROVE s[k].index < Len(s) /\ s[k].index \in Nat
    <3>1. s[k] \in Node
      BY <1>1, <1>4, AtIs
    <3> QED BY <3>1 DEF Good, Node
  <2>4. t[j].index \in Nat /\ t[j].index <= Len(s)
    BY <1>3, <1>4, <2>1, <2>2, <2>3
  <2> QED BY <1>4, <1>6, <2>4
<1>13. Rests(d, i)
  <2>1. d.nodes \in Seq(Node) /\ Len(d.nodes) = Len(s) + 1 /\ d.nodes[i] = x
    BY <1>4, <1>5, <1>6
  <2>2. End(d) = Len(s) + 2 /\ At(d, i) = x
    <3>1. i \in 1..Len(d.nodes)
      BY <1>4, <2>1
    <3>2. End(d) = Len(d.nodes) + 1 /\ At(d, i) = d.nodes[i]
      BY <2>1, <3>1, AtIs
    <3> QED BY <1>4, <2>1, <3>2
  <2> QED BY <1>2, <1>3, <1>4, <2>2 DEF Rests, HasText
<1>14. Good(d)
  BY <1>5, <1>7, <1>10, <1>11, <1>12, <1>13 DEF Good
<1>15. ASSUME Dense(c), NEW m \in Names, NEW k \in Nat, k < d.count[m] PROVE Has(t, m, k)
  <2>1. CASE m = n /\ k = c.count[n]
    <3>1. t[i] = x /\ i \in DOMAIN t
      BY <1>4, <1>6, <1>9
    <3> QED BY <1>3, <2>1, <3>1 DEF Has
  <2>2. CASE ~(m = n /\ k = c.count[n])
    <3>1. k < c.count[m]
      BY <1>1, <1>5, <1>15, <2>2
    <3>2. PICK j \in DOMAIN s : s[j].name = m /\ s[j].index = k
      BY <1>15, <3>1 DEF Dense, Has
    <3>3. \E l \in DOMAIN t : t[l] = s[j]
      <4>1. CASE j < i
        BY <1>4, <1>6, <1>9, <4>1
      <4>2. CASE j >= i
        <5>1. j + 1 \in 1..(Len(s) + 1) /\ ~(j + 1 < i) /\ j + 1 # i /\ (j + 1) - 1 = j
          BY <1>4, <4>2
        <5>2. t[j + 1] = s[j]
          BY <1>6, <5>1
        <5> QED BY <1>9, <5>1, <5>2
      <4> QED BY <1>4, <4>1, <4>2
    <3> QED BY <3>2, <3>3 DEF Has
  <2> QED BY <2>1, <2>2
<1>16. Dense(c) => Dense(d)
  BY <1>5, <1>15 DEF Dense
<1>17. \A m \in Names : d.count[m] = IF m = n THEN c.count[m] + 1 ELSE c.count[m]
  BY <1>1, <1>5
<1> QED BY <1>5, <1>6, <1>14, <1>16, <1>17 DEF d

\* The index of a node, or whether it is a placeholder.
LEMMA RewrittenGood ==
  ASSUME NEW c, Good(c), NEW i \in DOMAIN c.nodes, NEW x \in Node,
         x.name = c.nodes[i].name, x.ordinal = c.nodes[i].ordinal, x.index < Len(c.nodes)
  PROVE  LET d == [c EXCEPT !.nodes[i] = x]
         IN  /\ Good(d) /\ d.count = c.count /\ d.failed = c.failed /\ d.cursor = c.cursor
             /\ Len(d.nodes) = Len(c.nodes) /\ DOMAIN d.nodes = DOMAIN c.nodes
             /\ \A j \in DOMAIN c.nodes : d.nodes[j] = IF j = i THEN x ELSE c.nodes[j]
             /\ Alters(c.nodes, d.nodes)
             /\ x.index = c.nodes[i].index => (Dense(c) => Dense(d))
<1> DEFINE s == c.nodes
           t == [s EXCEPT ![i] = x]
           d == [c EXCEPT !.nodes[i] = x]
<1>1. s \in Seq(Node) /\ c.count \in [Names -> Nat] /\ c \in Array /\ Ordered(s)
  BY DEF Good, Ordered, Array
<1>2. Len(s) \in Nat /\ DOMAIN s = 1..Len(s)
  BY <1>1, AtIs
<1>3. /\ t \in Seq(Node) /\ Len(t) = Len(s)
      /\ \A j \in 1..Len(s) : t[j] = IF j = i THEN x ELSE s[j]
  BY <1>1, <1>2, ExceptSeq
<1>4. d.nodes = t /\ d.cursor = c.cursor /\ d.count = c.count /\ d.failed = c.failed
      /\ d \in Array
  BY <1>1, <1>3 DEF Array
<1> HIDE DEF t, d
<1>5. DOMAIN t = DOMAIN s
  BY <1>1, <1>3, LenProperties
<1>6. Alters(s, t)
  BY <1>2, <1>3 DEF Alters
<1>7. Ordered(t)
  BY <1>1, <1>6, AltersOrdered
<1>8. \A j \in DOMAIN t : t[j].index < Len(t)
  BY <1>2, <1>3, <1>5 DEF Good
<1>9. ASSUME NEW n \in Names PROVE Where(t, Called(n)) = Where(s, Called(n))
  <2>1. \A j \in DOMAIN s : s[j] \in Node /\ t[j] \in Node /\ t[j].name = s[j].name
    BY <1>1, <1>2, <1>3, ElementOfSeq
  <2> QED BY <1>5, <2>1 DEF Where, Called
<1>10. Rests(d, d.cursor)
  <2>1. Rests(c, c.cursor)
    BY DEF Good
  <2>2. End(d) = End(c) /\ At(d, c.cursor).ordinal = At(c, c.cursor).ordinal
    BY <1>2, <1>3, <1>4, <1>5 DEF End, At
  <2> QED BY <1>4, <2>1, <2>2 DEF Rests, HasText
<1>11. Good(d)
  BY <1>4, <1>7, <1>8, <1>9, <1>10 DEF Good
<1>12. ASSUME x.index = c.nodes[i].index, Dense(c) PROVE Dense(d)
  <2>1. \A j \in DOMAIN s : t[j].name = s[j].name /\ t[j].index = s[j].index
    BY <1>2, <1>3, <1>12
  <2>2. \A n, k : Has(s, n, k) => Has(t, n, k)
    BY <1>5, <2>1 DEF Has
  <2> QED BY <1>4, <1>12, <2>2 DEF Dense
<1> QED BY <1>2, <1>3, <1>4, <1>5, <1>6, <1>11, <1>12 DEF d

\* A child that goes takes its subscript along, and no other.
LEMMA VacatedGood ==
  ASSUME NEW c, Good(c), NEW it \in DOMAIN c.nodes, c.nodes[it].name \in Names
  PROVE  LET d == Vacated(c, it)
             n == c.nodes[it].name
         IN  /\ Good(d) /\ d.failed = c.failed
             /\ c.count[n] \in Nat \ {0} /\ d.count = [c.count EXCEPT ![n] = @ - 1]
             /\ Alters(c.nodes, d.nodes)
             /\ \A j \in DOMAIN c.nodes : j # it => d.nodes[j] = c.nodes[j]
             /\ \A m, k : Has(c.nodes, m, k) /\ (m # n \/ k # c.nodes[it].index) =>
                            Has(d.nodes, m, k)
<1> DEFINE n == c.nodes[it].name
           s == c.nodes
           t == [s EXCEPT ![it] = Text]
           gone == [c EXCEPT !.nodes[it] = Text, !.count[n] = @ - 1]
           d == Vacated(c, it)
<1>1. s \in Seq(Node) /\ c.count \in [Names -> Nat] /\ c \in Array /\ Ordered(s)
      /\ c.cursor \in Nat
  BY DEF Good, Ordered, Array
<1>2. Len(s) \in Nat /\ DOMAIN s = 1..Len(s) /\ \A j \in DOMAIN s : s[j] \in Node
  BY <1>1, AtIs
<1>3. /\ t \in Seq(Node) /\ Len(t) = Len(s)
      /\ \A j \in 1..Len(s) : t[j] = IF j = it THEN Text ELSE s[j]
  BY <1>1, <1>2, ExceptSeq, TextIs
<1>4. DOMAIN t = DOMAIN s
  BY <1>1
<1>5. Alters(s, t)
  <2> HIDE DEF t
  <2> QED BY <1>2, <1>3 DEF Alters
<1>6. Ordered(t)
  <2> HIDE DEF t
  <2> QED BY <1>1, <1>5, AltersOrdered
<1>7. c.count[n] = Cardinality(Where(s, Called(n)))
  BY DEF Good
<1>8. it \in Where(s, Called(n)) /\ IsFiniteSet(Where(s, Called(n)))
  BY <1>1, <1>2, WhereFinite DEF Where, Called
<1>9. c.count[n] \in Nat /\ c.count[n] # 0
  BY <1>1, <1>7, <1>8, FS_EmptySet
<1>10. gone.nodes = t /\ gone.cursor = c.cursor /\ gone.failed = c.failed
       /\ gone.count = [c.count EXCEPT ![n] = @ - 1] /\ gone \in Array
  <2>1. [c.count EXCEPT ![n] = @ - 1] \in [Names -> Nat]
    BY <1>1, <1>9
  <2>2. gone = [c EXCEPT !.nodes = t, !.count = [c.count EXCEPT ![n] = @ - 1]]
    BY <1>1 DEF Array
  <2> HIDE DEF t, gone
  <2> QED BY <1>1, <1>3, <2>1, <2>2 DEF Array
<1>11. d = [gone EXCEPT !.cursor = IF c.cursor = it THEN Skipping(gone, it) ELSE c.cursor]
  BY <1>10 DEF Vacated
<1> HIDE DEF gone, t
<1>12. End(gone) = End(c) /\ \A j : j # it => At(gone, j) = At(c, j)
  BY <1>2, <1>3, <1>4, <1>10 DEF End, At
<1>13. Rests(c, c.cursor) /\ it \in 1..End(gone)
  <2>1. it \in 1..Len(s) /\ End(gone) = Len(s) + 1
    BY <1>2, <1>12 DEF End
  <2> QED BY <1>2, <2>1 DEF Good
<1> DEFINE x == IF c.cursor = it THEN Skipping(gone, it) ELSE c.cursor
<1>14. Rests(gone, x)
  <2>1. CASE c.cursor = it
    <3>1. gone.nodes \in Seq(Node)
      BY <1>3, <1>10
    <3> QED BY <1>13, <2>1, <3>1, SkippingRests
  <2>2. CASE c.cursor # it
    BY <1>12, <1>13, <2>2 DEF Rests, HasText
  <2> QED BY <2>1, <2>2
<1>15. x \in Nat
  <2>1. End(gone) \in Nat
    BY <1>3, <1>10, AtIs
  <2> QED BY <1>14, <2>1 DEF Rests
<1> HIDE DEF x
<1>16. d.nodes = t /\ d.cursor = x /\ d.failed = c.failed
       /\ d.count = [c.count EXCEPT ![n] = @ - 1] /\ d \in Array
  <2>1. d = [gone EXCEPT !.cursor = x]
    BY <1>11 DEF x
  <2> HIDE DEF d
  <2> QED BY <1>10, <1>15, <2>1 DEF Array
<1> HIDE DEF d
<1>17. Rests(d, d.cursor)
  BY <1>10, <1>14, <1>16 DEF Rests, HasText, At, End
<1>18. ASSUME NEW m \in Names PROVE d.count[m] = Cardinality(Where(t, Called(m)))
  <2>1. c.count[m] = Cardinality(Where(s, Called(m)))
    BY DEF Good
  <2>2. CASE m = n
    <3>1. Where(t, Called(m)) = Where(s, Called(n)) \ {it}
      <4>1. Text \notin Called(m)
        BY TextIs, Schema DEF Called
      <4> QED BY <1>2, <1>3, <1>4, <2>2, <4>1 DEF Where
    <3>2. Cardinality(Where(s, Called(n)) \ {it}) = Cardinality(Where(s, Called(n))) - 1
      BY <1>8, FS_RemoveElement
    <3> QED BY <1>1, <1>7, <1>16, <2>2, <3>1, <3>2
  <2>3. CASE m # n
    <3>1. Text \notin Called(m) /\ s[it] \notin Called(m)
      BY <2>3, TextIs, Schema DEF Called
    <3>2. Where(t, Called(m)) = Where(s, Called(m))
      BY <1>2, <1>3, <1>4, <3>1 DEF Where
    <3> QED BY <1>1, <1>16, <2>1, <2>3, <3>2
  <2> QED BY <2>2, <2>3
<1>19. ASSUME NEW j \in DOMAIN t PROVE t[j].index < Len(t)
  <2>1. j \in 1..Len(s)
    BY <1>2, <1>4
  <2>2. t[j] = Text \/ t[j] = s[j]
    BY <1>3, <2>1
  <2>3. s[j].index < Len(s)
    BY <1>4 DEF Good
  <2> QED BY <1>2, <1>3, <2>1, <2>2, <2>3, TextIs
<1>20. Good(d)
  BY <1>6, <1>16, <1>17, <1>18, <1>19 DEF Good
<1>21. ASSUME NEW m, NEW k, Has(s, m, k), m # n \/ k # s[it].index PROVE Has(t, m, k)
  <2>1. PICK j \in DOMAIN s : s[j].name = m /\ s[j].index = k
    BY <1>21 DEF Has
  <2>2. j # it
    BY <1>21, <2>1
  <2>3. t[j] = s[j]
    BY <1>2, <1>3, <2>2
  <2> QED BY <1>4, <2>1, <2>3 DEF Has
<1>22. \A j \in DOMAIN s : j # it => t[j] = s[j]
  BY <1>2, <1>3
<1> QED BY <1>5, <1>9, <1>16, <1>20, <1>21, <1>22 DEF d

\* The last of a name takes over the subscript of the one that goes; a placeholder just goes.
LEMMA RemovedGood ==
  ASSUME NEW c, Good(c), NEW it \in DOMAIN c.nodes, c.nodes[it].name \in Names
  PROVE  LET d == Removed(c, it)
             n == c.nodes[it].name
             lost == IF c.nodes[it].empty THEN c.nodes[it].index ELSE c.count[n] - 1
         IN  /\ Good(d) /\ Alters(c.nodes, d.nodes)
             /\ \/ d = [c EXCEPT !.failed = "cursor"]
                \/ /\ d.failed = c.failed
                   /\ c.count[n] \in Nat \ {0} /\ d.count = [c.count EXCEPT ![n] = @ - 1]
                   /\ \A m, k : Has(c.nodes, m, k) /\ (m # n \/ k # lost) => Has(d.nodes, m, k)
<1> DEFINE child == c.nodes[it]
           n == c.nodes[it].name
           last == c.count[n] - 1
           guess == it + last - child.index
           heir == Get1(c, guess, n, last).it
           d == Removed(c, it)
           s == c.nodes
<1>1. s \in Seq(Node) /\ c \in Array /\ Len(s) \in Nat /\ DOMAIN s = 1..Len(s)
      /\ \A j \in DOMAIN s : s[j] \in Node
  BY AtIs DEF Good, Ordered
<1>2. CASE child.empty
  <2>1. d = Vacated(c, it)
    BY <1>2 DEF Removed
  <2> HIDE DEF d
  <2> QED BY <1>2, <2>1, VacatedGood DEF d
<1>3. CASE ~child.empty /\ (guess \notin 1..End(c) \/ HasText(c, guess) \/ heir = 0)
  <2>1. d = [c EXCEPT !.failed = "cursor"]
    BY <1>3 DEF Removed
  <2> HIDE DEF d
  <2>2. d \in Array /\ d.nodes = c.nodes /\ d.count = c.count /\ d.cursor = c.cursor
    BY <1>1, <2>1 DEF Array
  <2>3. Good(d)
    BY <2>2 DEF Good, Rests, HasText, At, End
  <2>4. Alters(c.nodes, d.nodes)
    BY <1>1, <2>2 DEF Alters
  <2> QED BY <2>1, <2>3, <2>4 DEF d
<1>4. CASE ~child.empty /\ ~(guess \notin 1..End(c) \/ HasText(c, guess) \/ heir = 0)
  <2> DEFINE x == [s[heir] EXCEPT !.index = child.index]
             b == [c EXCEPT !.nodes[heir] = x]
  <2>1. d = Vacated([c EXCEPT !.nodes[heir].index = child.index], it)
    BY <1>4 DEF Removed
  <2>2. Rests(c, guess)
    BY <1>4 DEF Rests
  <2>3. IsChild(c, heir, n, last)
    BY <1>4, <2>2, Get1Is
  <2> HIDE DEF heir, guess
  <2>4. heir \in DOMAIN s /\ s[heir].name = n /\ s[heir].index = last
    BY <2>3, ChildIs
  <2>5. s[heir] \in Node /\ child \in Node /\ child.index < Len(s)
    BY <1>1, <2>4 DEF Good
  <2>6. x \in Node /\ x.name = s[heir].name /\ x.ordinal = s[heir].ordinal
        /\ x.index = child.index /\ x.empty = s[heir].empty
    BY <2>5 DEF Node
  <2> HIDE DEF x
  <2>7. /\ Good(b) /\ b.count = c.count /\ b.failed = c.failed
        /\ Len(b.nodes) = Len(s) /\ DOMAIN b.nodes = DOMAIN s
        /\ \A j \in DOMAIN s : b.nodes[j] = IF j = heir THEN x ELSE s[j]
        /\ Alters(s, b.nodes)
    BY <2>4, <2>5, <2>6, RewrittenGood
  <2>8. [c EXCEPT !.nodes[heir].index = child.index] = b
    BY <1>1, <2>4 DEF Array, x
  <2> HIDE DEF b, d
  <2>9. b.nodes[it].name = n /\ b.nodes[it].index = child.index
    BY <2>4, <2>6, <2>7
  <2>10. /\ Good(d) /\ d.failed = b.failed
         /\ b.count[n] \in Nat \ {0} /\ d.count = [b.count EXCEPT ![n] = @ - 1]
         /\ Alters(b.nodes, d.nodes)
         /\ \A j \in DOMAIN s : j # it => d.nodes[j] = b.nodes[j]
         /\ \A m, k : Has(b.nodes, m, k) /\ (m # n \/ k # child.index) => Has(d.nodes, m, k)
    <3> DEFINE i == b.nodes[it].name
               v == Vacated(b, it)
    <3>1. it \in DOMAIN b.nodes /\ i \in Names
      BY <2>7, <2>9
    <3>2. /\ Good(v) /\ v.failed = b.failed
          /\ b.count[i] \in Nat \ {0} /\ v.count = [b.count EXCEPT ![i] = @ - 1]
          /\ Alters(b.nodes, v.nodes)
          /\ \A j \in DOMAIN b.nodes : j # it => v.nodes[j] = b.nodes[j]
          /\ \A m, k : Has(b.nodes, m, k) /\ (m # i \/ k # b.nodes[it].index) => Has(v.nodes, m, k)
      BY <2>7, <3>1, VacatedGood
    <3>3. d = v /\ i = n
      BY <2>1, <2>8, <2>9
    <3> HIDE DEF v, i
    <3> QED BY <2>7, <2>9, <3>2, <3>3
  <2>11. ASSUME NEW m, NEW k, Has(s, m, k), m # n \/ k # last PROVE Has(d.nodes, m, k)
    <3>1. PICK j \in DOMAIN s : s[j].name = m /\ s[j].index = k
      BY <2>11 DEF Has
    <3>2. j # heir
      BY <2>4, <2>11, <3>1
    <3>3. b.nodes[j] = s[j]
      BY <2>7, <3>2
    <3>4. Has(b.nodes, m, k)
      BY <2>7, <3>1, <3>3 DEF Has
    <3>5. CASE m = n /\ k = child.index
      <4>1. CASE heir = it
        BY <2>4, <2>11, <3>5, <4>1
      <4>2. CASE heir # it
        <5>1. d.nodes[heir].name = n /\ d.nodes[heir].index = child.index
          BY <2>4, <2>6, <2>7, <2>10, <4>2
        <5>2. DOMAIN d.nodes = DOMAIN s
          BY <1>1, <2>7, <2>10, AtIs DEF Alters
        <5> QED BY <2>4, <3>5, <5>1, <5>2 DEF Has
      <4> QED BY <4>1, <4>2
    <3> QED BY <2>10, <3>4, <3>5
  <2>12. Alters(s, d.nodes)
    <3>1. /\ d.nodes \in Seq(Node) /\ Len(d.nodes) = Len(s)
          /\ \A j \in DOMAIN s : \/ d.nodes[j] = Text
                                 \/ /\ d.nodes[j].name = b.nodes[j].name
                                    /\ d.nodes[j].ordinal = b.nodes[j].ordinal
      BY <2>7, <2>10 DEF Alters
    <3>2. \A j \in DOMAIN s : b.nodes[j].name = s[j].name /\ b.nodes[j].ordinal = s[j].ordinal
      BY <2>6, <2>7
    <3> QED BY <3>1, <3>2 DEF Alters
  <2>13. d.failed = c.failed /\ c.count[n] \in Nat \ {0}
         /\ d.count = [c.count EXCEPT ![n] = @ - 1]
    BY <2>7, <2>10
  <2> QED BY <1>4, <2>10, <2>11, <2>12, <2>13 DEF d
<1> QED BY <1>2, <1>3, <1>4
-----------------------------------------------------------------------------
(* The places of the content model *)

\* Wherever the cursor is, the searches end in the array.
LEMMA LowerBoundRange ==
  ASSUME NEW c, c.nodes \in Seq(Node), c.cursor \in 1..End(c), NEW o \in Nat
  PROVE  LET from == IF At(c, c.cursor).ordinal >= o THEN c.cursor ELSE 1
             it == FuzzyLowerBound(c, o)
         IN  /\ it \in 1..End(c) /\ it >= from /\ At(c, it).ordinal <= o
             /\ \A j \in 1..End(c) : j >= from /\ At(c, j).ordinal <= o => it <= j
<1> DEFINE from == IF At(c, c.cursor).ordinal >= o THEN c.cursor ELSE 1
           S == {i \in from..End(c) : At(c, i).ordinal <= o}
<1>1. End(c) \in Nat /\ At(c, End(c)).ordinal = 0 /\ End(c) >= 1
  <2>1. End(c) \in Nat /\ End(c) = Len(c.nodes) + 1 /\ Len(c.nodes) \in Nat
    BY AtIs
  <2>2. End(c) \notin 1..Len(c.nodes)
    BY <2>1
  <2>3. At(c, End(c)) = Terminator
    BY <2>2, AtIs
  <2> QED BY <2>1, <2>3, TextIs
<1>2. from \in 1..End(c)
  BY <1>1
<1>3. FuzzyLowerBound(c, o) = Min(S)
  BY DEF FuzzyLowerBound
<1>4. End(c) \in S /\ S \in SUBSET Nat
  BY <1>1, <1>2
<1> DEFINE T == S
<1>5. Min(T) \in T /\ \A x \in T : Min(T) <= x
  <2> HIDE DEF S
  <2> QED BY <1>4, MinIs
<1> HIDE DEF from
<1> QED BY <1>1, <1>2, <1>3, <1>5 DEF from

LEMMA LastIs ==
  ASSUME NEW i \in Nat \ {0}, NEW S \in SUBSET (1..(i - 1))
  PROVE  /\ 1 + Max({0} \union S) \in 1..i
         /\ \A j \in S : j < 1 + Max({0} \union S)
         /\ 1 + Max({0} \union S) = 1 \/ Max({0} \union S) \in S
<1> DEFINE T == {0} \union S
<1>1. T \in SUBSET Nat /\ T # {} /\ i - 1 \in Nat /\ \A x \in T : x <= i - 1
  OBVIOUS
<1>2. 0 \in T /\ \A x \in T : x # 0 => x \in S
  OBVIOUS
<1>3. \A x \in S : x \in T
  OBVIOUS
<1> HIDE DEF T
<1>4. Max(T) \in T /\ \A x \in T : x <= Max(T)
  BY <1>1, MaxIs
<1>5. Max(T) \in Nat /\ Max(T) <= i - 1
  BY <1>1, <1>4
<1>6. /\ 1 + Max(T) \in 1..i /\ \A j \in S : j < 1 + Max(T)
      /\ 1 + Max(T) = 1 \/ Max(T) \in S
  <2>1. \A j \in S : j <= Max(T) /\ j \in Nat
    BY <1>1, <1>3, <1>4
  <2> QED BY <1>2, <1>4, <1>5, <2>1
<1> QED BY <1>6 DEF T

\* Of an array in order, what is before the lower bound is not below o, and the rest is not above.
LEMMA LowerBoundIs ==
  ASSUME NEW c, Good(c), NEW o \in 0..Top
  PROVE  LET it == FuzzyLowerBound(c, o)
         IN  /\ Rests(c, it) /\ At(c, it).ordinal <= o /\ At(c, it).ordinal \in Nat
             /\ \A j \in DOMAIN c.nodes :
                  c.nodes[j].ordinal <= Top =>
                    /\ j < it => c.nodes[j].ordinal >= o
                    /\ j >= it => c.nodes[j].ordinal <= At(c, it).ordinal
             /\ o > 0 /\ At(c, it).ordinal # o =>
                  \A j \in DOMAIN c.nodes : c.nodes[j].ordinal # o
<1> DEFINE it == FuzzyLowerBound(c, o)
           x == c.cursor
           from == IF At(c, x).ordinal >= o THEN x ELSE 1
           s == c.nodes
<1>1. /\ s \in Seq(Node) /\ Len(s) \in Nat /\ DOMAIN s = 1..Len(s) /\ End(c) = Len(s) + 1
      /\ \A j \in 1..Len(s) : At(c, j) = s[j]
      /\ \A j \in 1..End(c) : At(c, j).ordinal \in 0..(Top + 1)
      /\ Top \in Nat /\ o \in Nat
  <2>1. s \in Seq(Node) /\ Top \in Nat
    BY Schema DEF Good, Ordered
  <2> QED BY <2>1, AtIs
<1>2. x \in 1..End(c) /\ At(c, x).ordinal <= Top /\ (x = End(c) => At(c, x).ordinal = 0)
  <2>1. Rests(c, x)
    BY DEF Good
  <2>2. x = End(c) => x \notin 1..Len(s)
    BY <1>1
  <2>3. x = End(c) => At(c, x) = Terminator
    BY <1>1, <2>2, AtIs
  <2> QED BY <1>1, <2>1, <2>3, TextIs DEF Rests, HasText
<1>3. /\ it \in 1..End(c) /\ it >= from /\ At(c, it).ordinal <= o
      /\ \A j \in 1..End(c) : j >= from /\ At(c, j).ordinal <= o => it <= j
  BY <1>1, <1>2, LowerBoundRange
<1> HIDE DEF it
<1>4. Rests(c, it) /\ At(c, it).ordinal \in Nat
  BY <1>1, <1>3 DEF Rests, HasText
<1>5. \A i, j \in 1..Len(s) :
        i < j /\ s[i].ordinal <= Top /\ s[j].ordinal <= Top => s[i].ordinal >= s[j].ordinal
  BY <1>1 DEF Good, Ordered
<1>6. ASSUME NEW j \in 1..Len(s), s[j].ordinal <= Top, j < it PROVE s[j].ordinal >= o
  <2>1. s[j].ordinal \in Nat /\ j \in 1..End(c) /\ At(c, j) = s[j]
    BY <1>1
  <2>2. CASE j >= from
    <3>1. ~(At(c, j).ordinal <= o)
      BY <1>1, <1>3, <1>6, <2>1, <2>2
    <3> QED BY <1>1, <2>1, <3>1
  <2>3. CASE j < from
    <3>1. from = x /\ At(c, x).ordinal >= o
      BY <2>3, <1>1
    <3>2. CASE x = End(c)
      BY <1>1, <1>2, <2>1, <3>1, <3>2
    <3>3. CASE x # End(c)
      <4>1. x \in 1..Len(s) /\ j < x
        BY <1>1, <1>2, <2>3, <3>1, <3>3
      <4>2. s[j].ordinal >= s[x].ordinal /\ s[x] = At(c, x)
        BY <1>1, <1>2, <1>5, <1>6, <4>1
      <4> QED BY <1>1, <1>2, <2>1, <3>1, <4>2
    <3> QED BY <3>2, <3>3
  <2>4. j >= from \/ j < from
    BY <1>1, <1>2
  <2> QED BY <2>2, <2>3, <2>4
<1>7. ASSUME NEW j \in 1..Len(s), s[j].ordinal <= Top, j >= it
      PROVE  s[j].ordinal <= At(c, it).ordinal
  <2>1. it \in 1..Len(s) /\ At(c, it) = s[it] /\ s[it].ordinal <= Top
    BY <1>1, <1>3, <1>7
  <2>2. s[j].ordinal \in Nat
    BY <1>1
  <2> QED BY <1>1, <1>5, <1>7, <2>1, <2>2
<1>8. ASSUME o > 0, At(c, it).ordinal # o, NEW j \in 1..Len(s), s[j].ordinal = o PROVE FALSE
  <2>1. s[j].ordinal <= Top /\ At(c, j) = s[j] /\ j \in 1..End(c)
    BY <1>1, <1>8
  <2>2. At(c, it).ordinal < o
    BY <1>1, <1>3, <1>8
  <2>3. j < it
    BY <1>1, <1>3, <1>7, <1>8, <2>1, <2>2
  <2>4. j < from /\ from = x /\ At(c, x).ordinal >= o
    BY <1>1, <1>2, <1>3, <1>8, <2>1, <2>3
  <2>5. x # End(c)
    BY <1>1, <1>2, <1>8, <2>4
  <2>6. x \in 1..Len(s) /\ j < x /\ s[x] = At(c, x)
    BY <1>1, <1>2, <2>4, <2>5
  <2>7. At(c, x).ordinal <= o
    BY <1>1, <1>2, <1>5, <1>8, <2>1, <2>6
  <2>8. it <= x
    BY <1>2, <1>3, <2>4, <2>7
  <2>9. it = x
    BY <1>1, <1>2, <1>3, <2>4, <2>8
  <2>10. At(c, x).ordinal = o
    BY <1>1, <1>2, <2>4, <2>7
  <2> QED BY <1>8, <2>9, <2>10
<1> QED BY <1>1, <1>3, <1>4, <1>6, <1>7, <1>8 DEF it

LEMMA RewoundIs ==
  ASSUME NEW c, Good(c), NEW i \in 1..End(c), NEW o \in Nat,
         \A j \in DOMAIN c.nodes : j >= i /\ c.nodes[j].ordinal <= Top => c.nodes[j].ordinal <= o
  PROVE  LET r == Rewound(c, i, o)
         IN  /\ r \in 1..i
             /\ \A j \in DOMAIN c.nodes :
                  c.nodes[j].ordinal <= Top =>
                    /\ j < r => c.nodes[j].ordinal > o
                    /\ j >= r => c.nodes[j].ordinal <= o
<1> DEFINE S == {j \in 1..(i - 1) : ~HasText(c, j) /\ At(c, j).ordinal > o}
           r == Rewound(c, i, o)
           s == c.nodes
<1>1. /\ s \in Seq(Node) /\ Len(s) \in Nat /\ DOMAIN s = 1..Len(s) /\ End(c) = Len(s) + 1
      /\ \A j \in 1..Len(s) : At(c, j) = s[j] /\ s[j].ordinal \in Nat
      /\ Top \in Nat /\ o \in Nat /\ i \in Nat \ {0}
  <2>1. s \in Seq(Node) /\ Top \in Nat
    BY Schema DEF Good, Ordered
  <2>2. \A j \in 1..Len(s) : At(c, j) = s[j] /\ s[j] \in Node
    BY <2>1, AtIs
  <2>3. \A j \in 1..Len(s) : s[j].ordinal \in Nat
    BY <2>1, <2>2 DEF Node, Ordinals
  <2> QED BY <2>1, <2>2, <2>3, AtIs
<1>2. r = 1 + Max({0} \union S)
  BY DEF Rewound
<1>3. /\ r \in 1..i /\ (\A j \in S : j < r) /\ (r = 1 \/ r - 1 \in S)
  <2>1. S \in SUBSET (1..(i - 1))
    OBVIOUS
  <2> HIDE DEF S, r
  <2>2. /\ 1 + Max({0} \union S) \in 1..i
        /\ \A j \in S : j < 1 + Max({0} \union S)
        /\ 1 + Max({0} \union S) = 1 \/ Max({0} \union S) \in S
    BY <1>1, <2>1, LastIs
  <2>3. r \in 1..i /\ \A j \in S : j < r
    BY <1>2, <2>2
  <2>4. r = 1 \/ r - 1 \in S
    <3>1. CASE 1 + Max({0} \union S) = 1
      BY <1>2, <3>1
    <3>2. CASE Max({0} \union S) \in S
      <4>1. Max({0} \union S) \in Nat
        <5>1. \A y \in S : y \in Nat
          BY <1>1, <2>1
        <5> QED BY <3>2, <5>1
      <4>2. r - 1 = Max({0} \union S)
        BY <1>2, <4>1
      <4> QED BY <3>2, <4>2
    <3> QED BY <2>2, <3>1, <3>2
  <2> QED BY <2>3, <2>4
<1> HIDE DEF r
<1>4. \A k, j \in 1..Len(s) :
        k < j /\ s[k].ordinal <= Top /\ s[j].ordinal <= Top => s[k].ordinal >= s[j].ordinal
  BY <1>1 DEF Good, Ordered
<1>5. ASSUME NEW j \in DOMAIN s, s[j].ordinal <= Top, j < r PROVE s[j].ordinal > o
  <2>1. r - 1 \in 1..(i - 1) /\ ~HasText(c, r - 1) /\ At(c, r - 1).ordinal > o
    BY <1>1, <1>3, <1>5
  <2>2. r - 1 \in 1..Len(s) /\ s[r - 1].ordinal > o /\ s[r - 1].ordinal <= Top
    BY <1>1, <2>1 DEF HasText
  <2>3. j = r - 1 \/ j < r - 1
    BY <1>1, <1>3, <1>5
  <2> QED BY <1>1, <1>4, <1>5, <2>2, <2>3
<1>6. ASSUME NEW j \in DOMAIN s, s[j].ordinal <= Top, j >= r PROVE s[j].ordinal <= o
  <2>1. CASE j >= i
    BY <1>6, <2>1
  <2>2. CASE j < i
    <3>1. j \in 1..(i - 1) /\ At(c, j) = s[j] /\ s[j].ordinal \in Nat
      BY <1>1, <2>2
    <3>2. ~HasText(c, j)
      BY <1>1, <1>6, <3>1 DEF HasText
    <3>3. j \notin S
      BY <1>1, <1>3, <1>6
    <3> QED BY <1>1, <3>1, <3>2, <3>3
  <2> QED BY <1>1, <2>1, <2>2
<1> QED BY <1>3, <1>5, <1>6 DEF r

\* What an element's place is for: there is room, and where it goes is still open or fits.
Offered(c, n, p) ==
  /\ Rests(c, p.cursor) /\ p = Answer(p.ok, p.ordinal, p.at, p.cursor)
  /\ p.ok => /\ Belongs(p.ordinal, n) /\ Room(c.nodes, n, p.ordinal)
             /\ p.at = 0 \/ FitsAt(c.nodes, p.at, p.ordinal)

\* The nodes of one ordinal are in a row, text aside.
LEMMA RowIs ==
  ASSUME NEW c, Good(c), NEW o \in 1..Top, NEW it, it = FuzzyLowerBound(c, o),
         At(c, it).ordinal = o
  PROVE  LET first == 1 + Max({0} \union {j \in 1..(it - 1) : ~HasText(c, j) /\ At(c, j).ordinal # o})
             past == Min({j \in it..End(c) : ~HasText(c, j) /\ At(c, j).ordinal # o})
             like == {j \in first..(past - 1) : At(c, j).ordinal = o}
         IN  /\ first \in 1..End(c) /\ Rests(c, past)
             /\ like = Where(c.nodes, Placed(o))
             /\ FitsAt(c.nodes, 1 + Max(like), o)
<1> DEFINE F == {j \in 1..(it - 1) : ~HasText(c, j) /\ At(c, j).ordinal # o}
           P == {j \in it..End(c) : ~HasText(c, j) /\ At(c, j).ordinal # o}
           first == 1 + Max({0} \union F)
           past == Min(P)
           like == {j \in first..(past - 1) : At(c, j).ordinal = o}
           s == c.nodes
<1>1. /\ s \in Seq(Node) /\ Len(s) \in Nat /\ DOMAIN s = 1..Len(s) /\ End(c) = Len(s) + 1
      /\ \A j \in 1..Len(s) : At(c, j) = s[j] /\ s[j] \in Node /\ s[j].ordinal \in Nat
      /\ At(c, End(c)).ordinal = 0 /\ ~HasText(c, End(c))
      /\ Top \in Nat /\ o \in Nat
  <2>1. s \in Seq(Node) /\ Top \in Nat
    BY Schema DEF Good, Ordered
  <2>2. /\ \A j \in 1..Len(s) : At(c, j) = s[j] /\ s[j] \in Node
        /\ DOMAIN s = 1..Len(s) /\ End(c) = Len(s) + 1 /\ Len(s) \in Nat /\ ~HasText(c, End(c))
    BY <2>1, AtIs
  <2>3. \A j \in 1..Len(s) : s[j].ordinal \in Nat
    BY <2>1, <2>2 DEF Node, Ordinals
  <2>4. End(c) \notin 1..Len(s)
    BY <2>2
  <2>5. At(c, End(c)) = Terminator
    BY <2>1, <2>4, AtIs
  <2> QED BY <2>1, <2>2, <2>3, <2>5, TextIs
<1>2. \A k, j \in 1..Len(s) :
        k < j /\ s[k].ordinal <= Top /\ s[j].ordinal <= Top => s[k].ordinal >= s[j].ordinal
  BY <1>1 DEF Good, Ordered
<1>3. /\ Rests(c, it)
      /\ \A j \in DOMAIN s : s[j].ordinal <= Top => /\ j < it => s[j].ordinal >= o
                                                    /\ j >= it => s[j].ordinal <= o
  <2>1. o \in 0..Top
    BY <1>1
  <2>2. LET l == FuzzyLowerBound(c, o)
        IN  /\ Rests(c, l)
            /\ \A j \in DOMAIN s : s[j].ordinal <= Top =>
                 /\ j < l => s[j].ordinal >= o
                 /\ j >= l => s[j].ordinal <= At(c, l).ordinal
    BY <2>1, LowerBoundIs
  <2> QED BY <2>2
<1>4. it \in 1..Len(s)
  <2>1. it # End(c)
    BY <1>1
  <2> QED BY <1>1, <1>3, <2>1 DEF Rests
<1>5. /\ first \in 1..it /\ (\A j \in F : j < first) /\ (first = 1 \/ first - 1 \in F)
  <2>1. F \in SUBSET (1..(it - 1)) /\ it \in Nat \ {0}
    BY <1>1, <1>4
  <2> HIDE DEF F
  <2>2. /\ first \in 1..it /\ \A j \in F : j < first
        /\ first = 1 \/ Max({0} \union F) \in F
    BY <2>1, LastIs
  <2>3. ASSUME Max({0} \union F) \in F PROVE first - 1 = Max({0} \union F)
    <3>1. \A y \in F : y \in Nat
      BY <2>1
    <3>2. Max({0} \union F) \in Nat
      BY <2>3, <3>1
    <3> QED BY <3>2
  <2> QED BY <2>2, <2>3
<1>6. /\ past \in it..End(c) /\ Rests(c, past) /\ At(c, past).ordinal # o
      /\ \A j \in it..End(c) : j < past => HasText(c, j) \/ At(c, j).ordinal = o
  <2>1. End(c) \in P /\ P \in SUBSET Nat
    BY <1>1, <1>4
  <2> DEFINE Q == P
  <2>2. past \in Q /\ \A x \in Q : past <= x
    <3> HIDE DEF P
    <3> QED BY <2>1, MinIs
  <2>3. past \in it..End(c) /\ ~HasText(c, past) /\ At(c, past).ordinal # o
    BY <2>2
  <2>4. ASSUME NEW j \in it..End(c), j < past PROVE HasText(c, j) \/ At(c, j).ordinal = o
    <3>1. j \notin Q
      BY <1>1, <1>4, <2>2, <2>3, <2>4
    <3> QED BY <3>1
  <2> HIDE DEF past
  <2> QED BY <1>1, <1>4, <2>3, <2>4 DEF Rests
<1> HIDE DEF first, past
<1>7. ASSUME NEW j \in 1..Len(s), s[j].ordinal = o PROVE j \in first..(past - 1)
  <2>1. s[j].ordinal <= Top
    BY <1>7
  <2>2. j >= first
    <3> SUFFICES ASSUME j < first PROVE FALSE
      BY <1>1, <1>5
    <3>1. first - 1 \in F
      BY <1>1, <1>5, <1>7
    <3>2. first - 1 \in 1..Len(s) /\ s[first - 1].ordinal # o /\ s[first - 1].ordinal <= Top
          /\ first - 1 < it
      BY <1>1, <1>4, <3>1 DEF HasText
    <3>3. j < first - 1
      BY <1>1, <1>5, <1>7, <3>2
    <3>4. s[first - 1].ordinal >= o
      BY <1>1, <1>3, <3>2
    <3>5. o >= s[first - 1].ordinal
      BY <1>2, <1>7, <2>1, <3>2, <3>3
    <3> QED BY <1>1, <3>2, <3>4, <3>5
  <2>3. j < past
    <3> SUFFICES ASSUME j >= past PROVE FALSE
      BY <1>1, <1>4, <1>6
    <3>1. past \in 1..Len(s) /\ s[past].ordinal # o /\ s[past].ordinal <= Top /\ past >= it
      BY <1>1, <1>4, <1>6 DEF Rests, HasText
    <3>2. j > past
      BY <1>1, <1>7, <3>1
    <3>3. s[past].ordinal <= o
      BY <1>1, <1>3, <3>1
    <3>4. s[past].ordinal >= o
      BY <1>2, <1>7, <2>1, <3>1, <3>2
    <3> QED BY <1>1, <3>1, <3>3, <3>4
  <2> QED BY <1>1, <1>4, <1>5, <1>6, <2>2, <2>3
<1>8. \A j \in first..(past - 1) : j \in 1..Len(s)
  BY <1>1, <1>4, <1>5, <1>6
<1>9. like = Where(s, Placed(o))
  BY <1>1, <1>7, <1>8 DEF Where, Placed
<1>10. Max(like) \in 1..Len(s) /\ s[Max(like)].ordinal = o /\ \A j \in like : j <= Max(like)
  <2>1. it \in like
    <3>1. At(c, it) = s[it]
      BY <1>1, <1>4
    <3> QED BY <1>4, <1>7, <3>1
  <2>2. like \in SUBSET (1..Len(s)) /\ \A j \in like : s[j].ordinal = o
    BY <1>1, <1>8
  <2> HIDE DEF like
  <2>3. like \in SUBSET Nat /\ like # {} /\ \A j \in like : j <= Len(s)
    BY <1>1, <2>1, <2>2
  <2>4. Max(like) \in like /\ \A j \in like : j <= Max(like)
    BY <1>1, <2>3, MaxIs
  <2> QED BY <2>2, <2>4
<1> DEFINE m == Max(like)
<1>11. FitsAt(s, 1 + m, o)
  <2>1. m \in 1..Len(s) /\ s[m].ordinal = o /\ s[m].ordinal <= Top
    BY <1>1, <1>10
  <2> HIDE DEF m, like
  <2>2. ASSUME NEW j \in DOMAIN s, s[j].ordinal <= Top
        PROVE  /\ j < 1 + m => s[j].ordinal >= o
               /\ j >= 1 + m => s[j].ordinal <= o
    <3>1. j = m \/ j < m \/ j > m
      BY <1>1, <2>1
    <3>2. CASE j = m
      BY <1>1, <2>1, <3>2
    <3>3. CASE j < m
      <4>1. s[j].ordinal >= s[m].ordinal
        BY <1>1, <1>2, <2>1, <2>2, <3>3
      <4> QED BY <1>1, <2>1, <3>3, <4>1
    <3>4. CASE j > m
      <4>1. s[m].ordinal >= s[j].ordinal
        BY <1>1, <1>2, <2>1, <2>2, <3>4
      <4> QED BY <1>1, <2>1, <3>4, <4>1
    <3> QED BY <3>1, <3>2, <3>3, <3>4
  <2> QED BY <1>1, <2>1, <2>2 DEF FitsAt
<1>12. first \in 1..End(c)
  BY <1>1, <1>4, <1>5
<1> QED BY <1>6, <1>9, <1>11, <1>12 DEF first, past

LEMMA PlaceElementIs ==
  ASSUME NEW c, Good(c), NEW n, NEW o, Belongs(o, n)
  PROVE  LET p == PlaceElement(c, n, c.count[n], o)
         IN  Offered(c, n, p) /\ p.ordinal = o
<1> DEFINE it == FuzzyLowerBound(c, o)
           s == c.nodes
           count == c.count[n]
           first == 1 + Max({0} \union {j \in 1..(it - 1) : ~HasText(c, j) /\ At(c, j).ordinal # o})
           past == Min({j \in it..End(c) : ~HasText(c, j) /\ At(c, j).ordinal # o})
           like == {j \in first..(past - 1) : At(c, j).ordinal = o}
           p == PlaceElement(c, n, count, o)
<1>1. o \in 1..Top /\ o \in 0..Top /\ o > 0 /\ n \in Named /\ MaxOccurs[n] \in Nat \ {0} /\ Top \in Nat
  <2>1. o \in 1..Top /\ Top \in Nat
    BY BelongsRange, Schema
  <2>2. n \in Named /\ MaxOccurs[n] \in Nat \ {0}
    BY ContentsAssumption DEF Belongs
  <2> QED BY <2>1, <2>2
<1>2. s \in Seq(Node) /\ Len(s) \in Nat /\ DOMAIN s = 1..Len(s) /\ End(c) = Len(s) + 1
      /\ \A j \in 1..Len(s) : s[j] \in Node /\ NodeFits(s[j])
  BY AtIs DEF Good, Ordered
<1>3. /\ Rests(c, it) /\ At(c, it).ordinal <= o /\ At(c, it).ordinal \in Nat
      /\ \A j \in DOMAIN s :
           s[j].ordinal <= Top => /\ j < it => s[j].ordinal >= o
                                  /\ j >= it => s[j].ordinal <= At(c, it).ordinal
      /\ At(c, it).ordinal # o => \A j \in DOMAIN s : s[j].ordinal # o
  BY <1>1, LowerBoundIs
<1>4. p = IF count < MaxOccurs[n] THEN Answer(TRUE, o, 0, c.cursor)
          ELSE IF At(c, it).ordinal # o
            THEN Answer(TRUE, o, Rewound(c, it, At(c, it).ordinal), it)
          ELSE IF MaxOccurs[n] = 1 THEN Answer(FALSE, o, 0, it)
          ELSE IF Cardinality(like) < MaxOccurs[n]
            THEN Answer(TRUE, o, 1 + Max(like), Skipping(c, first))
          ELSE Answer(FALSE, o, 0, past)
  BY DEF PlaceElement
<1>5. Cardinality(Where(s, Placed(o))) \in Nat /\ Cardinality(Where(s, Called(n))) \in Nat
  BY <1>2, WhereFinite
<1> HIDE DEF p, like, first, past, it
<1>12. p = Answer(p.ok, p.ordinal, p.at, p.cursor)
  BY <1>4 DEF Answer
<1>6. CASE count < MaxOccurs[n]
  <2>1. p.ok /\ p.ordinal = o /\ p.at = 0 /\ p.cursor = c.cursor
    BY <1>4, <1>6 DEF Answer
  <2>2. Where(s, Placed(o)) \in SUBSET Where(s, Called(n))
    <3> SUFFICES ASSUME NEW j \in Where(s, Placed(o)) PROVE j \in Where(s, Called(n))
      OBVIOUS
    <3>1. j \in DOMAIN s /\ j \in 1..Len(s) /\ s[j] \in Node /\ s[j].ordinal = o /\ NodeFits(s[j])
      BY <1>2 DEF Where, Placed
    <3>2. Belongs(o, s[j].name)
      BY <1>1, <3>1 DEF NodeFits
    <3>3. s[j].name = n
      BY <3>2, BelongsOnce
    <3> QED BY <3>1, <3>3 DEF Where, Called
  <2>3. Cardinality(Where(s, Placed(o))) <= Cardinality(Where(s, Called(n)))
    BY <1>2, <2>2, WhereFinite, FS_Subset
  <2>4. count = Cardinality(Where(s, Called(n)))
    BY <1>1 DEF Good, Names
  <2>5. Cardinality(Where(s, Placed(o))) < MaxOccurs[n]
    BY <1>1, <1>5, <1>6, <2>3, <2>4
  <2>6. Rests(c, c.cursor)
    BY DEF Good
  <2> QED BY <1>12, <2>1, <2>5, <2>6 DEF Offered, Room, p
<1>7. CASE ~(count < MaxOccurs[n]) /\ At(c, it).ordinal # o
  <2> DEFINE a == At(c, it).ordinal
             r == Rewound(c, it, a)
  <2>1. p.ok /\ p.ordinal = o /\ p.at = r /\ p.cursor = it
    BY <1>4, <1>7 DEF Answer
  <2>2. it \in 1..End(c) /\ a \in Nat /\ a < o
    BY <1>1, <1>3, <1>7 DEF Rests
  <2> HIDE DEF a
  <2>3. \A j \in DOMAIN s : j >= it /\ s[j].ordinal <= Top => s[j].ordinal <= a
    BY <1>3 DEF a
  <2>4. /\ r \in 1..it
        /\ \A j \in DOMAIN s : s[j].ordinal <= Top => /\ j < r => s[j].ordinal > a
                                                      /\ j >= r => s[j].ordinal <= a
    BY <2>2, <2>3, RewoundIs
  <2> HIDE DEF r
  <2>5. FitsAt(s, r, o)
    <3>1. r \in 1..(Len(s) + 1) /\ r <= it /\ r \in Nat /\ it \in Nat
      BY <1>2, <2>2, <2>4
    <3>2. ASSUME NEW j \in DOMAIN s, s[j].ordinal <= Top
          PROVE  (j < r => s[j].ordinal >= o) /\ (j >= r => s[j].ordinal <= o)
      <4>1. j \in Nat
        BY <1>2
      <4>2. s[j].ordinal \in Nat
        BY <1>1, <1>2 DEF Node, Ordinals
      <4>3. j < r => s[j].ordinal >= o
        BY <1>3, <3>1, <3>2, <4>1
      <4>4. j >= r => s[j].ordinal <= o
        BY <1>1, <2>2, <2>4, <3>2, <4>2
      <4> QED BY <4>3, <4>4
    <3> QED BY <3>1, <3>2 DEF FitsAt
  <2>6. Where(s, Placed(o)) = {}
    BY <1>3, <1>7 DEF Where, Placed
  <2>7. Cardinality(Where(s, Placed(o))) < MaxOccurs[n]
    BY <1>1, <2>6, FS_EmptySet
  <2> QED BY <1>3, <1>12, <2>1, <2>5, <2>7 DEF Offered, Room, p
<1>8. CASE ~(count < MaxOccurs[n]) /\ At(c, it).ordinal = o /\ MaxOccurs[n] = 1
  <2>1. ~p.ok /\ p.ordinal = o /\ p.cursor = it
    BY <1>4, <1>8 DEF Answer
  <2> QED BY <1>3, <1>12, <2>1 DEF Offered, p
<1>9. ASSUME At(c, it).ordinal = o
      PROVE  /\ first \in 1..End(c) /\ Rests(c, past)
             /\ like = Where(s, Placed(o))
             /\ FitsAt(s, 1 + Max(like), o)
  BY <1>1, <1>9, RowIs DEF first, past, like, it
<1>10. CASE /\ ~(count < MaxOccurs[n]) /\ At(c, it).ordinal = o /\ MaxOccurs[n] # 1
            /\ Cardinality(like) < MaxOccurs[n]
  <2>1. p.ok /\ p.ordinal = o /\ p.at = 1 + Max(like) /\ p.cursor = Skipping(c, first)
    BY <1>4, <1>10 DEF Answer
  <2>2. Rests(c, Skipping(c, first))
    BY <1>2, <1>9, <1>10, SkippingRests
  <2> QED BY <1>9, <1>10, <1>12, <2>1, <2>2 DEF Offered, Room, p
<1>11. CASE /\ ~(count < MaxOccurs[n]) /\ At(c, it).ordinal = o /\ MaxOccurs[n] # 1
            /\ ~(Cardinality(like) < MaxOccurs[n])
  <2>1. ~p.ok /\ p.ordinal = o /\ p.cursor = past
    BY <1>4, <1>11 DEF Answer
  <2> QED BY <1>9, <1>11, <1>12, <2>1 DEF Offered, p
<1> QED BY <1>6, <1>7, <1>8, <1>10, <1>11

LEMMA PlaceElementRange ==
  ASSUME NEW c, c \in Array, NEW x \in 1..End(c), NEW n, NEW count, NEW o \in Nat \ {0}
  PROVE  PlaceElement([c EXCEPT !.cursor = x], n, count, o).cursor \in 1..End(c)
<1> DEFINE d == [c EXCEPT !.cursor = x]
           it == FuzzyLowerBound(d, o)
           F == {j \in 1..(it - 1) : ~HasText(d, j) /\ At(d, j).ordinal # o}
           P == {j \in it..End(d) : ~HasText(d, j) /\ At(d, j).ordinal # o}
           first == 1 + Max({0} \union F)
           past == Min(P)
           like == {j \in first..(past - 1) : At(d, j).ordinal = o}
           p == PlaceElement(d, n, count, o)
<1>1. d.nodes = c.nodes /\ d.cursor = x /\ d.nodes \in Seq(Node)
  BY DEF Array
<1> HIDE DEF d
<1>2. End(d) = End(c) /\ End(d) \in Nat /\ ~HasText(d, End(d)) /\ At(d, End(d)).ordinal = 0
  <2>1. End(d) = Len(d.nodes) + 1 /\ Len(d.nodes) \in Nat /\ ~HasText(d, End(d))
    BY <1>1, AtIs
  <2>2. End(d) \notin 1..Len(d.nodes)
    BY <2>1
  <2>3. At(d, End(d)) = Terminator
    BY <1>1, <2>2, AtIs
  <2> QED BY <1>1, <2>1, <2>3, TextIs DEF End
<1>3. it \in 1..End(d)
  BY <1>1, <1>2, LowerBoundRange
<1> HIDE DEF it
<1>4. first \in 1..it
  <2>1. F \in SUBSET (1..(it - 1)) /\ it \in Nat \ {0}
    BY <1>2, <1>3
  <2> HIDE DEF F
  <2> QED BY <2>1, LastIs
<1>5. past \in 1..End(d)
  <2>1. End(d) \in P /\ P \in SUBSET Nat
    BY <1>2, <1>3
  <2> DEFINE Q == P
  <2>2. past \in Q
    <3> HIDE DEF P
    <3> QED BY <2>1, MinIs
  <2> HIDE DEF past
  <2> QED BY <1>2, <1>3, <2>2
<1>6. Skipping(d, first) \in 1..End(d)
  <2>1. first \in 1..End(d)
    BY <1>2, <1>3, <1>4
  <2> HIDE DEF first
  <2> QED BY <1>1, <2>1, SkippingRests DEF Rests
<1>7. p = IF count < MaxOccurs[n] THEN Answer(TRUE, o, 0, d.cursor)
          ELSE IF At(d, it).ordinal # o
            THEN Answer(TRUE, o, Rewound(d, it, At(d, it).ordinal), it)
          ELSE IF MaxOccurs[n] = 1 THEN Answer(FALSE, o, 0, it)
          ELSE IF Cardinality(like) < MaxOccurs[n]
            THEN Answer(TRUE, o, 1 + Max(like), Skipping(d, first))
          ELSE Answer(FALSE, o, 0, past)
  BY DEF PlaceElement, it
<1> HIDE DEF p, first, past, like
<1>8. p.cursor = d.cursor \/ p.cursor = it \/ p.cursor = Skipping(d, first) \/ p.cursor = past
  BY <1>7 DEF Answer
<1>9. p.cursor \in 1..End(c)
  BY <1>1, <1>2, <1>3, <1>5, <1>6, <1>8
<1> QED BY <1>9 DEF p, d

\* Along the occurrences of the schema's sequence, from the first down.
LEMMA PlaceFromIs ==
  ASSUME NEW c, Good(c), NEW n \in Named, NEW a \in Nat
  PROVE  Offered(c, n, PlaceFrom(c, n, c.count[n], a))
<1> PICK count : count = c.count[n]
  OBVIOUS
<1> PICK N : N = Len(Order)
  OBVIOUS
<1> PICK E : E = 1..End(c)
  OBVIOUS
<1> DEFINE S == Nat \ {0}
           own(q) == q * N - Position(n) + 1
           try(q, x) == PlaceElement([c EXCEPT !.cursor = x], n, count, own(q))
           none(x) == Answer(FALSE, 0, 0, x)
           X == {try(q, x) : q \in S, x \in E} \union {none(x) : x \in E}
           V == [E -> X]
           far(q) == q - ((q * N - a) \div N) - 1
           to(q) == IF q * N - N > a THEN far(q) ELSE q - 1
           base == [x \in E |-> none(x)]
           answer(q, x, v, w) ==
             IF q <= 0 THEN none(x)
             ELSE IF q * N - N > a THEN v[x]
             ELSE IF own(q) - 1 > a THEN w[x]
             ELSE IF try(q, x).ok THEN try(q, x)
             ELSE w[try(q, x).cursor]
           row(q, v) == [x \in E |-> answer(q, x, v, v)]
           body(h, q) == [x \in E |-> answer(q, x, h[far(q)], h[q - 1])]
<1>1. N \in Nat \ {0} /\ Position(n) \in 1..N
  BY Schema
<1>2. \A q \in S : own(q) \in Nat \ {0}
  <2> SUFFICES ASSUME NEW q \in S PROVE own(q) \in Nat \ {0}
    OBVIOUS
  <2>1. 1 \in Nat /\ q \in Nat /\ 1 <= q /\ N \in Nat
    BY <1>1
  <2>2. q * N \in Nat /\ 1 * N <= q * N
    BY <2>1, Multiples
  <2>3. 1 * N = N
    BY <1>1
  <2> QED BY ONLY <1>1, <2>2, <2>3
<1>3. ASSUME NEW q \in S PROVE to(q) \in Int /\ to(q) < q
  <2>1. q \in Nat /\ q - 1 \in Int /\ q - 1 < q
    OBVIOUS
  <2>2. q * N \in Nat
    BY <1>1, <2>1
  <2>3. ASSUME q * N - N > a PROVE far(q) \in Int /\ far(q) < q
    <3>1. q * N - a \in Nat
      BY ONLY <1>1, <2>2, <2>3, a \in Nat
    <3>2. (q * N - a) \div N \in Nat
      <4>1. PICK y : y = q * N - a
        OBVIOUS
      <4>2. y \div N \in Nat
        BY <1>1, <3>1, <4>1
      <4> QED BY <4>1, <4>2
    <3> QED BY <2>1, <3>2
  <2> QED BY <2>1, <2>3
<1>4. c \in Array /\ c.nodes \in Seq(Node)
  BY DEF Good, Ordered
<1>5. ASSUME NEW q \in S, NEW x \in E PROVE try(q, x).cursor \in E /\ try(q, x) \in X
  <2>1. own(q) \in Nat \ {0}
    BY <1>2
  <2>2. try(q, x).cursor \in E
    <3> HIDE DEF own
    <3> QED BY <1>4, <2>1, PlaceElementRange
  <2>3. try(q, x) \in X
    <3> HIDE DEF own, try, none
    <3> QED OBVIOUS
  <2> HIDE DEF try, X
  <2> QED BY <2>2, <2>3
<1>6. \A x \in E : none(x) \in X
  <2> HIDE DEF own, try, none
  <2> QED OBVIOUS
<1>7. \A q \in S : q > 0 /\ ~(q <= 0)
  OBVIOUS
<1> HIDE DEF own, try, none, X, far
<1>8. base \in V
  BY <1>6
<1>9. \A q \in S : \A v \in V : row(q, v) \in V
  <2> TAKE q \in S
  <2> TAKE v \in V
  <2>1. \A x \in E : answer(q, x, v, v) \in X
    BY <1>5, <1>6
  <2> HIDE DEF answer
  <2> QED BY <2>1
<1> DEFINE next == [q \in S |-> to(q)]
           G == [q \in S |-> [v \in V |-> row(q, v)]]
           B == [q \in S |-> row(q, base)]
<1>10. G \in [S -> [V -> V]] /\ B \in [S -> V]
  <2> HIDE DEF S, V, row, base
  <2> QED BY <1>8, <1>9
<1>11. Ends(S, next)
  <2> SUFFICES ASSUME NEW T \in SUBSET S, T # {} PROVE \E q \in T : next[q] \notin T
    BY DEF Ends
  <2>1. T \in SUBSET Nat
    OBVIOUS
  <2>2. PICK q \in T : \A j \in T : q <= j
    BY <2>1, SmallestOf
  <2>3. q \in S /\ q \in Nat
    BY <2>1
  <2>4. to(q) \in Int /\ to(q) < q
    BY <1>3, <2>3
  <2> HIDE DEF to, S
  <2>5. next[q] = to(q)
    BY <2>3
  <2>6. to(q) \notin T
    BY <2>2, <2>3, <2>4
  <2> QED BY <2>5, <2>6
<1>12. PICK f \in [S -> V] : Along(S, next, G, B, f)
  <2> HIDE DEF S, V, next, G, B
  <2> QED BY <1>10, <1>11, RecursionAlong
<1> DEFINE g == [q \in Int |-> IF q \in S THEN f[q] ELSE base]
<1>13. \A q \in S : \A v, w, z : (q * N - N > a => z = v) /\ (~(q * N - N > a) => z = w)
                          => [x \in E |-> answer(q, x, v, w)] = row(q, z)
  OBVIOUS
<1>14. \A q \in S : g[q] = row(q, g[to(q)])
  <2> TAKE q \in S
  <2>1. next[q] = to(q) /\ to(q) \in Int
    <3>1. to(q) \in Int
      BY <1>3
    <3> HIDE DEF to, S
    <3> QED BY <3>1
  <2>2. f[q] = IF to(q) \in S THEN G[q][f[to(q)]] ELSE B[q]
    <3> HIDE DEF S, V, next, G, B, to
    <3> QED BY <1>12, <2>1 DEF Along
  <2>3. g[q] = f[q] /\ g[to(q)] = IF to(q) \in S THEN f[to(q)] ELSE base
    <3>1. q \in Int
      OBVIOUS
    <3> HIDE DEF S, base, to
    <3> QED BY <2>1, <3>1
  <2>4. B[q] = row(q, base) /\ \A v \in V : G[q][v] = row(q, v)
    <3> HIDE DEF S, base, V, row
    <3> QED OBVIOUS
  <2>5. to(q) \in S => f[to(q)] \in V
    <3> HIDE DEF S, V, to
    <3> QED OBVIOUS
  <2> HIDE DEF S, base, V, row, to, g, G, B
  <2> QED BY <2>2, <2>3, <2>4, <2>5
<1>15. \A q \in Int : g[q] = body(g, q)
  <2> TAKE q \in Int
  <2>1. CASE q \in S
    <3>1. g[q] = row(q, g[to(q)])
      BY <1>14, <2>1
    <3>2. (q * N - N > a => to(q) = far(q)) /\ (~(q * N - N > a) => to(q) = q - 1)
      OBVIOUS
    <3>3. (q * N - N > a => g[to(q)] = g[far(q)]) /\ (~(q * N - N > a) => g[to(q)] = g[q - 1])
      <4> HIDE DEF g, to
      <4> QED BY <3>2
    <3>4. body(g, q) = row(q, g[to(q)])
      <4> HIDE DEF g, to, answer
      <4> QED BY <1>13, <2>1, <3>3
    <3> QED BY <3>1, <3>4
  <2>2. CASE q \notin S
    <3>1. q <= 0
      BY <2>2
    <3>2. g[q] = base
      <4> HIDE DEF S, base
      <4> QED BY <2>2
    <3>3. \A v, w, x : answer(q, x, v, w) = none(x)
      BY <3>1
    <3>4. body(g, q) = base
      <4> HIDE DEF g, answer
      <4> QED BY <3>3
    <3> QED BY <3>2, <3>4
  <2> QED BY <2>1, <2>2
<1>16. g = [q \in Int |-> body(g, q)]
  <2> DEFINE b(q) == body(g, q)
  <2>1. \A q \in Int : g[q] = b(q)
    BY <1>15
  <2>2. g = [q \in Int |-> g[q]]
    <3> HIDE DEF S, base
    <3> QED OBVIOUS
  <2> HIDE DEF g, body
  <2> QED BY <2>1, <2>2
<1> DEFINE h == CHOOSE y : y = [q \in Int |-> body(y, q)]
<1>17. h = [q \in Int |-> body(h, q)]
  <2>1. \E y : y = [q \in Int |-> body(y, q)]
    <3> HIDE DEF g, body
    <3> QED BY <1>16
  <2> HIDE DEF body
  <2> QED BY <2>1
<1>18. PlaceFrom(c, n, count, a) = h[Cycles][c.cursor]
  BY DEF PlaceFrom, own, try, none, far
<1> HIDE DEF h
<1> DEFINE P(q) == \A x \in E : ~HasText(c, x) => Offered(c, n, h[q][x])
<1>19. ASSUME NEW q \in Int PROVE \A x \in E : h[q][x] = answer(q, x, h[far(q)], h[q - 1])
  <2>1. h[q] = body(h, q)
    <3> HIDE DEF body
    <3> QED BY <1>17
  <2> HIDE DEF answer
  <2> QED BY <2>1
<1>20. ASSUME NEW q \in Int, q <= 0 PROVE P(q)
  <2> SUFFICES ASSUME NEW x \in E, ~HasText(c, x) PROVE Offered(c, n, h[q][x])
    OBVIOUS
  <2>1. h[q][x] = none(x)
    BY <1>19, <1>20
  <2>2. /\ ~none(x).ok /\ none(x).cursor = x
        /\ none(x) = Answer(none(x).ok, none(x).ordinal, none(x).at, none(x).cursor)
    BY DEF none, Answer
  <2> QED BY <2>1, <2>2 DEF Offered, Rests
<1>21. ASSUME NEW q \in 1..Cycles, P(to(q)) PROVE P(q)
  <2> SUFFICES ASSUME NEW x \in E, ~HasText(c, x) PROVE Offered(c, n, h[q][x])
    OBVIOUS
  <2>1. q \in S /\ q \in Int /\ ~(q <= 0)
    BY ContentsAssumption
  <2>2. h[q][x] = answer(q, x, h[far(q)], h[q - 1])
    BY <1>19, <2>1
  <2>3. Offered(c, n, h[to(q)][x])
    BY <1>21
  <2>4. CASE q * N - N > a
    BY <2>1, <2>2, <2>3, <2>4
  <2>5. CASE ~(q * N - N > a) /\ own(q) - 1 > a
    BY <2>1, <2>2, <2>3, <2>5
  <2>6. CASE ~(q * N - N > a) /\ ~(own(q) - 1 > a)
    <3> DEFINE d == [c EXCEPT !.cursor = x]
    <3>1. Rests(c, x)
      BY DEF Rests
    <3>2. Good(d) /\ d.nodes = c.nodes /\ d.count = c.count
      BY <3>1, Cursored
    <3>3. Belongs(own(q), n)
      BY DEF Belongs, own
    <3>4. try(q, x) = PlaceElement(d, n, d.count[n], own(q))
      <4> HIDE DEF d
      <4> QED BY <3>2 DEF try, d
    <3> HIDE DEF d
    <3>5. Offered(d, n, try(q, x))
      BY <3>2, <3>3, <3>4, PlaceElementIs
    <3>6. Offered(c, n, try(q, x))
      BY <3>2, <3>5 DEF Offered, Rests, HasText, At, End
    <3>7. CASE try(q, x).ok
      BY <2>1, <2>2, <2>6, <3>6, <3>7
    <3>8. CASE ~try(q, x).ok
      <4>1. try(q, x).cursor \in E /\ ~HasText(c, try(q, x).cursor)
        BY <3>6 DEF Offered, Rests
      <4>2. Offered(c, n, h[to(q)][try(q, x).cursor])
        BY <1>21, <4>1
      <4> QED BY <2>1, <2>2, <2>6, <3>8, <4>2
    <3> QED BY <3>7, <3>8
  <2> QED BY <2>4, <2>5, <2>6
<1> HIDE DEF P, answer
<1>22. P(Cycles)
  <2> DEFINE D == {q \in 1..Cycles : ~P(q)}
  <2>1. Cycles \in 1..Cycles /\ 1..Cycles \in SUBSET S
    BY ContentsAssumption
  <2> SUFFICES ASSUME D # {} PROVE FALSE
    BY <2>1
  <2>2. D \in SUBSET S
    BY <2>1
  <2>3. PICK q \in D : next[q] \notin D
    <3> HIDE DEF D, S, next
    <3> QED BY <1>11, <2>2 DEF Ends
  <2>4. q \in 1..Cycles /\ ~P(q) /\ q \in S
    BY <2>1
  <2>5. to(q) \in Int /\ to(q) < q
    BY <1>3, <2>4
  <2>6. next[q] = to(q)
    <3> HIDE DEF S, to
    <3> QED BY <2>4
  <2>7. P(to(q))
    <3>1. to(q) <= 0 \/ to(q) \in 1..Cycles
      <4> HIDE DEF to
      <4> QED BY <2>4, <2>5, ContentsAssumption
    <3>2. to(q) \notin D
      BY <2>3, <2>6
    <3> HIDE DEF to
    <3> QED BY <1>20, <2>5, <3>1, <3>2
  <2> QED BY <1>21, <2>4, <2>7
<1>23. c.cursor \in E /\ ~HasText(c, c.cursor)
  BY DEF Good, Rests
<1> QED BY <1>18, <1>22, <1>23 DEF P

\* The place of a name, or the back where there is none.
LEMMA PlacementIs ==
  ASSUME NEW c, Good(c), NEW n \in Names
  PROVE  LET p == Placement(c, n)
         IN  /\ Rests(c, p.cursor) /\ p.ordinal \in 0..Top
             /\ Room(c.nodes, n, p.ordinal) /\ FitsAt(c.nodes, p.at, p.ordinal)
<1> DEFINE p == PlaceBetween(c, n, c.count[n], 2 * Top)
           s == c.nodes
<1>1. s \in Seq(Node) /\ DOMAIN s = 1..Len(s) /\ Len(s) \in Nat /\ End(c) = Len(s) + 1
      /\ Top \in Nat /\ 2 * Top \in Nat
  <2>1. s \in Seq(Node) /\ Top \in Nat
    BY Schema DEF Good, Ordered
  <2> QED BY <2>1, AtIs
<1>2. Offered(c, n, p)
  <2>1. CASE n \in Named
    <3>1. p = PlaceFrom(c, n, c.count[n], 2 * Top)
      BY <2>1 DEF PlaceBetween
    <3>2. Offered(c, n, PlaceFrom(c, n, c.count[n], 2 * Top))
      BY <1>1, <2>1, PlaceFromIs
    <3> QED BY <3>1, <3>2
  <2>2. CASE n \notin Named
    <3>1. p = Answer(FALSE, 0, 0, c.cursor)
      BY <2>2 DEF PlaceBetween
    <3>2. ~p.ok /\ p.cursor = c.cursor /\ p = Answer(p.ok, p.ordinal, p.at, p.cursor)
      BY <3>1 DEF Answer
    <3> QED BY <3>2 DEF Offered, Good
  <2> QED BY <2>1, <2>2
<1>3. Placement(c, n) = IF ~p.ok THEN [p EXCEPT !.ordinal = 0, !.at = End(c)]
                        ELSE IF p.at = 0 THEN [p EXCEPT !.at = UpperBoundWithText(c, p.ordinal)]
                        ELSE p
  BY DEF Placement, Completed
<1> HIDE DEF p
<1> DEFINE q == Placement(c, n)
<1>4. CASE ~p.ok
  <2>1. q = [p EXCEPT !.ordinal = 0, !.at = End(c)]
    BY <1>3, <1>4
  <2>2. q.ordinal = 0 /\ q.at = End(c) /\ q.cursor = p.cursor
    BY <1>2, <2>1 DEF Offered, Answer
  <2> HIDE DEF q
  <2>3. FitsAt(s, End(c), 0)
    <3>1. \A j \in DOMAIN s : s[j].ordinal \in Nat /\ j < End(c)
      <4>1. \A j \in DOMAIN s : s[j] \in Node
        BY <1>1, ElementOfSeq
      <4> QED BY <1>1, <4>1 DEF Node, Ordinals
    <3>2. \A j \in DOMAIN s : s[j].ordinal >= 0 /\ ~(j >= End(c))
      BY <1>1, <3>1
    <3> QED BY <1>1, <3>2 DEF FitsAt
  <2>4. Room(s, n, 0)
    BY DEF Room
  <2> QED BY <1>1, <1>2, <2>2, <2>3, <2>4 DEF Offered, q
<1>5. ASSUME p.ok PROVE p.ordinal \in 1..Top /\ Room(s, n, p.ordinal)
  BY <1>2, <1>5, BelongsRange DEF Offered
<1>6. CASE p.ok /\ p.at = 0
  <2> DEFINE o == p.ordinal
             i == FuzzyLowerBound(c, o - 1)
             r == Rewound(c, i, o - 1)
  <2>1. q = [p EXCEPT !.at = r]
    BY <1>3, <1>6 DEF UpperBoundWithText
  <2>2. q.ordinal = o /\ q.at = r /\ q.cursor = p.cursor
    BY <1>2, <2>1 DEF Offered, Answer
  <2> HIDE DEF q
  <2>3. o \in 1..Top /\ o - 1 \in 0..Top /\ o - 1 \in Nat
    BY <1>1, <1>5, <1>6
  <2> HIDE DEF o
  <2>4. /\ Rests(c, i) /\ At(c, i).ordinal <= o - 1 /\ At(c, i).ordinal \in Nat
        /\ \A j \in DOMAIN s : s[j].ordinal <= Top /\ j >= i => s[j].ordinal <= At(c, i).ordinal
    BY <2>3, LowerBoundIs
  <2> HIDE DEF i
  <2>5. \A j \in DOMAIN s : s[j].ordinal \in Nat
    <3>1. \A j \in DOMAIN s : s[j] \in Node
      BY <1>1, ElementOfSeq
    <3> QED BY <1>1, <3>1 DEF Node, Ordinals
  <2>6. i \in 1..End(c) /\ \A j \in DOMAIN s : j >= i /\ s[j].ordinal <= Top => s[j].ordinal <= o - 1
    BY <1>1, <2>3, <2>4, <2>5 DEF Rests
  <2>7. /\ r \in 1..i
        /\ \A j \in DOMAIN s : s[j].ordinal <= Top => /\ j < r => s[j].ordinal > o - 1
                                                      /\ j >= r => s[j].ordinal <= o - 1
    BY <2>3, <2>6, RewoundIs
  <2> HIDE DEF r
  <2>8. FitsAt(s, r, o)
    <3>1. r \in 1..(Len(s) + 1)
      BY <1>1, <2>6, <2>7
    <3>2. \A j \in DOMAIN s : s[j].ordinal <= Top => /\ j < r => s[j].ordinal >= o
                                                     /\ j >= r => s[j].ordinal <= o
      BY <1>1, <2>3, <2>5, <2>7
    <3> QED BY <3>1, <3>2 DEF FitsAt
  <2> QED BY <1>1, <1>2, <1>5, <1>6, <2>2, <2>3, <2>8 DEF Offered, q, o
<1>7. CASE p.ok /\ p.at # 0
  <2>1. q = p
    BY <1>3, <1>7
  <2> QED BY <1>1, <1>2, <1>5, <1>7, <2>1 DEF Offered
<1> QED BY <1>4, <1>6, <1>7

LEMMA ChildNode ==
  ASSUME NEW n \in Names, NEW k \in Nat, NEW o \in 0..Top, NEW e \in BOOLEAN
  PROVE  LET x == Child(n, k, o, e)
         IN  x \in Node /\ x.name = n /\ x.index = k /\ x.ordinal = o /\ x.empty = e
<1>1. Top \in Nat
  BY Schema
<1> QED BY <1>1 DEF Child, Node, Ordinals

LEMMA AddedGood ==
  ASSUME NEW c, Good(c), NEW n \in Names, NEW e \in BOOLEAN
  PROVE  LET d == Added(c, n, e)
         IN  /\ Good(d) /\ d.failed = c.failed
             /\ Dense(c) => Dense(d)
             /\ Len(d.nodes) = Len(c.nodes) + 1
             /\ \A m \in Names : d.count[m] = IF m = n THEN c.count[m] + 1 ELSE c.count[m]
<1> DEFINE p == Placement(c, n)
<1>1. Room(c.nodes, n, p.ordinal) /\ FitsAt(c.nodes, p.at, p.ordinal) /\ p.ordinal \in 0..Top
  BY PlacementIs
<1> PICK x : x = Child(n, c.count[n], p.ordinal, e)
  OBVIOUS
<1>2. Added(c, n, e) = Inserted(c, p.at, x)
  BY DEF Added
<1> HIDE DEF p
<1> PICK i : i = p.at
  OBVIOUS
<1>3. x \in Node /\ x.name = n /\ x.index = c.count[n] /\ x.ordinal = p.ordinal
  <2>1. c.count[n] \in Nat
    BY DEF Good, Array
  <2> QED BY <1>1, <2>1, ChildNode
<1> DEFINE d == Inserted(c, i, x)
<1>4. /\ Good(d) /\ d.failed = c.failed
      /\ Dense(c) => Dense(d)
      /\ Len(d.nodes) = Len(c.nodes) + 1
      /\ \A m \in Names : d.count[m] = IF m = x.name THEN c.count[m] + 1 ELSE c.count[m]
  <2>1. /\ x.name \in Names /\ x.index = c.count[x.name]
        /\ Room(c.nodes, x.name, x.ordinal) /\ FitsAt(c.nodes, i, x.ordinal)
    BY <1>1, <1>3
  <2> HIDE DEF d
  <2> QED BY <1>3, <2>1, InsertedGood DEF d
<1> HIDE DEF d
<1>5. Added(c, n, e) = d
  BY <1>2 DEF d
<1> QED BY <1>3, <1>4, <1>5
-----------------------------------------------------------------------------
(* Resizing *)

\* As many subscripts, so many children.
LEMMA CountsSubscripts ==
  ASSUME NEW c, Good(c), NEW n \in Names, NEW T, IsFiniteSet(T), \A k \in T : Has(c.nodes, n, k)
  PROVE  Cardinality(T) <= c.count[n]
<1> DEFINE W == Where(c.nodes, Called(n))
           f == [k \in T |-> CHOOSE i \in W : c.nodes[i].index = k]
<1>1. c.nodes \in Seq(Node) /\ c.count[n] = Cardinality(W)
  BY DEF Good, Ordered
<1>2. IsFiniteSet(W)
  BY <1>1, WhereFinite
<1>3. \A i \in DOMAIN c.nodes : c.nodes[i].name = n => i \in W
  BY <1>1, AtIs DEF Where, Called
<1>4. ASSUME NEW k \in T PROVE f[k] \in W /\ c.nodes[f[k]].index = k
  <2>1. \E i \in W : c.nodes[i].index = k
    BY <1>3 DEF Has
  <2> QED BY <2>1
<1> HIDE DEF W
<1>5. f \in Injection(T, W)
  <2>1. f \in [T -> W]
    BY <1>4
  <2>2. ASSUME NEW j \in T, NEW k \in T, f[j] = f[k] PROVE j = k
    BY <1>4, <2>2
  <2> QED BY <2>1, <2>2 DEF Injection, IsInjective
<1> HIDE DEF f
<1>6. Cardinality(T) <= Cardinality(W)
  BY <1>2, <1>5, FS_Injection
<1> QED BY <1>1, <1>6

LEMMA CountsPast ==
  ASSUME NEW c, Good(c), NEW n \in Names, NEW size \in Nat, NEW k \in Nat, k >= size,
         Has(c.nodes, n, k), \A j \in Nat : j < size => Has(c.nodes, n, j)
  PROVE  c.count[n] > size
<1> DEFINE T == 0..(size - 1)
<1>1. IsFiniteSet(T) /\ Cardinality(T) = size
  <2>1. /\ IsFiniteSet(T)
        /\ Cardinality(T) = IF 0 > size - 1 THEN 0 ELSE size - 1 - 0 + 1
    BY FS_Interval
  <2> QED BY <2>1
<1>2. k \notin T
  OBVIOUS
<1>3. IsFiniteSet(T \union {k}) /\ Cardinality(T \union {k}) = size + 1
  <2> HIDE DEF T
  <2> QED BY <1>1, <1>2, FS_AddElement
<1>4. \A j \in T \union {k} : Has(c.nodes, n, j)
  OBVIOUS
<1> HIDE DEF T
<1>5. Cardinality(T \union {k}) <= c.count[n]
  BY <1>3, <1>4, CountsSubscripts
<1>6. c.count[n] \in Nat
  BY DEF Good, Array
<1> QED BY <1>3, <1>5, <1>6

Standing(c, n, size) ==
  \A m \in Names, k \in Nat :
    k < (IF m = n THEN size ELSE c.count[m]) => Has(c.nodes, m, k)

\* What is left of an array that is resized down.
Shrinking(n, size) == {c \in Array : Good(c) /\ (c.failed = "" => Standing(c, n, size))}

LEMMA ShrunkOnce ==
  ASSUME NEW n \in Names, NEW size \in Nat, NEW c \in Shrinking(n, size),
         NEW k \in Nat, k > size
  PROVE  LET found == Get(c, n, k - 1)
             looked == [c EXCEPT !.cursor = found.cursor]
         IN  (IF found.it = 0 \/ c.failed # "" THEN looked ELSE Removed(looked, found.it))
               \in Shrinking(n, size)
<1> DEFINE found == Get(c, n, k - 1)
           b == [c EXCEPT !.cursor = found.cursor]
           d == Removed(b, found.it)
<1>1. Good(c) /\ (c.failed = "" => Standing(c, n, size)) /\ Rests(c, c.cursor)
  BY DEF Shrinking, Good
<1>2. Rests(c, found.cursor) /\ (found.it # 0 => IsChild(c, found.it, n, k - 1))
  <2>1. LET got == Get2(c, c.cursor, n, k - 1)
        IN  /\ IF got.it = 0 THEN ~Has(c.nodes, n, 0) \/ ~Has(c.nodes, n, k - 1)
               ELSE IsChild(c, got.it, n, k - 1)
            /\ Rests(c, got.cursor)
    BY <1>1, Get2Is
  <2> QED BY <2>1 DEF Get
<1> HIDE DEF found
<1>3. Good(b) /\ b.nodes = c.nodes /\ b.count = c.count /\ b.failed = c.failed
  BY <1>1, <1>2, Cursored
<1> HIDE DEF b
<1>4. b \in Shrinking(n, size)
  BY <1>1, <1>3 DEF Shrinking, Standing, Good
<1>5. ASSUME found.it # 0, c.failed = "" PROVE d \in Shrinking(n, size)
  <2> PICK it : it = found.it
    OBVIOUS
  <2>1. it \in DOMAIN b.nodes /\ b.nodes[it].name = n /\ b.nodes[it].index = k - 1
        /\ Has(c.nodes, n, k - 1)
    <3>1. IsChild(c, it, n, k - 1)
      BY <1>2, <1>5
    <3> PICK j : j = k - 1
      OBVIOUS
    <3>3. IsChild(c, it, n, j) /\ Good(c)
      BY <1>1, <3>1
    <3>2. it \in DOMAIN c.nodes /\ c.nodes[it].name = n /\ c.nodes[it].index = j
          /\ Has(c.nodes, n, j)
      BY ONLY <3>3, n \in Names, ChildIs
    <3> QED BY <1>3, <3>2
  <2> DEFINE lost == IF b.nodes[it].empty THEN k - 1 ELSE b.count[n] - 1
             e == Removed(b, it)
  <2>2. /\ Good(e)
        /\ \/ e = [b EXCEPT !.failed = "cursor"]
           \/ /\ e.failed = b.failed
              /\ b.count[n] \in Nat \ {0} /\ e.count = [b.count EXCEPT ![n] = @ - 1]
              /\ \A m, j : Has(b.nodes, m, j) /\ (m # n \/ j # lost) => Has(e.nodes, m, j)
    <3> DEFINE i == b.nodes[it].name
               gone == IF b.nodes[it].empty THEN b.nodes[it].index ELSE b.count[i] - 1
    <3>1. /\ Good(e)
          /\ \/ e = [b EXCEPT !.failed = "cursor"]
             \/ /\ e.failed = b.failed
                /\ b.count[i] \in Nat \ {0} /\ e.count = [b.count EXCEPT ![i] = @ - 1]
                /\ \A m, j : Has(b.nodes, m, j) /\ (m # i \/ j # gone) => Has(e.nodes, m, j)
      BY <1>3, <2>1, RemovedGood
    <3>2. i = n /\ gone = lost
      BY <2>1
    <3> HIDE DEF i, gone, lost, e
    <3> QED BY <3>1, <3>2
  <2> HIDE DEF e
  <2>3. CASE e = [b EXCEPT !.failed = "cursor"]
    <3>1. e.failed = "cursor" /\ e \in Array
      BY <1>3, <2>2, <2>3 DEF Good, Array
    <3> QED BY <2>2, <3>1 DEF Shrinking, e
  <2>4. CASE /\ e.failed = b.failed
             /\ b.count[n] \in Nat \ {0} /\ e.count = [b.count EXCEPT ![n] = @ - 1]
             /\ \A m, j : Has(b.nodes, m, j) /\ (m # n \/ j # lost) => Has(e.nodes, m, j)
    <3>1. k - 1 \in Nat /\ k - 1 >= size
      OBVIOUS
    <3>2. b.count[n] > size
      <4>1. \A j \in Nat : j < size => Has(c.nodes, n, j)
        BY <1>1, <1>5 DEF Standing
      <4> QED BY <1>3, <2>1, <3>1, <4>1, CountsPast
    <3>3. lost >= size
      BY <2>4, <3>1, <3>2
    <3> HIDE DEF lost
    <3>4. ASSUME NEW m \in Names, NEW j \in Nat, j < (IF m = n THEN size ELSE e.count[m])
          PROVE  Has(e.nodes, m, j)
      <4>1. b.count \in [Names -> Nat]
        BY <1>3 DEF Good, Array
      <4>2. CASE m = n
        <5>1. Has(c.nodes, m, j)
          BY <1>1, <1>5, <3>4, <4>2 DEF Standing
        <5>2. j # lost
          BY <3>3, <3>4, <4>2
        <5> QED BY <1>3, <2>4, <5>1, <5>2
      <4>3. CASE m # n
        <5>1. e.count[m] = c.count[m]
          BY <1>3, <2>4, <4>1, <4>3
        <5>2. Has(c.nodes, m, j)
          BY <1>1, <1>5, <3>4, <4>3, <5>1 DEF Standing
        <5> QED BY <1>3, <2>4, <4>3, <5>2
      <4> QED BY <4>2, <4>3
    <3>5. e \in Array
      BY <2>2 DEF Good
    <3> QED BY <2>2, <3>4, <3>5 DEF Shrinking, Standing, e
  <2> QED BY <2>2, <2>3, <2>4
<1> HIDE DEF d
<1>6. (IF found.it = 0 \/ c.failed # "" THEN b ELSE d) \in Shrinking(n, size)
  BY <1>4, <1>5
<1> QED BY <1>6 DEF found, b, d

LEMMA ShrunkIs ==
  ASSUME NEW n \in Names, NEW size \in Nat, NEW c \in Shrinking(n, size), size < c.count[n]
  PROVE  Shrunk(c, n, size) \in Shrinking(n, size)
<1> DEFINE V == Shrinking(n, size)
           to(k, b) ==
             LET found == Get(b, n, k - 1)
                 looked == [b EXCEPT !.cursor = found.cursor]
             IN  IF found.it = 0 \/ b.failed # "" THEN looked ELSE Removed(looked, found.it)
<1> PICK m : m = c.count[n]
  OBVIOUS
<1>1. m \in Nat /\ size < m
  BY DEF Shrinking, Array
<1>2. \A k \in Nat : \A b \in V : k > size => to(k, b) \in V
  BY ShrunkOnce
<1> HIDE DEF V, to
<1> DEFINE S == size..m
           G == [k \in S |-> [b \in V |-> IF k = size THEN c ELSE to(k, b)]]
<1>3. c \in V
  BY DEF V
<1>4. \A k \in S : k \in Nat /\ (k # size => k > size)
  BY ONLY <1>1, size \in Nat
<1>5. G \in [S -> [V -> V]]
  <2>1. \A k \in S : \A b \in V : (IF k = size THEN c ELSE to(k, b)) \in V
    BY <1>2, <1>3, <1>4
  <2> HIDE DEF S
  <2> QED BY <2>1
<1>6. PICK f \in [S -> V] : Up(size, m, G, c, f)
  <2>1. size \in Int /\ m \in Int
    BY <1>1
  <2> HIDE DEF G
  <2> QED BY <1>3, <1>5, <2>1, RecursionUp
<1>7. \A k \in S : k # size => k - 1 \in S
  BY ONLY <1>1, size \in Nat
<1>8. f = [k \in S |-> IF k = size THEN c ELSE to(k, f[k - 1])]
  <2>1. ASSUME NEW k \in S PROVE f[k] = IF k = size THEN c ELSE to(k, f[k - 1])
    <3>1. f[k] = IF k = size THEN c ELSE G[k][f[k - 1]]
      <4> HIDE DEF G
      <4> QED BY <1>6 DEF Up
    <3>2. k # size => f[k - 1] \in V
      <4> HIDE DEF S
      <4> QED BY <1>7
    <3> HIDE DEF S
    <3> QED BY <3>1, <3>2
  <2> DEFINE v(k) == IF k = size THEN c ELSE to(k, f[k - 1])
  <2>2. f = [k \in S |-> v(k)]
    <3>1. \A k \in S : f[k] = v(k)
      BY <2>1
    <3> HIDE DEF S, v
    <3> QED BY <3>1
  <2> HIDE DEF S
  <2> QED BY <2>2
<1> DEFINE h == CHOOSE y : y = [k \in S |-> IF k = size THEN c ELSE to(k, y[k - 1])]
<1>9. h = [k \in S |-> IF k = size THEN c ELSE to(k, h[k - 1])]
  <2> HIDE DEF S
  <2> QED BY <1>8
<1>10. Shrunk(c, n, size) = h[m]
  BY DEF Shrunk, to
<1> HIDE DEF h
<1>11. \A k \in S : h[k] = IF k = size THEN c ELSE to(k, h[k - 1])
  <2> HIDE DEF S
  <2> QED BY <1>9
<1> DEFINE P == {k \in S : h[k] \in V}
<1>12. P = S
  <2>1. P \in SUBSET (size..m)
    OBVIOUS
  <2>2. size \in P
    <3>1. size \in S
      BY <1>1
    <3> HIDE DEF S
    <3> QED BY <1>3, <1>11, <3>1
  <2>3. ASSUME NEW k \in (size + 1)..m, k - 1 \in P PROVE k \in P
    <3>1. k \in S /\ k # size /\ k \in Nat /\ k > size
      BY <1>1
    <3>2. h[k] = to(k, h[k - 1]) /\ h[k - 1] \in V
      BY <1>11, <2>3, <3>1
    <3>3. h[k] \in V
      BY <1>2, <3>1, <3>2
    <3> QED BY <3>1, <3>3
  <2>4. size \in Int /\ m \in Int
    BY <1>1
  <2> HIDE DEF P
  <2> QED BY ONLY <2>1, <2>2, <2>3, <2>4, CountingUp
<1>13. m \in P
  BY <1>1, <1>12
<1> QED BY <1>10, <1>13 DEF V

\* The arrays between two calls, with nothing failed.
Settled == {c \in Array : Good(c) /\ c.failed = "" /\ Dense(c)}

LEMMA GrownIs ==
  ASSUME NEW n \in Names, NEW size \in Nat, NEW c \in Settled, c.count[n] <= size
  PROVE  Grown(c, n, size) \in Settled
<1> DEFINE V == Settled
           to(b) == Added(b, n, TRUE)
<1> PICK m : m = c.count[n]
  OBVIOUS
<1>1. m \in Nat /\ m <= size
  BY DEF Settled, Array
<1>2. \A b \in V : to(b) \in V
  <2> SUFFICES ASSUME NEW b \in V PROVE to(b) \in V
    OBVIOUS
  <2>1. Good(b) /\ b.failed = "" /\ Dense(b)
    BY DEF Settled
  <2> DEFINE d == Added(b, n, TRUE)
  <2>2. Good(d) /\ d.failed = b.failed /\ (Dense(b) => Dense(d))
    BY <2>1, AddedGood
  <2> HIDE DEF d
  <2>3. d \in V
    BY <2>1, <2>2 DEF Settled, Good
  <2> QED BY <2>3 DEF d
<1> DEFINE S == m..size
<1>3. c \in V
  OBVIOUS
<1> HIDE DEF V, to
<1> DEFINE G == [k \in S |-> [b \in V |-> IF k = m THEN c ELSE to(b)]]
<1>5. G \in [S -> [V -> V]]
  <2>1. \A k \in S : \A b \in V : (IF k = m THEN c ELSE to(b)) \in V
    BY <1>2, <1>3
  <2> HIDE DEF S
  <2> QED BY <2>1
<1>6. PICK f \in [S -> V] : Up(m, size, G, c, f)
  <2>1. size \in Int /\ m \in Int
    BY <1>1
  <2> HIDE DEF G
  <2> QED BY <1>3, <1>5, <2>1, RecursionUp
<1>7. \A k \in S : k # m => k - 1 \in S
  BY ONLY <1>1, size \in Nat
<1>8. f = [k \in S |-> IF k = m THEN c ELSE to(f[k - 1])]
  <2>1. ASSUME NEW k \in S PROVE f[k] = IF k = m THEN c ELSE to(f[k - 1])
    <3>1. f[k] = IF k = m THEN c ELSE G[k][f[k - 1]]
      <4> HIDE DEF G
      <4> QED BY <1>6 DEF Up
    <3>2. k # m => f[k - 1] \in V
      <4> HIDE DEF S
      <4> QED BY <1>7
    <3> HIDE DEF S
    <3> QED BY <3>1, <3>2
  <2> DEFINE v(k) == IF k = m THEN c ELSE to(f[k - 1])
  <2>2. f = [k \in S |-> v(k)]
    <3>1. \A k \in S : f[k] = v(k)
      BY <2>1
    <3> HIDE DEF S, v
    <3> QED BY <3>1
  <2> HIDE DEF S
  <2> QED BY <2>2
<1> DEFINE h == CHOOSE y : y = [k \in S |-> IF k = m THEN c ELSE to(y[k - 1])]
<1>9. h = [k \in S |-> IF k = m THEN c ELSE to(h[k - 1])]
  <2> HIDE DEF S
  <2> QED BY <1>8
<1>10. Grown(c, n, size) = h[size]
  BY DEF Grown, to
<1> HIDE DEF h
<1>11. \A k \in S : h[k] = IF k = m THEN c ELSE to(h[k - 1])
  <2> HIDE DEF S
  <2> QED BY <1>9
<1> DEFINE P == {k \in S : h[k] \in V}
<1>12. P = S
  <2>1. P \in SUBSET (m..size)
    OBVIOUS
  <2>2. m \in P
    <3>1. m \in S
      BY <1>1
    <3> HIDE DEF S
    <3> QED BY <1>3, <1>11, <3>1
  <2>3. ASSUME NEW k \in (m + 1)..size, k - 1 \in P PROVE k \in P
    <3>1. k \in S /\ k # m
      BY <1>1
    <3>2. h[k] = to(h[k - 1]) /\ h[k - 1] \in V
      BY <1>11, <2>3, <3>1
    <3>3. h[k] \in V
      BY <1>2, <3>2
    <3> QED BY <3>1, <3>3
  <2>4. size \in Int /\ m \in Int
    BY <1>1
  <2> HIDE DEF P
  <2> QED BY ONLY <2>1, <2>2, <2>3, <2>4, CountingUp
<1>13. size \in P
  BY <1>1, <1>12
<1> QED BY <1>10, <1>13 DEF V

\* What a call leaves behind, when an assertion may have failed.
Left == {c \in Array : Good(c) /\ (c.failed = "" => Dense(c))}

LEMMA ResizedGood ==
  ASSUME NEW n \in Names, NEW size \in Nat, NEW c \in Settled
  PROVE  Resized(c, n, size) \in Left
<1> DEFINE b == Shrunk(c, n, size)
<1>1. c \in Array /\ Good(c) /\ c.failed = "" /\ Dense(c) /\ c.count[n] \in Nat
  BY DEF Settled, Array
<1>2. CASE c.count[n] <= size
  <2>1. Resized(c, n, size) = Grown(c, n, size)
    BY <1>2 DEF Resized
  <2>2. Grown(c, n, size) \in Settled
    BY <1>2, GrownIs
  <2> QED BY <2>1, <2>2 DEF Settled, Left
<1>3. CASE ~(c.count[n] <= size)
  <2>1. size < c.count[n]
    <3> PICK p : p = c.count[n]
      OBVIOUS
    <3>1. p \in Nat /\ ~(p <= size)
      BY <1>1, <1>3
    <3> QED BY ONLY <3>1, p = c.count[n], size \in Nat
  <2>2. Standing(c, n, size)
    <3> SUFFICES ASSUME NEW m \in Names, NEW k \in Nat, k < (IF m = n THEN size ELSE c.count[m])
                 PROVE  Has(c.nodes, m, k)
      BY DEF Standing
    <3>1. CASE m = n
      <4> PICK p : p = c.count[n]
        OBVIOUS
      <4>1. k < size /\ size < p /\ p \in Nat
        BY <1>1, <2>1, <3>1
      <4>2. k < p
        BY ONLY <4>1, k \in Nat, size \in Nat
      <4> QED BY <1>1, <3>1, <4>2 DEF Dense
    <3>2. CASE m # n
      BY <1>1, <3>2 DEF Dense
    <3> QED BY <3>1, <3>2
  <2>3. b \in Shrinking(n, size)
    <3>1. c \in Shrinking(n, size)
      BY <1>1, <2>2 DEF Shrinking
    <3> QED BY <2>1, <3>1, ShrunkIs
  <2>4. Resized(c, n, size) = IF b.failed = "" /\ b.count[n] # size
                              THEN [b EXCEPT !.failed = "resize"] ELSE b
    BY <1>3 DEF Resized
  <2> HIDE DEF b
  <2>5. b \in Array /\ Good(b) /\ (b.failed = "" => Standing(b, n, size))
    BY <2>3 DEF Shrinking
  <2>6. CASE b.failed = "" /\ b.count[n] # size
    <3> DEFINE d == [b EXCEPT !.failed = "resize"]
    <3>1. d \in Array /\ d.nodes = b.nodes /\ d.count = b.count /\ d.cursor = b.cursor
          /\ d.failed = "resize"
      BY <2>5 DEF Array
    <3> HIDE DEF d
    <3>2. Good(d)
      BY <2>5, <3>1 DEF Good, Rests, HasText, At, End
    <3>3. d \in Left
      BY <3>1, <3>2 DEF Left
    <3> QED BY <2>4, <2>6, <3>3 DEF d
  <2>7. CASE ~(b.failed = "" /\ b.count[n] # size)
    <3>1. b.failed = "" => Dense(b)
      BY <2>5, <2>7 DEF Standing, Dense
    <3> QED BY <2>4, <2>5, <2>7, <3>1 DEF Left
  <2> QED BY <2>6, <2>7
<1> QED BY <1>2, <1>3
-----------------------------------------------------------------------------
(* Removing, and moving *)

LEMMA NodeIs ==
  ASSUME NEW c, Good(c), NEW it \in DOMAIN c.nodes
  PROVE  /\ c.nodes[it] \in Node /\ c.nodes[it].index \in Nat
         /\ c.nodes[it].index < Len(c.nodes)
<1>1. c.nodes \in Seq(Node)
  BY DEF Good, Ordered
<1>2. c.nodes[it] \in Node
  BY <1>1, AtIs
<1> QED BY <1>2 DEF Node, Good

\* Without a gap: a placeholder only goes when it is the last of its name.
LEMMA RemovedLeft ==
  ASSUME NEW c \in Settled, NEW it \in DOMAIN c.nodes, NEW n \in Names, c.nodes[it].name = n,
         c.nodes[it].empty => c.nodes[it].index + 1 = c.count[n]
  PROVE  LET d == Removed(c, it)
         IN  /\ d \in Left /\ Alters(c.nodes, d.nodes)
             /\ d.failed = "" =>
                  \A m \in Names : d.count[m] = IF m = n THEN c.count[m] - 1 ELSE c.count[m]
<1> DEFINE d == Removed(c, it)
<1>1. c \in Array /\ Good(c) /\ c.failed = "" /\ Dense(c) /\ c.count \in [Names -> Nat]
  BY DEF Settled, Array
<1> PICK lost : lost = IF c.nodes[it].empty THEN c.nodes[it].index ELSE c.count[n] - 1
  OBVIOUS
<1>2. lost = c.count[n] - 1
  <2> PICK k : k = c.nodes[it].index
    OBVIOUS
  <2> PICK cn : cn = c.count[n]
    OBVIOUS
  <2>1. k \in Nat /\ cn \in Nat
    BY <1>1, NodeIs
  <2>2. CASE c.nodes[it].empty
    <3>1. k + 1 = cn /\ lost = k
      BY <2>2
    <3> QED BY <2>1, <3>1
  <2>3. CASE ~c.nodes[it].empty
    BY <2>3
  <2> QED BY <2>2, <2>3
<1>3. /\ Good(d) /\ Alters(c.nodes, d.nodes)
      /\ \/ d = [c EXCEPT !.failed = "cursor"]
         \/ /\ d.failed = c.failed
            /\ c.count[n] \in Nat \ {0} /\ d.count = [c.count EXCEPT ![n] = @ - 1]
            /\ \A m, k : Has(c.nodes, m, k) /\ (m # n \/ k # lost) => Has(d.nodes, m, k)
  <2> DEFINE i == c.nodes[it].name
             gone == IF c.nodes[it].empty THEN c.nodes[it].index ELSE c.count[i] - 1
  <2>1. /\ Good(d) /\ Alters(c.nodes, d.nodes)
        /\ \/ d = [c EXCEPT !.failed = "cursor"]
           \/ /\ d.failed = c.failed
              /\ c.count[i] \in Nat \ {0} /\ d.count = [c.count EXCEPT ![i] = @ - 1]
              /\ \A m, k : Has(c.nodes, m, k) /\ (m # i \/ k # gone) => Has(d.nodes, m, k)
    BY <1>1, RemovedGood
  <2>2. i = n /\ gone = lost
    OBVIOUS
  <2> HIDE DEF i, gone, d
  <2> QED BY <2>1, <2>2
<1> HIDE DEF d
<1>4. d \in Array
  BY <1>3 DEF Good
<1>5. CASE d = [c EXCEPT !.failed = "cursor"]
  <2>1. d.failed = "cursor"
    BY <1>1, <1>5 DEF Array
  <2> QED BY <1>3, <1>4, <2>1 DEF Left, d
<1>6. CASE /\ d.failed = c.failed
           /\ c.count[n] \in Nat \ {0} /\ d.count = [c.count EXCEPT ![n] = @ - 1]
           /\ \A m, k : Has(c.nodes, m, k) /\ (m # n \/ k # lost) => Has(d.nodes, m, k)
  <2>1. \A m \in Names : d.count[m] = IF m = n THEN c.count[m] - 1 ELSE c.count[m]
    BY <1>1, <1>6
  <2>2. ASSUME NEW m \in Names, NEW k \in Nat, k < d.count[m] PROVE Has(d.nodes, m, k)
    <3> PICK p : p = c.count[m]
      OBVIOUS
    <3>1. p \in Nat /\ k < (IF m = n THEN p - 1 ELSE p)
      BY <1>1, <2>1, <2>2
    <3>2. k < p /\ (m # n \/ k # p - 1)
      BY ONLY <3>1, k \in Nat
    <3>3. m # n \/ k # lost
      BY <1>2, <3>2
    <3>4. Has(c.nodes, m, k)
      BY <1>1, <3>2 DEF Dense
    <3> QED BY <1>6, <3>3, <3>4
  <2>3. Dense(d)
    BY <2>2 DEF Dense
  <2> QED BY <1>3, <1>4, <2>1, <2>3 DEF Left, d
<1> QED BY <1>3, <1>5, <1>6

LEMMA MovedLeft ==
  ASSUME NEW c \in Settled, NEW it \in DOMAIN c.nodes, NEW n \in Names, c.nodes[it].name = n,
         ~c.nodes[it].empty, NEW m \in Names, n = m <=> c.nodes[it].index + 1 # c.count[n]
  PROVE  Moved(c, it, m) \in Left
<1> DEFINE p == Placement(c, m)
           b == [c EXCEPT !.cursor = p.cursor]
           out == Removed(b, it)
           untangled == c.nodes[it].index # out.count[n]
           count == IF untangled THEN c.count[m] - 1 ELSE c.count[m]
           y == Child(m, count, p.ordinal, FALSE)
<1>1. c \in Array /\ Good(c) /\ c.failed = "" /\ Dense(c) /\ c.count \in [Names -> Nat]
  BY DEF Settled, Array
<1>2. Rests(c, p.cursor) /\ p.ordinal \in 0..Top
      /\ Room(c.nodes, m, p.ordinal) /\ FitsAt(c.nodes, p.at, p.ordinal)
  BY <1>1, PlacementIs
<1>3. Moved(c, it, m) =
        IF out.failed # "" THEN out
        ELSE IF untangled /\ count # out.count[n] THEN [out EXCEPT !.failed = "count"]
        ELSE Inserted(out, p.at, y)
  BY DEF Moved
<1> HIDE DEF p
<1>4. /\ Good(b) /\ b.nodes = c.nodes /\ b.count = c.count /\ b.failed = c.failed
      /\ (Dense(c) => Dense(b))
  BY <1>1, <1>2, Cursored
<1> HIDE DEF b
<1>5. b \in Settled
  BY <1>1, <1>4 DEF Settled, Good
<1>6. /\ out \in Left /\ Alters(c.nodes, out.nodes)
      /\ out.failed = "" =>
           \A l \in Names : out.count[l] = IF l = n THEN c.count[l] - 1 ELSE c.count[l]
  <2>1. it \in DOMAIN b.nodes /\ b.nodes[it].name = n
        /\ (b.nodes[it].empty => b.nodes[it].index + 1 = b.count[n])
    BY <1>4
  <2>2. /\ out \in Left /\ Alters(b.nodes, out.nodes)
        /\ out.failed = "" =>
             \A l \in Names : out.count[l] = IF l = n THEN b.count[l] - 1 ELSE b.count[l]
    BY <1>5, <2>1, RemovedLeft
  <2> HIDE DEF out
  <2> QED BY <1>4, <2>2
<1> HIDE DEF out
<1>7. CASE out.failed # ""
  BY <1>3, <1>6, <1>7
<1>8. CASE out.failed = ""
  <2>1. Good(out) /\ Dense(out) /\ out.count \in [Names -> Nat] /\ out \in Array
    BY <1>6, <1>8 DEF Left, Array
  <2>2. count = out.count[m] /\ count \in Nat
    <3> PICK k : k = c.nodes[it].index
      OBVIOUS
    <3> PICK cn : cn = c.count[n]
      OBVIOUS
    <3> PICK cm : cm = c.count[m]
      OBVIOUS
    <3>1. cn \in Nat /\ cm \in Nat /\ k \in Nat
      BY <1>1, NodeIs
    <3>2. out.count[n] = cn - 1 /\ out.count[m] = IF m = n THEN cm - 1 ELSE cm
      BY <1>6, <1>8
    <3>3. untangled <=> k # cn - 1
      BY <3>2
    <3>4. (n = m) <=> (k + 1 # cn)
      OBVIOUS
    <3>5. untangled <=> n = m
      BY <3>1, <3>3, <3>4
    <3>6. count = IF untangled THEN cm - 1 ELSE cm
      OBVIOUS
    <3>7. count = out.count[m]
      BY <3>2, <3>5, <3>6
    <3>8. out.count[m] \in Nat
      BY <2>1
    <3> QED BY <3>7, <3>8
  <2>3. untangled => n = m
    <3> PICK k : k = c.nodes[it].index
      OBVIOUS
    <3> PICK cn : cn = c.count[n]
      OBVIOUS
    <3>1. cn \in Nat /\ k \in Nat
      BY <1>1, NodeIs
    <3>2. out.count[n] = cn - 1
      BY <1>6, <1>8
    <3>3. untangled => k + 1 # cn
      BY <3>1, <3>2
    <3> QED BY <3>3
  <2>4. Moved(c, it, m) = Inserted(out, p.at, y)
    BY <1>3, <1>8, <2>2, <2>3
  <2> PICK x : x = y
    OBVIOUS
  <2> HIDE DEF count
  <2>5. x \in Node /\ x.name = m /\ x.index = out.count[m] /\ x.ordinal = p.ordinal
    <3>1. /\ y \in Node /\ y.name = m /\ y.index = count /\ y.ordinal = p.ordinal
      <4>1. Top \in Nat
        BY Schema
      <4> QED BY <1>2, <2>2, <4>1 DEF Child, Node, Ordinals
    <3> QED BY <2>2, <3>1
  <2>6. Room(out.nodes, m, p.ordinal) /\ FitsAt(out.nodes, p.at, p.ordinal)
    <3>1. Top \in Nat
      BY Schema
    <3> PICK o : o = p.ordinal
      OBVIOUS
    <3>2. o \in 0..Top
      BY <1>2
    <3>3. o <= Top
      BY ONLY <3>1, <3>2
    <3>4. Ordered(c.nodes)
      BY <1>1 DEF Good
    <3> QED BY <1>2, <1>6, <3>3, <3>4, AltersOrdered
  <2> PICK i : i = p.at
    OBVIOUS
  <2> PICK a : a = out
    OBVIOUS
  <2> DEFINE d == Inserted(a, i, x)
  <2>7. Good(d) /\ d.failed = a.failed /\ (Dense(a) => Dense(d))
    <3>1. /\ x.name \in Names /\ x.index = a.count[x.name]
          /\ Room(a.nodes, x.name, x.ordinal) /\ FitsAt(a.nodes, i, x.ordinal)
      BY <2>5, <2>6
    <3>2. Good(a)
      BY <2>1
    <3> QED BY <2>5, <3>1, <3>2, InsertedGood
  <2>8. Moved(c, it, m) = d
    BY <2>4
  <2> HIDE DEF d
  <2>9. d \in Left
    BY <1>8, <2>1, <2>7 DEF Left, Good
  <2> QED BY <2>8, <2>9
<1> QED BY <1>7, <1>8
-----------------------------------------------------------------------------
(* The reader *)

\* The back of the reader: what is behind it has no place, and what is before it is
\* at least where the last child before it is.
LEMMA ReadBackIs ==
  ASSUME NEW c, Good(c)
  PROVE  LET b == ReadBack(c)
             a == ReadOnto(c)
         IN  /\ b \in 1..End(c) /\ a \in Nat
             /\ At(c, c.cursor).ordinal = 0 => Rests(c, b)
             /\ \A o \in 1..Top : o <= a => FitsAt(c.nodes, b, o)
<1> DEFINE s == c.nodes
           b == ReadBack(c)
           a == ReadOnto(c)
           F == {i \in 1..(c.cursor - 1) : At(c, i).ordinal # 0}
           P == {i \in c.cursor..End(c) : At(c, i).ordinal = 0}
           O == {i \in 1..(b - 1) : i = 1 \/ ~HasText(c, i)}
           onto == Max({0} \union O)
<1>1. /\ s \in Seq(Node) /\ Len(s) \in Nat /\ DOMAIN s = 1..Len(s) /\ End(c) = Len(s) + 1
      /\ Top \in Nat /\ Ordered(s)
      /\ \A j \in 1..Len(s) : At(c, j) = s[j] /\ s[j].ordinal \in Nat
      /\ At(c, End(c)).ordinal = 0
  <2>1. s \in Seq(Node) /\ Top \in Nat /\ Ordered(s)
    BY Schema DEF Good, Ordered
  <2>2. /\ Len(s) \in Nat /\ DOMAIN s = 1..Len(s) /\ End(c) = Len(s) + 1
        /\ \A j \in 1..Len(s) : At(c, j) = s[j] /\ s[j] \in Node
        /\ At(c, End(c)).ordinal = 0
    <3>1. /\ Len(s) \in Nat /\ DOMAIN s = 1..Len(s) /\ End(c) = Len(s) + 1
          /\ \A j \in 1..Len(s) : At(c, j) = s[j] /\ s[j] \in Node
          /\ \A j : j \notin 1..Len(s) => At(c, j) = Terminator
      BY <2>1, AtIs
    <3>2. End(c) \notin 1..Len(s)
      BY <3>1
    <3> QED BY <3>1, <3>2, TextIs
  <2>3. \A j \in 1..Len(s) : s[j].ordinal \in Nat
    BY <2>1, <2>2 DEF Node, Ordinals
  <2> QED BY <2>1, <2>2, <2>3
<1>2. c.cursor \in 1..End(c) /\ ~HasText(c, c.cursor)
  BY DEF Good, Rests
<1>3. b = IF At(c, c.cursor).ordinal = 0 THEN 1 + Max({0} \union F) ELSE Min(P)
  BY DEF ReadBack
<1>4. a = IF onto = 0 THEN Top ELSE At(c, onto).ordinal
  BY DEF ReadOnto
<1> HIDE DEF s
<1>5. /\ b \in 1..End(c)
      /\ At(c, c.cursor).ordinal = 0 => Rests(c, b)
      /\ \A j \in 1..Len(s) : j >= b /\ s[j].ordinal <= Top => s[j].ordinal = 0
  <2>1. CASE At(c, c.cursor).ordinal = 0
    <3>1. b = 1 + Max({0} \union F)
      BY <1>3, <2>1
    <3>2. /\ b \in 1..c.cursor
          /\ \A j \in F : j < b
      <4>1. F \in SUBSET (1..(c.cursor - 1)) /\ c.cursor \in Nat \ {0}
        BY <1>1, <1>2
      <4> HIDE DEF F, b
      <4> QED BY <3>1, <4>1, LastIs
    <3> HIDE DEF b
    <3>3. \A j \in 1..(c.cursor - 1) : j >= b => At(c, j).ordinal = 0
      <4> SUFFICES ASSUME NEW j \in 1..(c.cursor - 1), j >= b PROVE At(c, j).ordinal = 0
        OBVIOUS
      <4>1. b \in Nat /\ c.cursor \in Nat
        BY <1>1, <1>2, <3>2
      <4>2. ~(j < b)
        BY <4>1
      <4> QED BY <3>2, <4>2
    <3>4. ASSUME NEW j \in 1..Len(s), j >= b, s[j].ordinal <= Top PROVE s[j].ordinal = 0
      <4>1. CASE j < c.cursor
        <5>1. j \in 1..(c.cursor - 1)
          BY <1>1, <1>2, <4>1
        <5> QED BY <1>1, <3>3, <3>4, <5>1
      <4>2. CASE j = c.cursor
        BY <1>1, <2>1, <4>2
      <4>3. CASE j > c.cursor
        <5>1. c.cursor \in 1..Len(s)
          BY <1>1, <1>2, <4>3
        <5>2. s[c.cursor].ordinal = 0
          BY <1>1, <2>1, <5>1
        <5>3. s[c.cursor].ordinal >= s[j].ordinal
          BY <1>1, <3>4, <4>3, <5>1, <5>2 DEF Ordered
        <5> QED BY <1>1, <5>2, <5>3
      <4>4. j < c.cursor \/ j = c.cursor \/ j > c.cursor
        BY <1>1, <1>2
      <4> QED BY <4>1, <4>2, <4>3, <4>4
    <3>5. b \in 1..End(c)
      BY <1>1, <1>2, <3>2
    <3>6. At(c, b).ordinal = 0
      <4>1. CASE b = c.cursor
        BY <2>1, <4>1
      <4>2. CASE b # c.cursor
        <5>1. b \in 1..(c.cursor - 1) /\ b >= b
          BY <1>1, <1>2, <3>2, <4>2
        <5> QED BY <3>3, <5>1
      <4> QED BY <4>1, <4>2
    <3> QED BY <1>1, <3>4, <3>5, <3>6 DEF Rests, HasText
  <2>2. CASE At(c, c.cursor).ordinal # 0
    <3>1. b = Min(P)
      BY <1>3, <2>2
    <3>2. P \in SUBSET Nat /\ End(c) \in P
      <4>5. At(c, End(c)).ordinal = 0
        BY <1>1
      <4> PICK e : e = End(c)
        OBVIOUS
      <4> PICK x : x = c.cursor
        OBVIOUS
      <4>1. e \in Nat /\ x \in 1..e /\ x \in Nat
        BY <1>1, <1>2
      <4>2. \A i \in x..e : i \in Nat
        BY <4>1
      <4>3. e \in x..e
        BY ONLY <4>1
      <4>4. At(c, e).ordinal = 0
        BY ONLY <4>5, e = End(c), Zenon
      <4> QED BY <4>2, <4>3, <4>4 DEF P
    <3>3. b \in P
      <4> HIDE DEF P, b
      <4> QED BY <3>1, <3>2, MinIs
    <3> HIDE DEF b
    <3>4. b \in 1..End(c) /\ At(c, b).ordinal = 0
      BY <1>1, <1>2, <3>3
    <3>5. ASSUME NEW j \in 1..Len(s), j >= b, s[j].ordinal <= Top PROVE s[j].ordinal = 0
      <4>1. b \in 1..Len(s)
        BY <1>1, <3>4, <3>5
      <4>2. s[b].ordinal = 0
        BY <1>1, <3>4, <4>1
      <4>3. CASE j = b
        BY <4>2, <4>3
      <4>4. CASE j > b
        <5>1. s[b].ordinal >= s[j].ordinal
          BY <1>1, <3>5, <4>1, <4>2, <4>4 DEF Ordered
        <5> QED BY <1>1, <4>2, <5>1
      <4> QED BY <1>1, <3>5, <4>1, <4>3, <4>4
    <3> QED BY <2>2, <3>4, <3>5
  <2> QED BY <2>1, <2>2
<1> HIDE DEF b, F, P
<1>6. b \in Nat \ {0} /\ O \in SUBSET (1..(b - 1))
  BY <1>1, <1>5
<1>7. /\ onto = 0 \/ onto \in O
      /\ \A j \in O : j <= onto
  <2> HIDE DEF O
  <2>1. /\ 1 + onto \in 1..b /\ \A j \in O : j < 1 + onto
        /\ 1 + onto = 1 \/ onto \in O
    BY <1>6, LastIs
  <2>2. onto = 0 \/ onto \in O
    <3>1. CASE onto \in O
      BY <3>1
    <3>2. CASE onto \notin O
      <4>1. {0} \union O \in SUBSET Nat /\ {0} \union O # {}
        BY <1>6
      <4>2. onto \in {0} \union O
        <5>1. \A x \in {0} \union O : x <= b
          BY <1>6
        <5> PICK W : W = {0} \union O
          OBVIOUS
        <5> QED BY <1>6, <4>1, <5>1, MaxIs
      <4> QED BY <3>2, <4>2
    <3> QED BY <3>1, <3>2
  <2>3. onto \in Nat
    <3>1. O \in SUBSET Nat
      BY <1>6
    <3>2. \A w \in O : w \in Nat
      BY <3>1
    <3>3. 0 \in Nat
      OBVIOUS
    <3> HIDE DEF onto
    <3> QED BY ONLY <2>2, <3>2, <3>3, Zenon
  <2>4. \A j \in O : j \in Nat
    BY <1>6
  <2> HIDE DEF onto
  <2> QED BY <2>1, <2>2, <2>3, <2>4
<1> HIDE DEF onto
<1>8. a \in Nat
  <2>1. CASE onto = 0
    BY <1>1, <1>4, <2>1
  <2>2. CASE onto # 0
    <3>1. onto \in 1..Len(s)
      BY <1>1, <1>5, <1>6, <1>7, <2>2
    <3> QED BY <1>1, <1>4, <2>2, <3>1
  <2> QED BY <2>1, <2>2
<1> HIDE DEF a
<1>9. ASSUME NEW o \in 1..Top, o <= a PROVE FitsAt(s, b, o)
  <2>1. ASSUME NEW j \in DOMAIN s, j < b, s[j].ordinal <= Top PROVE s[j].ordinal >= o
    <3>1. j \in 1..Len(s) /\ j \in 1..(b - 1)
      BY <1>1, <1>6, <2>1
    <3>2. j \in O
      BY <1>1, <2>1, <3>1 DEF HasText
    <3>3. j <= onto /\ onto \in O /\ onto # 0
      BY <1>6, <1>7, <3>1, <3>2
    <3>4. onto \in 1..Len(s) /\ onto \in Nat
      BY <1>1, <1>5, <1>6, <3>3
    <3>5. a = s[onto].ordinal
      BY <1>1, <1>4, <3>3, <3>4
    <3>6. CASE j = onto
      BY <1>9, <3>5, <3>6
    <3>7. CASE j < onto
      <4>1. onto # 1
        BY <3>1, <3>7
      <4>2. ~HasText(c, onto)
        BY <3>3, <4>1
      <4>3. s[onto].ordinal <= Top
        BY <1>1, <3>4, <4>2 DEF HasText
      <4>4. s[j].ordinal >= s[onto].ordinal
        BY <1>1, <2>1, <3>1, <3>4, <3>7, <4>3 DEF Ordered
      <4> PICK u : u = s[j].ordinal
        OBVIOUS
      <4>5. u \in Nat /\ a \in Nat /\ u >= a /\ o <= a /\ o \in Nat
        BY <1>1, <1>8, <1>9, <3>1, <3>5, <4>4
      <4>6. u >= o
        BY ONLY <4>5
      <4> QED BY <4>6
    <3>8. j < onto \/ j = onto
      BY <3>1, <3>3, <3>4
    <3> QED BY <3>6, <3>7, <3>8
  <2>2. ASSUME NEW j \in DOMAIN s, j >= b, s[j].ordinal <= Top PROVE s[j].ordinal <= o
    <3>1. s[j].ordinal = 0
      BY <1>1, <1>5, <2>2
    <3> QED BY <1>1, <3>1
  <2>3. b \in 1..(Len(s) + 1)
    BY <1>1, <1>5
  <2> QED BY <2>1, <2>2, <2>3 DEF FitsAt
<1> QED BY <1>5, <1>8, <1>9 DEF a, b, s

LEMMA ReadLeft ==
  ASSUME NEW c \in Settled, NEW n \in Names,
         n = Unnamed \/ (ReadPlacement(c, n).ok /\ ReadPlacement(c, n).ordinal <= ReadOnto(c))
  PROVE  Read(c, n) \in Left
<1> DEFINE p == ReadPlacement(c, n)
           r == ReadCursor(c)
           b == ReadBack(c)
           a == ReadOnto(c)
           s == c.nodes
<1>1. c \in Array /\ Good(c) /\ c.failed = "" /\ Dense(c) /\ c.count \in [Names -> Nat]
      /\ Rests(c, c.cursor) /\ s \in Seq(Node) /\ Top \in Nat
  <2>1. c \in Array /\ Good(c) /\ c.failed = "" /\ Dense(c)
    BY DEF Settled
  <2>2. c.count \in [Names -> Nat] /\ s \in Seq(Node)
    BY <2>1 DEF Array
  <2> QED BY <2>1, <2>2, Schema DEF Good
<1>20. Good(c)
  BY <1>1
<1>21. Top \in Nat
  BY <1>1
<1>2. /\ b \in 1..End(c) /\ a \in Nat
      /\ At(c, c.cursor).ordinal = 0 => Rests(c, b)
      /\ \A o \in 1..Top : o <= a => FitsAt(s, b, o)
  BY <1>1, ReadBackIs
<1> DEFINE x == IF At(c, c.cursor).ordinal = 0 THEN b ELSE c.cursor
<1>3. r = [c EXCEPT !.cursor = x]
  BY <1>1 DEF ReadCursor, Array
<1> HIDE DEF r, b, a
<1>4. Rests(c, x)
  BY <1>1, <1>2
<1> HIDE DEF x
<1>5. Good(r) /\ r.nodes = c.nodes /\ r.count = c.count /\ r.failed = c.failed /\ r.cursor = x
  <2> DEFINE q == [c EXCEPT !.cursor = x]
  <2>1. Good(q) /\ q.nodes = c.nodes /\ q.count = c.count /\ q.failed = c.failed
        /\ q.cursor = x
    BY <1>1, <1>4, Cursored
  <2>2. r = q
    BY <1>3
  <2> HIDE DEF q
  <2> QED BY <2>1, <2>2
<1>6. p = PlaceBetween(r, n, r.count[n], a)
  BY <1>5 DEF ReadPlacement, r, a
<1>7. Read(c, n) = IF p.ok THEN Inserted(c, b, Child(n, c.count[n], p.ordinal, FALSE))
                   ELSE [Inserted(c, End(c), Child(Unnamed, c.count[n], 0, FALSE))
                           EXCEPT !.cursor = p.cursor]
  BY DEF Read, b
<1> HIDE DEF p
<1>8. CASE n # Unnamed
  <2>1. p.ok /\ p.ordinal <= a
    BY <1>8 DEF p, a
  <2>2. Offered(r, n, p)
    <3>1. n \in Named
      BY <1>8 DEF Names
    <3>2. Offered(r, n, PlaceFrom(r, n, r.count[n], a))
      BY <1>2, <1>5, <3>1, PlaceFromIs
    <3> QED BY <1>6, <3>1, <3>2 DEF PlaceBetween
  <2> PICK o : o = p.ordinal
    OBVIOUS
  <2>3. o \in 1..Top /\ o \in 0..Top /\ Room(s, n, o)
    <3>1. Belongs(o, n) /\ Room(s, n, o)
      BY <1>5, <2>1, <2>2 DEF Offered
    <3>2. o \in 1..Top
      BY <3>1, BelongsRange
    <3>3. o \in 0..Top
      BY <1>21, <3>2
    <3> QED BY <3>1, <3>2, <3>3
  <2>4. FitsAt(s, b, o)
    BY <1>2, <2>1, <2>3
  <2> PICK y : y = Child(n, c.count[n], o, FALSE)
    OBVIOUS
  <2>5. y \in Node /\ y.name = n /\ y.index = c.count[n] /\ y.ordinal = o
    <3>1. c.count[n] \in Nat
      BY <1>1
    <3>2. o \in 0..(Top + 1)
      BY <1>21, <2>3
    <3> QED BY <3>1, <3>2 DEF Child, Node, Ordinals
  <2> PICK i : i = b
    OBVIOUS
  <2> DEFINE d == Inserted(c, i, y)
  <2>6. Good(d) /\ d.failed = c.failed /\ (Dense(c) => Dense(d))
    <3>1. /\ y.name \in Names /\ y.index = c.count[y.name]
          /\ Room(c.nodes, y.name, y.ordinal) /\ FitsAt(c.nodes, i, y.ordinal)
      BY <2>3, <2>4, <2>5
    <3> QED BY ONLY <1>20, <2>5, <3>1, InsertedGood
  <2>7. Read(c, n) = d
    BY <1>7, <2>1
  <2> HIDE DEF d
  <2>8. d \in Left
    BY <1>1, <2>6 DEF Left, Good
  <2> QED BY <2>7, <2>8
<1>9. CASE n = Unnamed
  <2>1. ~p.ok /\ p.cursor = x
    <3>1. n \notin Named
      BY <1>9, Schema
    <3>2. p = Answer(FALSE, 0, 0, r.cursor)
      BY <1>6, <3>1 DEF PlaceBetween
    <3> QED BY <1>5, <3>2 DEF Answer
  <2> PICK y : y = Child(Unnamed, c.count[n], 0, FALSE)
    OBVIOUS
  <2>2. y \in Node /\ y.name = n /\ y.index = c.count[n] /\ y.ordinal = 0
    <3>1. c.count[n] \in Nat
      BY <1>1
    <3>2. 0 \in 0..(Top + 1)
      BY <1>21
    <3> QED BY <1>9, <3>1, <3>2 DEF Child, Node, Ordinals, Names
  <2>3. Len(s) \in Nat /\ DOMAIN s = 1..Len(s) /\ End(c) = Len(s) + 1
        /\ \A j \in 1..Len(s) : s[j] \in Node
    BY <1>1, AtIs
  <2> PICK i : i = End(c)
    OBVIOUS
  <2>4. Room(s, n, 0) /\ FitsAt(s, i, 0)
    <3>1. \A j \in DOMAIN s : s[j].ordinal >= 0 /\ ~(j >= i)
      <4>1. \A j \in DOMAIN s : s[j].ordinal \in Nat
        <5>1. \A j \in DOMAIN s : s[j] \in Node
          BY <2>3
        <5> QED BY <1>21, <5>1 DEF Node, Ordinals
      <4> QED BY <2>3, <4>1
    <3>2. i \in 1..(Len(s) + 1)
      BY <2>3
    <3> QED BY <3>1, <3>2 DEF Room, FitsAt
  <2> DEFINE d == Inserted(c, i, y)
  <2>5. Good(d) /\ d.failed = c.failed /\ (Dense(c) => Dense(d))
        /\ Len(d.nodes) = Len(c.nodes) + 1
    <3>1. /\ y.name \in Names /\ y.index = c.count[y.name]
          /\ Room(c.nodes, y.name, y.ordinal) /\ FitsAt(c.nodes, i, y.ordinal)
      BY <2>2, <2>4
    <3> QED BY ONLY <1>20, <2>2, <3>1, InsertedGood
  <2>6. d.nodes = With(s, i, y)
    BY <1>1 DEF Inserted, With, Array
  <2>7. Read(c, n) = [d EXCEPT !.cursor = x]
    BY <1>7, <2>1
  <2> HIDE DEF d
  <2>8. Rests(d, x)
    <3>1. /\ With(s, i, y) \in Seq(Node) /\ Len(With(s, i, y)) = Len(s) + 1
          /\ \A j \in 1..(Len(s) + 1) :
               With(s, i, y)[j] = IF j < i THEN s[j] ELSE IF j = i THEN y ELSE s[j - 1]
      <4>1. i \in 1..(Len(s) + 1)
        BY <2>3
      <4>2. s \in Seq(Node) /\ y \in Node
        BY <1>1, <2>2
      <4> HIDE DEF s
      <4> QED BY <4>1, <4>2, WithIs
    <3> PICK t : t = d.nodes
      OBVIOUS
    <3>2. /\ t \in Seq(Node) /\ Len(t) = Len(s) + 1
          /\ \A j \in 1..(Len(s) + 1) :
               t[j] = IF j < i THEN s[j] ELSE IF j = i THEN y ELSE s[j - 1]
      BY <2>6, <3>1
    <3>3. End(d) = Len(s) + 2 /\ \A j \in 1..(Len(s) + 1) : At(d, j) = t[j]
      <4>1. d.nodes \in Seq(Node)
        BY <3>2
      <4>2. End(d) = Len(d.nodes) + 1 /\ \A j \in 1..Len(d.nodes) : At(d, j) = d.nodes[j]
        BY <4>1, AtIs
      <4>3. Len(d.nodes) = Len(s) + 1
        BY <3>2
      <4> QED BY <2>3, <3>2, <4>2, <4>3
    <3>4. x \in 1..(Len(s) + 1)
      BY <1>4, <2>3 DEF Rests
    <3>5. CASE x = i
      <4>1. At(d, x) = y
        <5>1. i \in 1..(Len(s) + 1) /\ ~(i < i)
          BY <2>3
        <5> QED BY <3>2, <3>3, <3>5, <5>1
      <4>2. ~HasText(d, x)
        <5>1. At(d, x).ordinal = 0
          BY <2>2, <4>1
        <5> QED BY ONLY <1>21, <5>1 DEF HasText
      <4> QED BY <2>3, <3>3, <3>4, <4>2 DEF Rests
    <3>6. CASE x # i
      <4>1. x < i /\ x \in 1..Len(s)
        BY <2>3, <3>4, <3>6
      <4>2. At(d, x) = s[x] /\ At(c, x) = s[x]
        BY <1>1, <3>2, <3>3, <3>4, <4>1, AtIs
      <4>3. ~HasText(d, x)
        BY <1>4, <4>2 DEF Rests, HasText
      <4> QED BY <2>3, <3>3, <3>4, <4>3 DEF Rests
    <3> QED BY <3>5, <3>6
  <2> DEFINE e == [d EXCEPT !.cursor = x]
  <2>9. Good(e) /\ e.failed = d.failed /\ (Dense(d) => Dense(e))
    BY <2>5, <2>8, Cursored
  <2> HIDE DEF e
  <2>10. e \in Left
    BY <1>1, <2>5, <2>9 DEF Left, Good
  <2> QED BY <2>7, <2>10 DEF e
<1> QED BY <1>8, <1>9

\* Text in between.
LEMMA MixedLeft ==
  ASSUME NEW c \in Settled, NEW i \in 1..End(c)
  PROVE  LET mixed == [c EXCEPT
                         !.nodes = SubSeq(@, 1, i - 1) \o <<Text>> \o SubSeq(@, i, Len(@))]
             d == [mixed EXCEPT !.cursor = Skipping(mixed, i)]
         IN  d \in Left
<1> DEFINE mixed == [c EXCEPT
                       !.nodes = SubSeq(@, 1, i - 1) \o <<Text>> \o SubSeq(@, i, Len(@))]
           d == [mixed EXCEPT !.cursor = Skipping(mixed, i)]
           s == c.nodes
           t == With(s, i, Text)
<1>1. c \in Array /\ Good(c) /\ c.failed = "" /\ Dense(c) /\ c.count \in [Names -> Nat]
      /\ s \in Seq(Node) /\ Ordered(s)
  BY DEF Settled, Array, Good
<1>2. Len(s) \in Nat /\ DOMAIN s = 1..Len(s) /\ End(c) = Len(s) + 1
      /\ i \in 1..(Len(s) + 1) /\ i \in Nat
  <2>1. Len(s) \in Nat /\ DOMAIN s = 1..Len(s) /\ End(c) = Len(s) + 1
    BY <1>1, AtIs
  <2> QED BY <2>1
<1>3. mixed = [c EXCEPT !.nodes = t]
  BY DEF With
<1>4. /\ t \in Seq(Node) /\ Len(t) = Len(s) + 1
      /\ \A j \in 1..(Len(s) + 1) : t[j] = IF j < i THEN s[j] ELSE IF j = i THEN Text ELSE s[j - 1]
  <2>1. s \in Seq(Node) /\ i \in 1..(Len(s) + 1) /\ Text \in Node
    BY <1>1, <1>2, TextIs
  <2> HIDE DEF s
  <2> QED BY <2>1, WithIs
<1>5. Ordered(t)
  BY <1>1, <1>2, TextIs, WithOrdered
<1>6. \A n \in Names : Cardinality(Where(t, Called(n))) = Cardinality(Where(s, Called(n)))
  <2> SUFFICES ASSUME NEW n \in Names
               PROVE  Cardinality(Where(t, Called(n))) = Cardinality(Where(s, Called(n)))
    OBVIOUS
  <2>1. Text \notin Called(n)
    BY TextIs, Schema DEF Called
  <2>2. s \in Seq(Node) /\ i \in 1..(Len(s) + 1) /\ Text \in Node
    BY <1>1, <1>2, TextIs
  <2> HIDE DEF s
  <2> QED BY <2>1, <2>2, WhereWith
<1> HIDE DEF t, mixed
<1>7. mixed.nodes = t /\ mixed.count = c.count /\ mixed.failed = c.failed /\ mixed \in Array
  BY <1>1, <1>3, <1>4 DEF Array
<1>8. Rests(mixed, Skipping(mixed, i))
  <2>1. mixed.nodes \in Seq(Node) /\ Len(mixed.nodes) = Len(s) + 1
    BY <1>4, <1>7
  <2>2. i \in 1..End(mixed)
    BY <1>2, <2>1 DEF End
  <2> QED BY <2>1, <2>2, SkippingRests
<1>9. Skipping(mixed, i) \in Nat
  <2>1. End(mixed) \in Nat
    BY <1>4, <1>7, AtIs
  <2> QED BY <1>8, <2>1 DEF Rests
<1> PICK x : x = Skipping(mixed, i)
  OBVIOUS
<1>10. d = [mixed EXCEPT !.cursor = x]
  OBVIOUS
<1> HIDE DEF d
<1>11. d.nodes = t /\ d.count = c.count /\ d.failed = c.failed /\ d.cursor = x /\ d \in Array
  BY <1>7, <1>9, <1>10 DEF Array
<1>12. Rests(d, d.cursor)
  BY <1>7, <1>8, <1>11 DEF Rests, HasText, At, End
<1>13. DOMAIN t = 1..(Len(s) + 1)
  BY <1>4, LenProperties
<1>14. ASSUME NEW j \in DOMAIN t PROVE t[j].index < Len(t)
  <2>1. \A k \in 1..Len(s) : s[k].index \in Nat /\ s[k].index < Len(s)
    BY <1>1, <1>2, NodeIs
  <2>2. j \in 1..(Len(s) + 1)
    BY <1>13
  <2>3. t[j] = IF j < i THEN s[j] ELSE IF j = i THEN Text ELSE s[j - 1]
    BY <1>4, <2>2
  <2>4. CASE j < i
    <3>1. j \in 1..Len(s)
      BY <1>2, <2>2, <2>4
    <3> QED BY <1>2, <1>4, <2>1, <2>3, <2>4, <3>1
  <2>5. CASE j = i
    BY <1>2, <1>4, <2>3, <2>5, TextIs
  <2>6. CASE j > i
    <3>1. j - 1 \in 1..Len(s) /\ ~(j < i) /\ j # i
      BY <1>2, <2>2, <2>6
    <3> QED BY <1>2, <1>4, <2>1, <2>3, <3>1
  <2> QED BY <1>2, <2>2, <2>4, <2>5, <2>6
<1>15. \A n \in Names : d.count[n] = Cardinality(Where(t, Called(n)))
  BY <1>1, <1>6, <1>11 DEF Good
<1>16. Good(d)
  BY <1>5, <1>11, <1>12, <1>14, <1>15 DEF Good
<1>17. ASSUME NEW n, NEW k, Has(s, n, k) PROVE Has(t, n, k)
  <2>1. PICK j \in DOMAIN s : s[j].name = n /\ s[j].index = k
    BY <1>17 DEF Has
  <2>2. j \in 1..Len(s)
    BY <1>2
  <2>3. CASE j < i
    <3>1. j \in 1..(Len(s) + 1) /\ t[j] = s[j]
      BY <1>2, <1>4, <2>2, <2>3
    <3> QED BY <1>13, <2>1, <3>1 DEF Has
  <2>4. CASE j >= i
    <3>1. j + 1 \in 1..(Len(s) + 1) /\ ~(j + 1 < i) /\ j + 1 # i /\ (j + 1) - 1 = j
      BY <1>2, <2>2, <2>4
    <3>2. t[j + 1] = s[j]
      BY <1>4, <3>1
    <3> QED BY <1>13, <2>1, <3>1, <3>2 DEF Has
  <2> QED BY <1>2, <2>2, <2>3, <2>4
<1>18. Dense(d)
  BY <1>1, <1>11, <1>17 DEF Dense
<1>19. d \in Left
  BY <1>11, <1>16, <1>18 DEF Left
<1> QED BY <1>19 DEF d, mixed
-----------------------------------------------------------------------------
(* The calls of the client *)

\* Looking for a child leaves all but the cursor alone.
LEMMA LookedIs ==
  ASSUME contents \in Settled, NEW n \in Names, NEW k
  PROVE  /\ Looked(n, k) \in Settled /\ Looked(n, k).nodes = contents.nodes
         /\ Looked(n, k).count = contents.count
         /\ Found(n, k) # 0 => IsChild(contents, Found(n, k), n, k)
<1> DEFINE got == Get2(contents, contents.cursor, n, k)
           d == [contents EXCEPT !.cursor = got.cursor]
<1>1. Good(contents) /\ Rests(contents, contents.cursor) /\ Dense(contents) /\ contents.failed = ""
  BY DEF Settled, Good
<1>2. /\ IF got.it = 0 THEN ~Has(contents.nodes, n, 0) \/ ~Has(contents.nodes, n, k)
                       ELSE IsChild(contents, got.it, n, k)
      /\ Rests(contents, got.cursor)
  BY <1>1, Get2Is
<1>3. Looked(n, k) = d /\ Found(n, k) = got.it
  BY DEF Looked, Found, Get
<1> HIDE DEF got
<1>4. Good(d) /\ d.nodes = contents.nodes /\ d.count = contents.count /\ d.failed = contents.failed
      /\ (Dense(contents) => Dense(d))
  BY <1>1, <1>2, Cursored
<1> HIDE DEF d
<1>5. d \in Settled
  BY <1>1, <1>4 DEF Settled, Good
<1> QED BY <1>2, <1>3, <1>4, <1>5

LEMMA FoundIs ==
  ASSUME contents \in Settled, NEW n \in Names, NEW k \in Nat, Found(n, k) # 0
  PROVE  /\ Found(n, k) \in DOMAIN contents.nodes
         /\ contents.nodes[Found(n, k)].name = n /\ contents.nodes[Found(n, k)].index = k
<1> PICK it : it = Found(n, k)
  OBVIOUS
<1>1. IsChild(contents, it, n, k) /\ Good(contents)
  BY LookedIs DEF Settled
<1>2. it \in DOMAIN contents.nodes /\ contents.nodes[it].name = n /\ contents.nodes[it].index = k
  BY <1>1, ChildIs
<1> QED BY <1>2

\* A slot that is emptied, or populated.
LEMMA SlotLeft ==
  ASSUME NEW c \in Left, NEW it \in DOMAIN c.nodes, NEW e \in BOOLEAN
  PROVE  [c EXCEPT !.nodes[it].empty = e] \in Left
<1> DEFINE x == [c.nodes[it] EXCEPT !.empty = e]
           d == [c EXCEPT !.nodes[it] = x]
<1>1. c \in Array /\ Good(c) /\ (c.failed = "" => Dense(c)) /\ c.nodes \in Seq(Node)
  BY DEF Left, Array
<1>2. c.nodes[it] \in Node /\ c.nodes[it].index < Len(c.nodes)
  BY <1>1, NodeIs
<1>3. x \in Node /\ x.name = c.nodes[it].name /\ x.ordinal = c.nodes[it].ordinal
      /\ x.index = c.nodes[it].index
  BY <1>2 DEF Node
<1>4. [c EXCEPT !.nodes[it].empty = e] = d
  BY <1>1 DEF Array
<1> HIDE DEF x
<1>5. /\ Good(d) /\ d.failed = c.failed
      /\ x.index = c.nodes[it].index => (Dense(c) => Dense(d))
  BY <1>1, <1>2, <1>3, RewrittenGood
<1> HIDE DEF d
<1>6. d \in Left
  BY <1>1, <1>3, <1>5 DEF Left, Good
<1> QED BY <1>4, <1>6

LEMMA SetLeft ==
  ASSUME contents \in Settled, NEW n \in Names, NEW k \in Nat, SetWID(n, k)
  PROVE  contents' \in Left
<1> PICK it : it = Found(n, k)
  OBVIOUS
<1> PICK c : c = Looked(n, k)
  OBVIOUS
<1>1. it \in DOMAIN contents.nodes /\ c \in Settled /\ c.nodes = contents.nodes
  BY LookedIs, FoundIs DEF SetWID
<1>2. contents' = [c EXCEPT !.nodes[it].empty = ~@]
  BY DEF SetWID
<1> PICK e : e = ~c.nodes[it].empty
  OBVIOUS
<1>3. e \in BOOLEAN
  OBVIOUS
<1>4. contents' = [c EXCEPT !.nodes[it].empty = e]
  BY <1>2
<1>5. c \in Left /\ it \in DOMAIN c.nodes
  BY <1>1 DEF Settled, Left
<1> QED BY <1>3, <1>4, <1>5, SlotLeft

LEMMA RemoveLeft ==
  ASSUME contents \in Settled, NEW n \in Names, NEW k \in Nat, RemoveWID(n, k), ~disturbed'
  PROVE  contents' \in Left
<1> PICK it : it = Found(n, k)
  OBVIOUS
<1> PICK c : c = Looked(n, k)
  OBVIOUS
<1>1. /\ it \in DOMAIN contents.nodes /\ c \in Settled /\ c.nodes = contents.nodes
      /\ c.count = contents.count
      /\ contents.nodes[it].name = n /\ contents.nodes[it].index = k
  BY LookedIs, FoundIs DEF RemoveWID
<1>2. contents' = Removed(c, it) /\ (contents.nodes[it].empty => k + 1 = contents.count[n])
  BY DEF RemoveWID, Disturbing
<1>3. it \in DOMAIN c.nodes /\ c.nodes[it].name = n
      /\ (c.nodes[it].empty => c.nodes[it].index + 1 = c.count[n])
  BY <1>1, <1>2
<1>4. Removed(c, it) \in Left
  BY <1>1, <1>3, RemovedLeft
<1> QED BY <1>2, <1>4

LEMMA MoveLeft ==
  ASSUME contents \in Settled, NEW n \in Names, NEW k \in Nat, NEW m \in Names,
         MoveWID(n, k, m), ~disturbed'
  PROVE  contents' \in Left
<1> PICK it : it = Found(n, k)
  OBVIOUS
<1> PICK c : c = Looked(m, contents.count[m])
  OBVIOUS
<1>1. /\ it \in DOMAIN contents.nodes
      /\ contents.nodes[it].name = n /\ contents.nodes[it].index = k
  BY FoundIs DEF MoveWID
<1>2. c \in Settled /\ c.nodes = contents.nodes /\ c.count = contents.count
  BY LookedIs
<1>3. contents' = Moved(c, it, m) /\ ~contents.nodes[it].empty
      /\ (n = m <=> k + 1 # contents.count[n])
  BY DEF MoveWID, Disturbing
<1>4. it \in DOMAIN c.nodes /\ c.nodes[it].name = n /\ ~c.nodes[it].empty
      /\ (n = m <=> c.nodes[it].index + 1 # c.count[n])
  BY <1>1, <1>2, <1>3
<1>5. Moved(c, it, m) \in Left
  BY <1>2, <1>4, MovedLeft
<1> QED BY <1>3, <1>5

LEMMA MoveOntoLeft ==
  ASSUME contents \in Settled, NEW n \in Names, NEW k \in Nat, NEW m \in Names, NEW j \in Nat,
         MoveOntoWID(n, k, m, j)
  PROVE  contents' \in Left
<1> PICK it : it = Found(n, k)
  OBVIOUS
<1> PICK at : at = Found(m, j)
  OBVIOUS
<1> PICK c : c = Looked(m, j)
  OBVIOUS
<1> DEFINE out == Removed(c, it)
<1>1. /\ it \in DOMAIN contents.nodes /\ contents.nodes[it].name = n
      /\ at \in DOMAIN contents.nodes
  BY FoundIs DEF MoveOntoWID
<1>2. c \in Settled /\ c.nodes = contents.nodes /\ c.count = contents.count
  BY LookedIs
<1>3. contents' = IF out.failed # "" THEN out ELSE [out EXCEPT !.nodes[at].empty = FALSE]
  BY DEF MoveOntoWID
<1>4. ~contents.nodes[it].empty
  BY DEF MoveOntoWID
<1>5. it \in DOMAIN c.nodes /\ c.nodes[it].name = n
      /\ (c.nodes[it].empty => c.nodes[it].index + 1 = c.count[n])
  BY <1>1, <1>2, <1>4
<1>6. out \in Left /\ Alters(c.nodes, out.nodes)
  BY <1>2, <1>5, RemovedLeft
<1> HIDE DEF out
<1>7. at \in DOMAIN out.nodes
  <2>1. c.nodes \in Seq(Node) /\ out.nodes \in Seq(Node) /\ Len(out.nodes) = Len(c.nodes)
    BY <1>2, <1>6 DEF Settled, Array, Alters
  <2>2. DOMAIN c.nodes = 1..Len(c.nodes) /\ DOMAIN out.nodes = 1..Len(out.nodes)
    BY <2>1, AtIs
  <2> QED BY <1>1, <1>2, <2>1, <2>2
<1> PICK e : e = FALSE
  OBVIOUS
<1>8. e \in BOOLEAN /\ contents' = IF out.failed # "" THEN out
                                   ELSE [out EXCEPT !.nodes[at].empty = e]
  BY <1>3
<1>9. [out EXCEPT !.nodes[at].empty = e] \in Left
  BY <1>6, <1>7, <1>8, SlotLeft
<1> QED BY <1>6, <1>8, <1>9

\* The array while it is in order; the inductive invariant is that it is, until disturbed.
InOrder == contents \in Left /\ Len(contents.nodes) <= MaxNodes

ContentsInv == disturbed \in BOOLEAN /\ (~disturbed => InOrder)

LEMMA InitLeft == ContentsInit => InOrder
<1> SUFFICES ASSUME ContentsInit PROVE InOrder
  OBVIOUS
<1> DEFINE none == [n \in Names |-> 0]
           c == [nodes |-> <<>>, count |-> none, cursor |-> 1, failed |-> ""]
<1>1. contents = c
  BY DEF ContentsInit, Names
<1>2. c.nodes = <<>> /\ c.count = none /\ c.cursor = 1 /\ c.failed = "" /\ none \in [Names -> Nat]
  OBVIOUS
<1>3. <<>> \in Seq(Node) /\ Len(<<>>) = 0 /\ DOMAIN <<>> = {}
  OBVIOUS
<1>4. c \in Array
  BY <1>3 DEF Array
<1> HIDE DEF c
<1>5. Rests(c, 1)
  <2>1. c.nodes \in Seq(Node) /\ Len(c.nodes) = 0
    BY <1>2, <1>3
  <2>2. End(c) = 1 /\ ~HasText(c, End(c))
    BY <2>1, AtIs
  <2> QED BY <2>2 DEF Rests
<1>6. \A n \in Names : c.count[n] = Cardinality(Where(c.nodes, Called(n)))
  <2>1. \A K : Where(<<>>, K) = {}
    BY <1>3 DEF Where
  <2>2. Cardinality({}) = 0
    BY FS_EmptySet
  <2> QED BY <1>2, <2>1, <2>2
<1>7. Ordered(c.nodes)
  BY <1>2, <1>3 DEF Ordered
<1>8. Good(c)
  BY <1>2, <1>3, <1>4, <1>5, <1>6, <1>7 DEF Good
<1>9. Dense(c)
  <2>1. \A n \in Names : c.count[n] = 0
    BY <1>2
  <2>2. \A k \in Nat : ~(k < 0)
    OBVIOUS
  <2> QED BY <2>1, <2>2 DEF Dense
<1>10. MaxNodes \in Nat
  BY ContentsAssumption
<1>11. Len(c.nodes) <= MaxNodes
  <2>1. Len(c.nodes) = 0
    BY <1>2, <1>3
  <2> QED BY <1>10, <2>1
<1> QED BY <1>1, <1>4, <1>8, <1>9, <1>11 DEF InOrder, Left

LEMMA NextLeft ==
  ASSUME InOrder, [ContentsNext]_contentsVars, ~disturbed'
  PROVE  InOrder'
<1>1. CASE UNCHANGED contentsVars
  BY <1>1 DEF InOrder, contentsVars
<1>2. CASE ContentsNext
  <2>1. contents.failed = "" /\ contents \in Settled
    BY <1>2 DEF ContentsNext, InOrder, Left, Settled
  <2>2. Len(contents'.nodes) <= MaxNodes
    BY <1>2 DEF ContentsNext
  <2>3. contents' \in Left
    <3>1. \A k \in 0..(MaxNodes - 1) : k \in Nat
      OBVIOUS
    <3>2. ASSUME NEW n \in Names, NEW k \in Nat, Look(n, k) PROVE contents' \in Left
      BY <2>1, <3>2, LookedIs DEF Look, Settled, Left
    <3>3. ASSUME NEW n \in Names, NEW k \in Nat, SetWID(n, k) PROVE contents' \in Left
      BY <2>1, <3>3, SetLeft
    <3>4. ASSUME NEW n \in Names, NEW k \in Nat, RemoveWID(n, k) PROVE contents' \in Left
      BY <2>1, <3>4, RemoveLeft
    <3>5. ASSUME NEW n \in Names, NEW k \in Nat, ResizeWID(n, k) PROVE contents' \in Left
      BY <2>1, <3>5, ResizedGood DEF ResizeWID
    <3>6. ASSUME NEW n \in Names, AddWID(n) PROVE contents' \in Left
      <4> PICK c : c = Looked(n, contents.count[n])
        OBVIOUS
      <4>1. PICK e \in BOOLEAN : contents' = Added(c, n, e)
        BY <3>6 DEF AddWID
      <4>2. c \in Settled
        BY <2>1, LookedIs
      <4>3. Good(c) /\ Dense(c) /\ c.failed = ""
        BY <4>2 DEF Settled
      <4> DEFINE d == Added(c, n, e)
      <4>4. Good(d) /\ d.failed = c.failed /\ (Dense(c) => Dense(d))
        BY ONLY <4>3, n \in Names, e \in BOOLEAN, AddedGood
      <4> HIDE DEF d
      <4>5. d \in Left
        BY <4>3, <4>4 DEF Left, Good
      <4> QED BY <4>1, <4>5 DEF d
    <3>7. ASSUME NEW n \in Names, PushBackWRT(n) PROVE contents' \in Left
      BY <2>1, <3>7, ReadLeft DEF PushBackWRT, Disturbing
    <3>8. ASSUME NEW n \in Names, NEW m \in Names, NEW k \in Nat, MoveWID(n, k, m)
          PROVE  contents' \in Left
      BY <2>1, <3>8, MoveLeft
    <3>9. ASSUME NEW n \in Names, NEW m \in Names, NEW k \in Nat, NEW j \in Nat,
                 MoveOntoWID(n, k, m, j)
          PROVE  contents' \in Left
      BY <2>1, <3>9, MoveOntoLeft
    <3>10. ASSUME NEW i \in 1..End(contents), InsertText(i) PROVE contents' \in Left
      BY <2>1, <3>10, MixedLeft DEF InsertText
    <3>11. \/ \E n \in Names, k \in 0..(MaxNodes - 1) :
                Look(n, k) \/ SetWID(n, k) \/ RemoveWID(n, k) \/ ResizeWID(n, k)
           \/ \E n \in Names : AddWID(n) \/ PushBackWRT(n)
           \/ \E n, m \in Names, k, j \in 0..(MaxNodes - 1) :
                MoveWID(n, k, m) \/ MoveOntoWID(n, k, m, j)
           \/ \E i \in 1..End(contents) : InsertText(i)
      BY <1>2 DEF ContentsNext, Names
    <3>12. CASE \E n \in Names, k \in 0..(MaxNodes - 1) :
                  Look(n, k) \/ SetWID(n, k) \/ RemoveWID(n, k) \/ ResizeWID(n, k)
      BY <3>1, <3>2, <3>3, <3>4, <3>5, <3>12
    <3>13. CASE \E n \in Names : AddWID(n) \/ PushBackWRT(n)
      BY <3>6, <3>7, <3>13
    <3>14. CASE \E n, m \in Names, k, j \in 0..(MaxNodes - 1) :
                  MoveWID(n, k, m) \/ MoveOntoWID(n, k, m, j)
      BY <3>1, <3>8, <3>9, <3>14
    <3>15. CASE \E i \in 1..End(contents) : InsertText(i)
      BY <3>10, <3>15
    <3> QED BY <3>11, <3>12, <3>13, <3>14, <3>15
  <2> QED BY <2>2, <2>3 DEF InOrder
<1> QED BY <1>1, <1>2

\* What is disturbed stays so.
LEMMA DisturbedStays ==
  ASSUME disturbed \in BOOLEAN, [ContentsNext]_contentsVars
  PROVE  disturbed' \in BOOLEAN /\ (disturbed => disturbed')
<1>1. CASE UNCHANGED contentsVars
  BY <1>1 DEF contentsVars
<1>2. ASSUME NEW call, Disturbing(call) PROVE disturbed' \in BOOLEAN /\ (disturbed => disturbed')
  BY <1>2 DEF Disturbing
<1>3. CASE ContentsNext
  <2>1. UNCHANGED disturbed \/ \E call : Disturbing(call)
    <3>1. ASSUME NEW n, NEW k, Look(n, k) \/ SetWID(n, k) \/ ResizeWID(n, k) \/ AddWID(n)
          PROVE  UNCHANGED disturbed
      BY <3>1 DEF Look, SetWID, ResizeWID, AddWID
    <3>2. ASSUME NEW n, NEW k, NEW m, NEW j, MoveOntoWID(n, k, m, j) PROVE UNCHANGED disturbed
      BY <3>2 DEF MoveOntoWID
    <3>3. ASSUME NEW i, InsertText(i) PROVE UNCHANGED disturbed
      BY <3>3 DEF InsertText
    <3>4. ASSUME NEW n, NEW k, RemoveWID(n, k) PROVE \E call : Disturbing(call)
      BY <3>4 DEF RemoveWID
    <3>5. ASSUME NEW n, NEW k, NEW m, MoveWID(n, k, m) PROVE \E call : Disturbing(call)
      BY <3>5 DEF MoveWID
    <3>6. ASSUME NEW n, PushBackWRT(n) PROVE \E call : Disturbing(call)
      BY <3>6 DEF PushBackWRT
    <3> QED BY <1>3, <3>1, <3>2, <3>3, <3>4, <3>5, <3>6 DEF ContentsNext
  <2> QED BY <1>2, <2>1
<1> QED BY <1>1, <1>3

\* The invariant of the contents-array holds, through any calls, until one of those that
\* it is not up to.
THEOREM ContentsStay == ContentsSpec => []ContentsInv
<1>1. ContentsInit => ContentsInv
  BY InitLeft DEF ContentsInit, ContentsInv
<1>2. ContentsInv /\ [ContentsNext]_contentsVars => ContentsInv'
  BY NextLeft, DisturbedStays DEF ContentsInv
<1> QED BY <1>1, <1>2, PTL DEF ContentsSpec
-----------------------------------------------------------------------------
(* What it says *)

\* Until the array is disturbed nodes, counters and the failure are of their types: no
\* counter passes the array.
THEOREM ContentsTypes == ContentsSpec => [](disturbed \/ ContentsTypeOK)
<1>1. ContentsInv => disturbed \/ ContentsTypeOK
  <2> SUFFICES ASSUME InOrder, disturbed \in BOOLEAN PROVE ContentsTypeOK
    BY DEF ContentsInv
  <2> PICK c : c = contents
    OBVIOUS
  <2> PICK z : z = Len(c.nodes)
    OBVIOUS
  <2>1. c \in Array /\ Good(c) /\ c.nodes \in Seq(Node) /\ z <= MaxNodes /\ MaxNodes \in Nat
        /\ c.count \in [Names -> Nat]
    BY ContentsAssumption DEF InOrder, Left, Array
  <2>2. z \in Nat
    BY <2>1, AtIs
  <2>3. ASSUME NEW i \in DOMAIN c.nodes
        PROVE  c.nodes[i] \in [name : Named \union {Unnamed, NoName}, index : 0..MaxNodes,
                               ordinal : Ordinals, empty : BOOLEAN]
    <3> PICK x : x = c.nodes[i]
      OBVIOUS
    <3>1. x \in Node /\ x.index \in Nat /\ x.index < z
      BY <2>1, NodeIs
    <3>2. x.index \in 0..MaxNodes
      BY <2>1, <2>2, <3>1
    <3>3. Names \union {NoName} = Named \union {Unnamed, NoName}
      BY DEF Names
    <3> QED BY <3>1, <3>2, <3>3 DEF Node
  <2>4. \A n \in Names : c.count[n] \in 0..MaxNodes
    <3> SUFFICES ASSUME NEW n \in Names PROVE c.count[n] \in 0..MaxNodes
      OBVIOUS
    <3> PICK k : k = c.count[n]
      OBVIOUS
    <3>1. Cardinality(Where(c.nodes, Called(n))) <= Len(c.nodes)
      BY <2>1, WhereFinite
    <3>2. k <= z /\ k \in Nat
      BY <2>1, <3>1 DEF Good
    <3> QED BY <2>1, <2>2, <3>2
  <2>5. c.count \in [Names -> 0..MaxNodes]
    BY <2>1, <2>4
  <2>6. c.failed \in {"", "cursor", "count", "resize"}
    BY <2>1 DEF Array
  <2> QED BY <2>3, <2>5, <2>6 DEF ContentsTypeOK, Names
<1> QED BY <1>1, ContentsStay, PTL

\* The indices of the children of a name are 0 to size() - 1, each once, until a call is
\* made that takes out a placeholder before the last, moves the last child of a name to
\* the end of its own array, or reads what is out of order.
THEOREM SubscriptsStayDense == ContentsSpec => []DenseUntilDisturbed
<1>1. ContentsInv => DenseUntilDisturbed
  <2> SUFFICES ASSUME InOrder, contents.failed = "", NEW n \in Names
               PROVE  LET children == {i \in DOMAIN contents.nodes : contents.nodes[i].name = n}
                      IN  /\ Cardinality(children) = contents.count[n]
                          /\ {contents.nodes[i].index : i \in children}
                               = 0..(contents.count[n] - 1)
    BY DEF SubscriptsDense, DenseUntilDisturbed, ContentsInv, Names
  <2> PICK c : c = contents
    OBVIOUS
  <2> PICK size : size = c.count[n]
    OBVIOUS
  <2> DEFINE children == {i \in DOMAIN c.nodes : c.nodes[i].name = n}
             I == {c.nodes[i].index : i \in children}
  <2>1. Good(c) /\ Dense(c) /\ size \in Nat
    BY DEF InOrder, Left, Array
  <2>7. size \in Nat
    BY <2>1
  <2>2. children = Where(c.nodes, Called(n))
    <3>1. \A i \in DOMAIN c.nodes : c.nodes[i] \in Node
      BY <2>1, NodeIs
    <3> QED BY <3>1 DEF Where, Called
  <2>3. Cardinality(children) = size
    BY <2>1, <2>2 DEF Good
  <2>4. ASSUME NEW k \in I PROVE k \in 0..(size - 1)
    <3>1. PICK i \in DOMAIN c.nodes : c.nodes[i].name = n /\ c.nodes[i].index = k
      BY <2>4
    <3>2. k \in Nat /\ Has(c.nodes, n, k)
      BY <2>1, <3>1, NodeIs DEF Has
    <3>3. \A j \in Nat : j < size => Has(c.nodes, n, j)
      BY <2>1 DEF Dense
    <3>4. ASSUME k >= size PROVE FALSE
      <4>1. c.count[n] > size
        BY <2>1, <3>2, <3>3, <3>4, CountsPast
      <4>2. size > size
        BY <4>1
      <4> QED BY ONLY <2>7, <4>2
    <3>5. k \in Nat
      BY <3>2
    <3> QED BY ONLY <2>7, <3>4, <3>5
  <2>5. ASSUME NEW k \in 0..(size - 1) PROVE k \in I
    <3>1. k \in Nat /\ k < size
      BY ONLY <2>7, k \in 0..(size - 1)
    <3>2. Has(c.nodes, n, k)
      BY <2>1, <3>1 DEF Dense
    <3> QED BY <3>2 DEF Has
  <2>6. I = 0..(size - 1)
    BY <2>4, <2>5
  <2> QED BY <2>3, <2>6
<1> QED BY <1>1, ContentsStay, PTL

\* Until then, the array is in the order of the schema, and no place is taken more often
\* than it allows.
THEOREM SchemaOrdered == ContentsSpec => []OrderedUntilDisturbed
<1>1. ContentsInv => OrderedUntilDisturbed
  <2> SUFFICES ASSUME InOrder PROVE SchemaOrder
    BY DEF ContentsInv, OrderedUntilDisturbed
  <2> PICK s : s = contents.nodes
    OBVIOUS
  <2>1. Ordered(s) /\ Top \in Nat /\ \A i \in DOMAIN s : s[i] \in Node
    BY NodeIs, Schema DEF InOrder, Left, Good
  <2> DEFINE ordinal == [i \in DOMAIN s |-> s[i].ordinal]
             children == {i \in DOMAIN ordinal : ordinal[i] <= Top}
  <2>2. \A i, j \in children : i < j => ordinal[i] >= ordinal[j]
    BY <2>1 DEF Ordered
  <2>3. ASSUME NEW i \in children, ordinal[i] > 0
        PROVE  Cardinality({j \in children : ordinal[j] = ordinal[i]}) <= MaxOccurs[s[i].name]
    <3> DEFINE o == s[i].ordinal
    <3>1. o \in 1..Top
      <4>1. s[i].ordinal \in Nat
        BY <2>1 DEF Node, Ordinals
      <4> QED BY <2>1, <2>3, <4>1
    <3>2. {j \in children : ordinal[j] = ordinal[i]} = Where(s, Placed(o))
      BY <2>1, <3>1 DEF Where, Placed
    <3> QED BY <2>1, <3>1, <3>2 DEF Ordered
  <2> QED BY <2>2, <2>3 DEF SchemaOrder
<1> QED BY <1>1, ContentsStay, PTL

\* Until then, the cursor that every search starts from is in the array or at its end, never
\* on text. (TLC finds that it is so ever after.)
THEOREM CursorAlwaysRests == ContentsSpec => [](disturbed \/ CursorRests)
<1>1. ContentsInv => disturbed \/ CursorRests
  BY DEF ContentsInv, InOrder, Left, Good, Rests, CursorRests
<1> QED BY <1>1, ContentsStay, PTL

\* Until then, from wherever the cursor rests, _get() finds the child that is asked for, if
\* it is there, and no other.
THEOREM GetAlwaysFinds == ContentsSpec => []GetFinds
<1>1. ContentsInv => GetFinds
  <2> SUFFICES ASSUME InOrder, contents.failed = "", NEW n \in Names, NEW k \in 0..MaxNodes,
                      NEW from \in 1..End(contents), ~HasText(contents, from)
               PROVE  LET got == Get2(contents, from, n, k)
                      IN  /\ IF \E i \in DOMAIN contents.nodes : IsChild(contents, i, n, k)
                             THEN IsChild(contents, got.it, n, k) ELSE got.it = 0
                          /\ ~HasText(contents, got.cursor)
    BY DEF GetFinds, ContentsInv, Names
  <2> DEFINE got == Get2(contents, from, n, k)
  <2>1. Good(contents) /\ Dense(contents) /\ Rests(contents, from)
    BY DEF InOrder, Left, Rests
  <2>2. /\ IF Has(contents.nodes, n, k) THEN IsChild(contents, got.it, n, k) ELSE got.it = 0
        /\ Rests(contents, got.cursor)
    BY <2>1, FoundWhereDense
  <2> HIDE DEF got
  <2>3. Has(contents.nodes, n, k) <=> \E i \in DOMAIN contents.nodes : IsChild(contents, i, n, k)
    <3>1. ASSUME Has(contents.nodes, n, k)
          PROVE  \E i \in DOMAIN contents.nodes : IsChild(contents, i, n, k)
      BY <2>1, <3>1, HasIsChild DEF Has
    <3>2. ASSUME NEW i \in DOMAIN contents.nodes, IsChild(contents, i, n, k)
          PROVE  Has(contents.nodes, n, k)
      BY <2>1, <3>2, ChildIs
    <3> QED BY <3>1, <3>2
  <2> QED BY <2>2, <2>3 DEF Rests, got
<1> QED BY <1>1, ContentsStay, PTL
=============================================================================
