--------------------------- MODULE QueriesProofs ---------------------------
(***************************************************************************)
(* Theorems on the searches of a tree: what the SID resolver finds on the  *)
(* way up from the elements with a SID is what a search down by levels     *)
(* finds, and SID paths lead to the element that they name, for trees of   *)
(* any shape and size.                                                     *)
(*                                                                         *)
(* An element's line, the way up from it, is what both are about: an       *)
(* element is at a level below a scope if the scope is at that place of    *)
(* its line.                                                               *)
(***************************************************************************)
EXTENDS Queries, Recursion, FiniteSetTheorems, SequenceTheorems

\* No item occurs twice.
Once(s) == \A i, j \in DOMAIN s : s[i] = s[j] => i = j

\* Every way up ends, in the tree all along, and every child has one place.
QueriesInv ==
  /\ QueriesTypeOK
  /\ Ends(Nodes, above)
  /\ \A n \in Nodes : above[n] # NoNode => above[n] \in InTree
  /\ \A p \in Nodes : Once(below[p])
-----------------------------------------------------------------------------
(* The tree *)

\* What InsertAt and RemoveAt return, item by item.
LEMMA InsertedAt ==
  ASSUME NEW S, NEW s \in Seq(S), NEW i \in 1..(Len(s) + 1), NEW x \in S
  PROVE  /\ InsertAt(s, i, x) \in Seq(S)
         /\ Len(InsertAt(s, i, x)) = Len(s) + 1
         /\ \A j \in 1..(Len(s) + 1) :
              InsertAt(s, i, x)[j] = IF j < i THEN s[j] ELSE IF j = i THEN x ELSE s[j - 1]
<1> DEFINE A == SubSeq(s, 1, i - 1)
           M == <<x>>
           B == SubSeq(s, i, Len(s))
<1>1. Len(s) \in Nat /\ \A j \in 1..Len(s) : s[j] \in S
  BY LenProperties, ElementOfSeq
<1>2. /\ A \in Seq(S) /\ Len(A) = i - 1
      /\ \A j \in 1..(i - 1) : A[j] = s[j]
  <2>1. \A j \in 1..(i - 1) : s[j] \in S
    BY <1>1
  <2>2. i - 1 \in Int /\ 1 \in Int
    BY <1>1
  <2>3. /\ A \in Seq(S)
        /\ Len(A) = IF 1 <= i - 1 THEN i - 1 - 1 + 1 ELSE 0
        /\ \A j \in 1..(i - 1 - 1 + 1) : A[j] = s[1 + j - 1]
    BY <2>1, <2>2, SubSeqProperties
  <2> HIDE DEF A
  <2>4. \A j \in 1..(i - 1) : 1 + j - 1 = j
    OBVIOUS
  <2> QED BY <1>1, <2>3, <2>4
<1>3. /\ B \in Seq(S) /\ Len(B) = Len(s) - i + 1
      /\ \A j \in 1..(Len(s) - i + 1) : B[j] = s[i + j - 1]
  <2>1. \A j \in i..Len(s) : s[j] \in S
    BY <1>1
  <2>2. i \in Int /\ Len(s) \in Int
    BY <1>1
  <2>3. /\ B \in Seq(S)
        /\ Len(B) = IF i <= Len(s) THEN Len(s) - i + 1 ELSE 0
        /\ \A j \in 1..(Len(s) - i + 1) : B[j] = s[i + j - 1]
    BY <2>1, <2>2, SubSeqProperties
  <2> HIDE DEF B
  <2> QED BY <1>1, <2>3
<1>4. M \in Seq(S) /\ Len(M) = 1 /\ M[1] = x
  OBVIOUS
<1> HIDE DEF A, M, B
<1>5. /\ A \o M \in Seq(S) /\ Len(A \o M) = Len(A) + Len(M)
      /\ \A j \in 1..(Len(A) + Len(M)) :
           (A \o M)[j] = IF j <= Len(A) THEN A[j] ELSE M[j - Len(A)]
  BY <1>2, <1>4, ConcatProperties
<1> DEFINE C == A \o M
<1>6. C \in Seq(S) /\ Len(C) = i /\ \A j \in 1..i : C[j] = IF j < i THEN s[j] ELSE x
  <2>1. Len(C) = i
    BY <1>1, <1>2, <1>4, <1>5
  <2>2. ASSUME NEW j \in 1..i PROVE C[j] = IF j < i THEN s[j] ELSE x
    <3>1. CASE j < i
      BY <1>1, <1>2, <1>4, <1>5, <3>1
    <3>2. CASE j = i
      BY <1>1, <1>2, <1>4, <1>5, <3>2
    <3>3. j < i \/ j = i
      BY <1>1
    <3> QED BY <3>1, <3>2, <3>3
  <2> QED BY <1>5, <2>1, <2>2
<1> HIDE DEF C
<1>7. /\ C \o B \in Seq(S) /\ Len(C \o B) = Len(C) + Len(B)
      /\ \A j \in 1..(Len(C) + Len(B)) :
           (C \o B)[j] = IF j <= Len(C) THEN C[j] ELSE B[j - Len(C)]
  BY <1>3, <1>6, ConcatProperties
<1>8. InsertAt(s, i, x) = C \o B
  BY DEF InsertAt, A, M, B, C
<1>9. Len(C) + Len(B) = Len(s) + 1
  BY <1>1, <1>3, <1>6
<1>10. ASSUME NEW j \in 1..(Len(s) + 1)
       PROVE  (C \o B)[j] = IF j < i THEN s[j] ELSE IF j = i THEN x ELSE s[j - 1]
  <2>1. CASE j <= i
    BY <1>1, <1>6, <1>7, <1>9, <2>1
  <2>2. CASE j > i
    <3>1. (C \o B)[j] = B[j - i]
      BY <1>1, <1>6, <1>7, <1>9, <2>2
    <3>2. j - i \in 1..(Len(s) - i + 1) /\ i + (j - i) - 1 = j - 1
      BY <1>1, <2>2
    <3>3. B[j - i] = s[i + (j - i) - 1]
      BY <1>3, <3>2
    <3> QED BY <2>2, <3>1, <3>2, <3>3
  <2>3. j <= i \/ j > i
    BY <1>1
  <2> QED BY <2>1, <2>2, <2>3
<1> QED BY <1>7, <1>8, <1>9, <1>10

LEMMA RemovedAt ==
  ASSUME NEW S, NEW s \in Seq(S), NEW i \in 1..Len(s)
  PROVE  /\ RemoveAt(s, i) \in Seq(S)
         /\ Len(RemoveAt(s, i)) = Len(s) - 1
         /\ \A j \in 1..(Len(s) - 1) : RemoveAt(s, i)[j] = IF j < i THEN s[j] ELSE s[j + 1]
<1> DEFINE A == SubSeq(s, 1, i - 1)
           B == SubSeq(s, i + 1, Len(s))
<1>1. Len(s) \in Nat /\ \A j \in 1..Len(s) : s[j] \in S
  BY LenProperties, ElementOfSeq
<1>2. /\ A \in Seq(S) /\ Len(A) = i - 1
      /\ \A j \in 1..(i - 1) : A[j] = s[j]
  <2>1. \A j \in 1..(i - 1) : s[j] \in S
    BY <1>1
  <2>2. i - 1 \in Int /\ 1 \in Int
    BY <1>1
  <2>3. /\ A \in Seq(S)
        /\ Len(A) = IF 1 <= i - 1 THEN i - 1 - 1 + 1 ELSE 0
        /\ \A j \in 1..(i - 1 - 1 + 1) : A[j] = s[1 + j - 1]
    BY <2>1, <2>2, SubSeqProperties
  <2> HIDE DEF A
  <2>4. \A j \in Int : 1 + j - 1 = j
    BY SMTT(30)
  <2> QED BY <1>1, <2>3, <2>4
<1>3. /\ B \in Seq(S) /\ Len(B) = Len(s) - i
      /\ \A j \in 1..(Len(s) - i) : B[j] = s[i + j]
  <2>1. \A j \in (i + 1)..Len(s) : s[j] \in S
    BY <1>1
  <2>2. i + 1 \in Int /\ Len(s) \in Int
    BY <1>1
  <2>3. /\ B \in Seq(S)
        /\ Len(B) = IF i + 1 <= Len(s) THEN Len(s) - (i + 1) + 1 ELSE 0
        /\ \A j \in 1..(Len(s) - (i + 1) + 1) : B[j] = s[i + 1 + j - 1]
    BY <2>1, <2>2, SubSeqProperties
  <2> HIDE DEF B
  <2>4. /\ Len(s) - (i + 1) + 1 = Len(s) - i
        /\ \A j \in 1..(Len(s) - i) : i + 1 + j - 1 = i + j
    BY <1>1
  <2>5. Len(B) = Len(s) - i
    BY <1>1, <2>3
  <2> QED BY <2>3, <2>4, <2>5
<1> HIDE DEF A, B
<1>4. /\ A \o B \in Seq(S) /\ Len(A \o B) = Len(A) + Len(B)
      /\ \A j \in 1..(Len(A) + Len(B)) :
           (A \o B)[j] = IF j <= Len(A) THEN A[j] ELSE B[j - Len(A)]
  BY <1>2, <1>3, ConcatProperties
<1>5. RemoveAt(s, i) = A \o B
  BY DEF RemoveAt, A, B
<1>6. Len(A) + Len(B) = Len(s) - 1
  BY <1>1, <1>2, <1>3
<1>7. ASSUME NEW j \in 1..(Len(s) - 1)
      PROVE  (A \o B)[j] = IF j < i THEN s[j] ELSE s[j + 1]
  <2>1. CASE j < i
    BY <1>1, <1>2, <1>4, <1>6, <2>1
  <2>2. CASE j >= i
    <3>1. (A \o B)[j] = B[j - (i - 1)]
      BY <1>1, <1>2, <1>4, <1>6, <2>2
    <3>2. j - (i - 1) \in 1..(Len(s) - i) /\ i + (j - (i - 1)) = j + 1
      BY <1>1, <2>2
    <3>3. B[j - (i - 1)] = s[i + (j - (i - 1))]
      BY <1>3, <3>2
    <3> QED BY <2>2, <3>1, <3>2, <3>3
  <2>3. j < i \/ j >= i
    BY <1>1
  <2> QED BY <2>1, <2>2, <2>3
<1> QED BY <1>4, <1>5, <1>6, <1>7

\* What that means for the members of a sequence that has each once.
LEMMA InsertedOnce ==
  ASSUME NEW S, NEW s \in Seq(S), NEW i \in 1..(Len(s) + 1), NEW x \in S,
         Once(s), x \notin Range(s)
  PROVE  /\ Once(InsertAt(s, i, x))
         /\ Range(InsertAt(s, i, x)) = Range(s) \union {x}
<1>1. PICK t : t = InsertAt(s, i, x)
  OBVIOUS
<1>2. /\ t \in Seq(S) /\ Len(t) = Len(s) + 1
      /\ \A j \in 1..(Len(s) + 1) : t[j] = IF j < i THEN s[j] ELSE IF j = i THEN x ELSE s[j - 1]
  BY <1>1, InsertedAt
<1>3. PICK z : z = Len(s)
  OBVIOUS
<1>4. z \in Nat /\ DOMAIN s = 1..z /\ DOMAIN t = 1..(z + 1) /\ i \in 1..(z + 1)
  BY <1>2, <1>3, LenProperties
<1>5. \A j \in 1..(z + 1) : t[j] = IF j < i THEN s[j] ELSE IF j = i THEN x ELSE s[j - 1]
  BY <1>2, <1>3
<1>6. \A j \in 1..z : s[j] # x
  BY <1>4 DEF Range
<1>7. \A j, k \in 1..z : s[j] = s[k] => j = k
  BY <1>4 DEF Once
<1>8. Once(t)
  <2>1. \A j \in 1..(z + 1) : /\ j < i => j \in 1..z
                              /\ j > i => j - 1 \in 1..z
    BY <1>4
  <2>2. \A j, k \in 1..(z + 1) : t[j] = t[k] => j = k
    BY ONLY <1>4, <1>5, <1>6, <1>7, <2>1
  <2> QED BY <1>4, <2>2 DEF Once
<1>9. Range(t) = Range(s) \union {x}
  <2>1. ASSUME NEW j \in 1..(z + 1) PROVE t[j] \in Range(s) \union {x}
    <3>1. CASE j < i
      <4>1. j \in 1..z /\ t[j] = s[j]
        BY <1>4, <1>5, <3>1
      <4> QED BY <1>4, <4>1 DEF Range
    <3>2. CASE j = i
      BY <1>4, <1>5, <3>2
    <3>3. CASE j > i
      <4>1. j - 1 \in 1..z /\ t[j] = s[j - 1]
        BY <1>4, <1>5, <3>3
      <4> QED BY <1>4, <4>1 DEF Range
    <3> QED BY <1>4, <3>1, <3>2, <3>3
  <2>2. ASSUME NEW j \in 1..z PROVE s[j] \in Range(t)
    <3>1. CASE j < i
      BY <1>4, <1>5, <3>1 DEF Range
    <3>2. CASE j >= i
      <4>1. j + 1 \in 1..(z + 1) /\ ~(j + 1 < i) /\ j + 1 # i /\ j + 1 - 1 = j
        BY <1>4, <3>2
      <4>2. t[j + 1] = s[j]
        BY <1>5, <4>1
      <4> QED BY <1>4, <4>1, <4>2 DEF Range
    <3> QED BY <1>4, <3>1, <3>2
  <2>3. t[i] = x /\ i \in DOMAIN t
    BY <1>4, <1>5
  <2>4. Range(t) \subseteq Range(s) \union {x}
    BY <1>4, <2>1 DEF Range
  <2>5. x \in Range(t)
    BY <2>3 DEF Range
  <2>6. Range(s) \subseteq Range(t)
    BY <1>4, <2>2 DEF Range
  <2> QED BY <2>4, <2>5, <2>6
<1> QED BY <1>1, <1>8, <1>9

LEMMA RemovedOnce ==
  ASSUME NEW S, NEW s \in Seq(S), NEW i \in 1..Len(s), Once(s)
  PROVE  /\ Once(RemoveAt(s, i))
         /\ Range(RemoveAt(s, i)) = Range(s) \ {s[i]}
<1>1. PICK t : t = RemoveAt(s, i)
  OBVIOUS
<1>2. /\ t \in Seq(S) /\ Len(t) = Len(s) - 1
      /\ \A j \in 1..(Len(s) - 1) : t[j] = IF j < i THEN s[j] ELSE s[j + 1]
  BY <1>1, RemovedAt
<1>3. PICK z : z = Len(s)
  OBVIOUS
<1>4. z \in Nat /\ DOMAIN s = 1..z /\ DOMAIN t = 1..(z - 1) /\ i \in 1..z
  BY <1>2, <1>3, LenProperties
<1>5. \A j \in 1..(z - 1) : t[j] = IF j < i THEN s[j] ELSE s[j + 1]
  BY <1>2, <1>3
<1>6. \A j, k \in 1..z : s[j] = s[k] => j = k
  BY <1>4 DEF Once
<1>7. \A j \in 1..(z - 1) : j \in 1..z /\ j + 1 \in 1..z
  BY <1>4
<1>8. Once(t)
  <2>1. \A j, k \in 1..(z - 1) : t[j] = t[k] => j = k
    BY ONLY <1>4, <1>5, <1>6, <1>7
  <2> QED BY <1>4, <2>1 DEF Once
<1>9. Range(t) = Range(s) \ {s[i]}
  <2>1. ASSUME NEW j \in 1..(z - 1) PROVE t[j] \in Range(s) /\ t[j] # s[i]
    <3>1. CASE j < i
      <4>1. t[j] = s[j] /\ j \in 1..z /\ j # i
        BY <1>4, <1>5, <1>7, <3>1
      <4> QED BY <1>4, <1>6, <4>1 DEF Range
    <3>2. CASE ~(j < i)
      <4>1. t[j] = s[j + 1] /\ j + 1 \in 1..z /\ j + 1 # i
        BY <1>4, <1>5, <1>7, <3>2
      <4> QED BY <1>4, <1>6, <4>1 DEF Range
    <3> QED BY <3>1, <3>2
  <2>2. ASSUME NEW j \in 1..z, j # i PROVE s[j] \in Range(t)
    <3>1. CASE j < i
      <4>1. j \in 1..(z - 1)
        BY <1>4, <3>1
      <4> QED BY <1>4, <1>5, <3>1, <4>1 DEF Range
    <3>2. CASE j > i
      <4>1. j - 1 \in 1..(z - 1) /\ ~(j - 1 < i) /\ j - 1 + 1 = j
        BY <1>4, <3>2
      <4>2. t[j - 1] = s[j]
        BY <1>5, <4>1
      <4> QED BY <1>4, <4>1, <4>2 DEF Range
    <3> QED BY <1>4, <2>2, <3>1, <3>2
  <2>3. Range(t) \subseteq Range(s) \ {s[i]}
    BY <1>4, <2>1 DEF Range
  <2>4. Range(s) \ {s[i]} \subseteq Range(t)
    BY <1>4, <2>2 DEF Range
  <2> QED BY <2>3, <2>4
<1> QED BY <1>1, <1>8, <1>9

\* What the types say, spelt out.
LEMMA Typed ==
  ASSUME QueriesInv
  PROVE  /\ below \in [Nodes -> Seq(Nodes)] /\ above \in [Nodes -> Nodes \union {NoNode}]
         /\ \A n, p \in Nodes : n \in Range(below[p]) <=> above[n] = p
         /\ sid \in [Nodes -> SIDs \union {NoSID}] /\ sort \in [Nodes -> Sorts]
         /\ \A n \in Nodes : above[n] # NoNode => above[n] \in InTree
         /\ \A p \in Nodes : Once(below[p])
         /\ IsFiniteSet(Nodes) /\ Root \in Nodes /\ NoNode \notin Nodes
         /\ InTree \subseteq Nodes
         /\ \A n \in Nodes : n \in InTree <=> n = Root \/ above[n] # NoNode
<1>1. IsFiniteSet(Nodes) /\ Root \in Nodes /\ NoNode \notin Nodes
  BY QueriesAssumption
<1>2. InTree \subseteq Nodes /\ \A n \in Nodes : n \in InTree <=> n = Root \/ above[n] # NoNode
  BY <1>1 DEF InTree
<1> QED BY <1>1, <1>2 DEF QueriesInv, QueriesTypeOK

\* At first the tree is its root.
LEMMA InitInv == QueriesInit => QueriesInv
<1> SUFFICES ASSUME QueriesInit PROVE QueriesInv
  OBVIOUS
<1>1. NoNode \notin Nodes
  BY QueriesAssumption
<1>2. /\ below = [n \in Nodes |-> <<>>] /\ above = [n \in Nodes |-> NoNode]
      /\ sid = [n \in Nodes |-> NoSID] /\ sort = [n \in Nodes |-> Plain]
  BY DEF QueriesInit
<1>3. <<>> \in Seq(Nodes) /\ DOMAIN <<>> = {}
  BY EmptySeq
<1>4. \A p \in Nodes : below[p] = <<>> /\ Range(below[p]) = {} /\ Once(below[p])
  BY <1>2, <1>3 DEF Range, Once
<1>5. QueriesTypeOK
  <2>1. below \in [Nodes -> Seq(Nodes)]
    BY <1>2, <1>3
  <2>2. \A n, p \in Nodes : n \in Range(below[p]) <=> above[n] = p
    BY <1>1, <1>2, <1>4
  <2>3. above \in [Nodes -> Nodes \union {NoNode}] /\ sid \in [Nodes -> SIDs \union {NoSID}]
    BY <1>2
  <2>4. sort \in [Nodes -> Sorts]
    BY <1>2 DEF Sorts
  <2> QED BY <2>1, <2>2, <2>3, <2>4 DEF QueriesTypeOK
<1>6. Ends(Nodes, above)
  BY <1>1, <1>2 DEF Ends
<1>7. \A n \in Nodes : above[n] # NoNode => above[n] \in InTree
  BY <1>2
<1> QED BY <1>4, <1>5, <1>6, <1>7 DEF QueriesInv

\* An element that is placed becomes a leaf: it is above nothing.
LEMMA GraftInv ==
  ASSUME QueriesInv, NEW p \in Nodes, NEW i, NEW s \in SIDs \union {NoSID}, NEW k \in Sorts,
         Graft(p, i, s, k)
  PROVE  QueriesInv'
<1>1. PICK x : x = Fresh
  OBVIOUS
<1>2. x \in Nodes /\ x \notin InTree
  <2>1. \E n \in Nodes : n \notin InTree
    BY Typed DEF Graft
  <2> QED BY <1>1, <2>1 DEF Fresh
<1>3. /\ below' = [below EXCEPT ![p] = InsertAt(@, i, x)]
      /\ above' = [above EXCEPT ![x] = p]
      /\ sid' = [sid EXCEPT ![x] = s]
      /\ sort' = [sort EXCEPT ![x] = k]
      /\ i \in 1..(Len(below[p]) + 1) /\ p \in InTree
  BY <1>1 DEF Graft
<1>4. /\ x # Root /\ x # p /\ above[x] = NoNode
      /\ \A q \in Nodes : x \notin Range(below[q])
      /\ \A n \in Nodes : above[n] # x
  BY <1>2, <1>3, Typed
<1>5. PICK t : t = InsertAt(below[p], i, x)
  OBVIOUS
<1>6. /\ t \in Seq(Nodes)
      /\ Once(t) /\ Range(t) = Range(below[p]) \union {x}
  <2>1. below[p] \in Seq(Nodes) /\ Once(below[p])
    BY Typed
  <2>2. InsertAt(below[p], i, x) \in Seq(Nodes)
    BY <1>2, <1>3, <2>1, InsertedAt
  <2>3. /\ Once(InsertAt(below[p], i, x))
        /\ Range(InsertAt(below[p], i, x)) = Range(below[p]) \union {x}
    BY <1>2, <1>3, <1>4, <2>1, InsertedOnce
  <2> QED BY <1>5, <2>2, <2>3
<1>7. /\ below' \in [Nodes -> Seq(Nodes)] /\ above' \in [Nodes -> Nodes \union {NoNode}]
      /\ \A q \in Nodes : below'[q] = IF q = p THEN t ELSE below[q]
      /\ \A n \in Nodes : above'[n] = IF n = x THEN p ELSE above[n]
  <2>1. below' = [below EXCEPT ![p] = t]
    BY <1>3, <1>5
  <2> QED BY <1>2, <1>3, <1>6, <2>1, Typed
<1>8. \A n, q \in Nodes : n \in Range(below'[q]) <=> above'[n] = q
  <2> SUFFICES ASSUME NEW n \in Nodes, NEW q \in Nodes
               PROVE  n \in Range(below'[q]) <=> above'[n] = q
    OBVIOUS
  <2>1. n \in Range(below[q]) <=> above[n] = q
    BY Typed
  <2>2. below'[q] = (IF q = p THEN t ELSE below[q]) /\ above'[n] = (IF n = x THEN p ELSE above[n])
    BY <1>7
  <2>3. n \in Range(below'[q]) <=> n \in Range(below[q]) \/ (q = p /\ n = x)
    BY <1>6, <2>2
  <2>4. NoNode # q
    BY Typed
  <2> QED BY <1>4, <2>1, <2>2, <2>3, <2>4
<1>9. Ends(Nodes, above')
  <2> SUFFICES ASSUME NEW T \in SUBSET Nodes, T # {} PROVE \E n \in T : above'[n] \notin T
    BY DEF Ends
  <2>1. CASE T \subseteq {x}
    <3>1. x \in T /\ p \notin T
      BY <1>4, <2>1
    <3> QED BY <1>2, <1>7, <3>1
  <2>2. CASE ~(T \subseteq {x})
    <3> DEFINE U == T \ {x}
    <3>1. U \in SUBSET Nodes /\ U # {}
      BY <2>2
    <3> HIDE DEF U
    <3>2. PICK n \in U : above[n] \notin U
      BY <3>1 DEF QueriesInv, Ends
    <3>3. n \in T /\ n # x /\ n \in Nodes
      BY <3>1 DEF U
    <3>4. above[n] \notin T
      BY <1>4, <3>2, <3>3 DEF U
    <3> QED BY <1>7, <3>3, <3>4
  <2> QED BY <2>1, <2>2
<1>10. InTree' = InTree \union {x}
  <2>1. \A n \in Nodes : above'[n] # NoNode <=> n = x \/ above[n] # NoNode
    BY <1>7, Typed
  <2> QED BY <1>2, <2>1 DEF InTree
<1>11. \A n \in Nodes : above'[n] # NoNode => above'[n] \in InTree'
  BY <1>3, <1>7, <1>10, Typed
<1>12. \A q \in Nodes : Once(below'[q])
  BY <1>6, <1>7, Typed
<1>13. sid' \in [Nodes -> SIDs \union {NoSID}] /\ sort' \in [Nodes -> Sorts]
  BY <1>2, <1>3, Typed
<1> QED BY <1>7, <1>8, <1>9, <1>11, <1>12, <1>13 DEF QueriesInv, QueriesTypeOK

\* A leaf is removed from the one place that it has.
LEMMA PruneInv ==
  ASSUME QueriesInv, NEW x \in Nodes, Prune(x)
  PROVE  QueriesInv'
<1>1. PICK p : p = above[x]
  OBVIOUS
<1>2. /\ x # Root /\ x \in InTree /\ below[x] = <<>>
      /\ above' = [above EXCEPT ![x] = NoNode]
      /\ sid' = [sid EXCEPT ![x] = NoSID]
      /\ sort' = [sort EXCEPT ![x] = Plain]
  BY DEF Prune
<1>3. p \in Nodes
  BY <1>1, <1>2, Typed
<1>4. PICK i \in DOMAIN below[p] : /\ below[p][i] = x
                                   /\ below' = [below EXCEPT ![p] = RemoveAt(@, i)]
  BY <1>1 DEF Prune
<1>5. PICK t : t = RemoveAt(below[p], i)
  OBVIOUS
<1>6. t \in Seq(Nodes) /\ Once(t) /\ Range(t) = Range(below[p]) \ {x}
  <2>1. below[p] \in Seq(Nodes) /\ Once(below[p])
    BY <1>3, Typed
  <2>2. i \in 1..Len(below[p])
    BY <2>1, LenProperties
  <2>3. RemoveAt(below[p], i) \in Seq(Nodes)
    BY <2>1, <2>2, RemovedAt
  <2>4. /\ Once(RemoveAt(below[p], i))
        /\ Range(RemoveAt(below[p], i)) = Range(below[p]) \ {below[p][i]}
    BY <2>1, <2>2, RemovedOnce
  <2> QED BY <1>4, <1>5, <2>3, <2>4
<1>7. /\ below' \in [Nodes -> Seq(Nodes)] /\ above' \in [Nodes -> Nodes \union {NoNode}]
      /\ \A q \in Nodes : below'[q] = IF q = p THEN t ELSE below[q]
      /\ \A n \in Nodes : above'[n] = IF n = x THEN NoNode ELSE above[n]
  <2>1. below' = [below EXCEPT ![p] = t]
    BY <1>4, <1>5
  <2> QED BY <1>2, <1>3, <1>6, <2>1, Typed
<1>8. \A n, q \in Nodes : n \in Range(below'[q]) <=> above'[n] = q
  <2> SUFFICES ASSUME NEW n \in Nodes, NEW q \in Nodes
               PROVE  n \in Range(below'[q]) <=> above'[n] = q
    OBVIOUS
  <2>1. n \in Range(below[q]) <=> above[n] = q
    BY Typed
  <2>2. below'[q] = (IF q = p THEN t ELSE below[q])
        /\ above'[n] = (IF n = x THEN NoNode ELSE above[n])
    BY <1>7
  <2>3. n \in Range(below'[q]) <=> n \in Range(below[q]) /\ ~(q = p /\ n = x)
    BY <1>6, <2>2
  <2>4. NoNode # q
    BY Typed
  <2> QED BY <1>1, <2>1, <2>2, <2>3, <2>4
<1>9. Ends(Nodes, above')
  <2> SUFFICES ASSUME NEW T \in SUBSET Nodes, T # {} PROVE \E n \in T : above'[n] \notin T
    BY DEF Ends
  <2>1. PICK n \in T : above[n] \notin T
    BY DEF QueriesInv, Ends
  <2>2. NoNode \notin T /\ n \in Nodes
    BY Typed
  <2> QED BY <1>7, <2>1, <2>2
<1>10. InTree' = InTree \ {x}
  <2>1. \A n \in Nodes : above'[n] # NoNode <=> n # x /\ above[n] # NoNode
    BY <1>7
  <2> QED BY <1>2, <2>1 DEF InTree
<1>11. \A n \in Nodes : above'[n] # NoNode => above'[n] \in InTree'
  <2> SUFFICES ASSUME NEW n \in Nodes, above'[n] # NoNode PROVE above'[n] \in InTree'
    OBVIOUS
  <2>1. above'[n] = above[n] /\ above[n] # NoNode
    BY <1>7
  <2>2. above[n] \in InTree
    BY <2>1, Typed
  <2>3. above[n] # x
    <3>1. Range(below[x]) = {}
      BY <1>2, EmptySeq DEF Range
    <3> QED BY <3>1, Typed
  <2> QED BY <1>10, <2>1, <2>2, <2>3
<1>12. \A q \in Nodes : Once(below'[q])
  BY <1>6, <1>7, Typed
<1>13. sid' \in [Nodes -> SIDs \union {NoSID}] /\ sort' \in [Nodes -> Sorts]
  BY <1>2, Typed DEF Sorts
<1> QED BY <1>7, <1>8, <1>9, <1>11, <1>12, <1>13 DEF QueriesInv, QueriesTypeOK

\* The tree is what it was.
LEMMA RenameInv ==
  ASSUME QueriesInv, NEW n \in Nodes, NEW s \in SIDs \union {NoSID}, Rename(n, s)
  PROVE  QueriesInv'
<1>1. /\ below' = below /\ above' = above /\ sort' = sort
      /\ sid' \in [Nodes -> SIDs \union {NoSID}]
  BY Typed DEF Rename
<1>2. InTree' = InTree
  BY <1>1 DEF InTree
<1> QED BY <1>1, <1>2 DEF QueriesInv, QueriesTypeOK

\* The tree of a document is one: nothing is above itself, arrays and parents agree, an
\* element is in one array once, and what is not in the tree has no children.
THEOREM TreeStays == QueriesSpec => []QueriesInv
<1>1. QueriesInit => QueriesInv
  BY InitInv
<1>2. QueriesInv /\ [QueriesNext]_queriesVars => QueriesInv'
  <2> SUFFICES ASSUME QueriesInv, [QueriesNext]_queriesVars PROVE QueriesInv'
    OBVIOUS
  <2>1. CASE UNCHANGED queriesVars
    <3>1. below' = below /\ above' = above /\ sort' = sort /\ sid' = sid
      BY <2>1 DEF queriesVars
    <3>2. InTree' = InTree
      BY <3>1 DEF InTree
    <3> QED BY <3>1, <3>2 DEF QueriesInv, QueriesTypeOK
  <2>2. CASE QueriesNext
    BY <2>2, GraftInv, PruneInv, RenameInv DEF QueriesNext
  <2> QED BY <2>1, <2>2
<1> QED BY <1>1, <1>2, PTL DEF QueriesSpec
-----------------------------------------------------------------------------
(* The way up *)

\* A line is an element followed by the line of its parent.
LEMMA LineIs ==
  ASSUME QueriesInv
  PROVE  \A n \in Nodes :
           /\ Line(n) \in Seq(Nodes)
           /\ Line(n) = IF above[n] = NoNode THEN <<n>> ELSE <<n>> \o Line(above[n])
<1> DEFINE V == Seq(Nodes)
           G == [n \in Nodes |-> [y \in V |-> <<n>> \o y]]
           B == [n \in Nodes |-> <<n>>]
<1>1. \A n \in Nodes : <<n>> \in V
  OBVIOUS
<1>2. \A n \in Nodes : \A y \in V : <<n>> \o y \in V
  BY <1>1, ConcatProperties
<1> HIDE DEF V
<1>3. G \in [Nodes -> [V -> V]] /\ B \in [Nodes -> V]
  BY <1>1, <1>2
<1>4. PICK f \in [Nodes -> V] : Along(Nodes, above, G, B, f)
  <2>1. Ends(Nodes, above)
    BY DEF QueriesInv
  <2> HIDE DEF G, B
  <2> QED BY <1>3, <2>1, RecursionAlong
<1>5. \A n \in Nodes : above[n] = NoNode <=> above[n] \notin Nodes
  BY Typed
<1>6. ASSUME NEW n \in Nodes
      PROVE  f[n] = IF above[n] = NoNode THEN <<n>> ELSE <<n>> \o f[above[n]]
  <2>1. f[n] = IF above[n] \in Nodes THEN G[n][f[above[n]]] ELSE B[n]
    <3> HIDE DEF G, B
    <3> QED BY <1>4 DEF Along
  <2>2. CASE above[n] \in Nodes
    BY <1>5, <2>1, <2>2
  <2>3. CASE above[n] \notin Nodes
    BY <1>5, <2>1, <2>3
  <2> QED BY <2>2, <2>3
<1> DEFINE v(n) == IF above[n] = NoNode THEN <<n>> ELSE <<n>> \o f[above[n]]
<1>7. f = [n \in Nodes |-> v(n)]
  <2>1. \A n \in Nodes : f[n] = v(n)
    BY <1>6, Zenon
  <2> HIDE DEF v
  <2> QED BY <2>1
<1> DEFINE h == CHOOSE y : y = [n \in Nodes |-> IF above[n] = NoNode THEN <<n>> ELSE <<n>> \o y[above[n]]]
<1>8. h = [n \in Nodes |-> IF above[n] = NoNode THEN <<n>> ELSE <<n>> \o h[above[n]]]
  BY <1>7, Zenon
<1>9. \A n \in Nodes : Line(n) = h[n]
  BY DEF Line
<1> HIDE DEF h
<1>10. \A n \in Nodes : h[n] = IF above[n] = NoNode THEN <<n>> ELSE <<n>> \o h[above[n]]
  BY <1>8
<1> DEFINE T == {n \in Nodes : h[n] \notin V}
<1>11. T = {}
  <2> SUFFICES ASSUME T # {} PROVE FALSE
    OBVIOUS
  <2>1. T \in SUBSET Nodes
    OBVIOUS
  <2> HIDE DEF T
  <2>2. PICK n \in T : above[n] \notin T
    BY <2>1 DEF QueriesInv, Ends
  <2>3. n \in Nodes /\ h[n] \notin V
    BY <2>2 DEF T
  <2>4. CASE above[n] = NoNode
    BY <1>1, <1>10, <2>3, <2>4
  <2>5. CASE above[n] # NoNode
    <3>1. above[n] \in Nodes /\ h[above[n]] \in V
      BY <1>5, <2>2, <2>5 DEF T
    <3>2. h[n] = <<n>> \o h[above[n]]
      BY <1>10, <2>3, <2>5
    <3> QED BY <1>2, <2>3, <3>1, <3>2
  <2> QED BY <2>4, <2>5
<1>12. \A n \in Nodes : h[n] \in V
  BY <1>11
<1> QED BY <1>5, <1>9, <1>10, <1>12 DEF V

\* What is next on a line is the parent of what is before it.
LEMMA LineItems ==
  ASSUME QueriesInv, NEW n \in Nodes
  PROVE  /\ Len(Line(n)) \in Nat /\ Len(Line(n)) >= 1 /\ Line(n)[1] = n
         /\ DOMAIN Line(n) = 1..Len(Line(n))
         /\ \A i \in 1..Len(Line(n)) : Line(n)[i] \in Nodes
         /\ above[n] = NoNode => Len(Line(n)) = 1
         /\ above[n] # NoNode =>
              /\ above[n] \in Nodes
              /\ Len(Line(n)) = Len(Line(above[n])) + 1
              /\ \A i \in 1..Len(Line(above[n])) : Line(n)[i + 1] = Line(above[n])[i]
<1>1. PICK s : s = Line(n)
  OBVIOUS
<1>2. s \in Seq(Nodes) /\ s = IF above[n] = NoNode THEN <<n>> ELSE <<n>> \o Line(above[n])
  BY <1>1, LineIs
<1>3. Len(s) \in Nat /\ DOMAIN s = 1..Len(s) /\ \A i \in 1..Len(s) : s[i] \in Nodes
  BY <1>2, LenProperties, ElementOfSeq
<1>4. CASE above[n] = NoNode
  <2>1. s = <<n>>
    BY <1>2, <1>4
  <2>2. Len(s) = 1 /\ s[1] = n
    BY <2>1
  <2> QED BY <1>1, <1>3, <1>4, <2>2
<1>5. CASE above[n] # NoNode
  <2>1. above[n] \in Nodes
    BY <1>5, Typed
  <2>2. PICK t : t = Line(above[n])
    OBVIOUS
  <2>3. t \in Seq(Nodes) /\ s = <<n>> \o t
    BY <1>2, <1>5, <2>1, <2>2, LineIs
  <2>4. PICK o : o = <<n>>
    OBVIOUS
  <2>5. o \in Seq(Nodes) /\ Len(o) = 1 /\ o[1] = n
    BY <2>4
  <2>6. /\ Len(s) = Len(o) + Len(t)
        /\ \A i \in 1..(Len(o) + Len(t)) : s[i] = IF i <= Len(o) THEN o[i] ELSE t[i - Len(o)]
    BY <2>3, <2>4, <2>5, ConcatProperties
  <2>7. Len(t) \in Nat
    BY <2>3, LenProperties
  <2>8. Len(s) = Len(t) + 1 /\ s[1] = n /\ Len(s) >= 1
    BY <2>5, <2>6, <2>7
  <2>9. ASSUME NEW i \in 1..Len(t) PROVE s[i + 1] = t[i]
    <3>1. i + 1 \in 1..(Len(o) + Len(t)) /\ ~(i + 1 <= Len(o)) /\ i + 1 - Len(o) = i
      BY <2>5, <2>7
    <3> QED BY <2>6, <3>1
  <2> QED BY <1>1, <1>3, <1>5, <2>1, <2>2, <2>8, <2>9
<1> QED BY <1>4, <1>5

\* From one of its members on, a line is that member's line.
From(n, k) ==
  LET m == Line(n)[k]
  IN  /\ Len(Line(m)) = Len(Line(n)) - k + 1
      /\ \A j \in 1..(Len(Line(n)) - k + 1) : Line(m)[j] = Line(n)[k + j - 1]

\* A line from any of its places on is the line of the element at that place.
LEMMA LineFrom ==
  ASSUME QueriesInv, NEW n \in Nodes, NEW k \in 1..Len(Line(n))
  PROVE  From(n, k)
<1>1. Len(Line(n)) \in Nat
  BY LineItems
<1> DEFINE P == {i \in 1..k : \A m \in Nodes : i <= Len(Line(m)) => From(m, i)}
<1>2. 1 \in P
  <2> SUFFICES ASSUME NEW m \in Nodes, 1 <= Len(Line(m)) PROVE From(m, 1)
    BY <1>1
  <2>1. Len(Line(m)) \in Nat /\ Line(m)[1] = m
    BY LineItems
  <2>2. PICK z : z = Len(Line(m))
    OBVIOUS
  <2>3. z - 1 + 1 = z /\ \A j \in 1..z : 1 + j - 1 = j
    BY <2>1, <2>2
  <2> QED BY <2>1, <2>2, <2>3 DEF From
<1>3. ASSUME NEW i \in (1 + 1)..k, i - 1 \in P PROVE i \in P
  <2> SUFFICES ASSUME NEW m \in Nodes, i <= Len(Line(m)) PROVE From(m, i)
    BY <1>1
  <2>1. PICK z : z = Len(Line(m))
    OBVIOUS
  <2>2. PICK p : p = above[m]
    OBVIOUS
  <2>3. z \in Nat /\ i \in 2..z
    BY <1>1, <2>1, LineItems
  <2>4. p # NoNode
    BY <2>1, <2>2, <2>3, LineItems
  <2>5. /\ p \in Nodes /\ z = Len(Line(p)) + 1 /\ Len(Line(p)) \in Nat
        /\ \A j \in 1..Len(Line(p)) : Line(m)[j + 1] = Line(p)[j]
    BY <2>1, <2>2, <2>4, LineItems
  <2>6. PICK y : y = Len(Line(p))
    OBVIOUS
  <2>7. y \in Nat /\ z = y + 1 /\ i - 1 \in 1..y
    BY <2>3, <2>5, <2>6
  <2>8. From(p, i - 1)
    <3>1. i - 1 <= Len(Line(p))
      BY <2>6, <2>7
    <3> QED BY <1>3, <2>5, <3>1
  <2>9. PICK q : q = Line(m)[i]
    OBVIOUS
  <2>10. q = Line(p)[i - 1]
    <3>1. i - 1 + 1 = i
      BY <2>3
    <3> QED BY <2>5, <2>6, <2>7, <2>9, <3>1
  <2>11. /\ Len(Line(q)) = y - (i - 1) + 1
         /\ \A j \in 1..(y - (i - 1) + 1) : Line(q)[j] = Line(p)[i - 1 + j - 1]
    BY <2>6, <2>8, <2>10 DEF From
  <2>12. y - (i - 1) + 1 = z - i + 1
    BY <2>3, <2>7
  <2>13. ASSUME NEW j \in 1..(z - i + 1) PROVE Line(q)[j] = Line(m)[i + j - 1]
    <3>1. i - 1 + j - 1 \in 1..y /\ i - 1 + j - 1 + 1 = i + j - 1
      BY <2>3, <2>7
    <3>2. Line(m)[i - 1 + j - 1 + 1] = Line(p)[i - 1 + j - 1]
      BY <2>5, <2>6, <3>1
    <3>3. Line(q)[j] = Line(p)[i - 1 + j - 1]
      BY <2>11, <2>12
    <3> QED BY <3>1, <3>2, <3>3
  <2> QED BY <2>1, <2>9, <2>11, <2>12, <2>13 DEF From
<1>4. P = 1..k
  <2>1. P \in SUBSET (1..k) /\ k \in Int
    BY <1>1
  <2> HIDE DEF P
  <2> QED BY <1>2, <1>3, <2>1, CountingUp
<1>5. k \in 1..k /\ k <= Len(Line(n))
  BY <1>1
<1> QED BY <1>4, <1>5

\* Nobody is on a line twice, so that no line is longer than there are elements.
LEMMA LineOnce ==
  ASSUME QueriesInv, NEW n \in Nodes
  PROVE  /\ \A i, j \in 1..Len(Line(n)) : Line(n)[i] = Line(n)[j] => i = j
         /\ Len(Line(n)) <= Cardinality(Nodes) /\ Cardinality(Nodes) \in Nat
<1>1. PICK z : z = Len(Line(n))
  OBVIOUS
<1>2. PICK s : s = Line(n)
  OBVIOUS
<1>3. z \in Nat /\ s \in Seq(Nodes) /\ s \in [1..z -> Nodes]
  BY <1>1, <1>2, LineItems, LineIs, LenProperties
<1>4. \A i, j \in 1..z : s[i] = s[j] => i = j
  <2> SUFFICES ASSUME NEW i \in 1..z, NEW j \in 1..z, s[i] = s[j] PROVE i = j
    OBVIOUS
  <2>1. Len(Line(s[i])) = z - i + 1 /\ Len(Line(s[j])) = z - j + 1
    BY <1>1, <1>2, LineFrom DEF From
  <2>2. z - i + 1 = z - j + 1
    BY <2>1
  <2> QED BY <1>3, <2>2
<1>5. s \in Injection(1..z, Nodes)
  BY <1>3, <1>4 DEF Injection, IsInjective
<1>6. Cardinality(1..z) = z
  <2>1. 1 \in Int /\ z \in Int
    BY <1>3
  <2>2. Cardinality(1..z) = IF 1 > z THEN 0 ELSE z - 1 + 1
    BY <2>1, FS_Interval
  <2> QED BY <1>3, <2>2
<1>7. Cardinality(1..z) <= Cardinality(Nodes) /\ Cardinality(Nodes) \in Nat
  BY <1>5, Typed, FS_Injection, FS_CardinalityType
<1> QED BY <1>1, <1>2, <1>4, <1>6, <1>7

\* Being on the line of another is transitive.
LEMMA LineOn ==
  ASSUME QueriesInv, NEW n \in Nodes, NEW m \in Range(Line(n))
  PROVE  m \in Nodes /\ Range(Line(m)) \subseteq Range(Line(n))
<1>1. PICK k \in 1..Len(Line(n)) : m = Line(n)[k]
  BY LineItems DEF Range
<1>2. Len(Line(n)) \in Nat /\ DOMAIN Line(n) = 1..Len(Line(n)) /\ m \in Nodes
  BY <1>1, LineItems
<1>3. DOMAIN Line(m) = 1..Len(Line(m))
  BY <1>2, LineItems
<1>4. /\ Len(Line(m)) = Len(Line(n)) - k + 1
      /\ \A j \in 1..(Len(Line(n)) - k + 1) : Line(m)[j] = Line(n)[k + j - 1]
  BY <1>1, LineFrom DEF From
<1>5. ASSUME NEW j \in 1..Len(Line(m)) PROVE Line(m)[j] \in Range(Line(n))
  <2>1. j \in 1..(Len(Line(n)) - k + 1) /\ k + j - 1 \in 1..Len(Line(n))
    BY <1>2, <1>4
  <2> QED BY <1>2, <1>4, <2>1 DEF Range
<1> QED BY <1>2, <1>3, <1>5 DEF Range
-----------------------------------------------------------------------------
(* Levels and distances *)

\* A scope is d steps up from an element, and all on the way may be entered.
Reaches(m, scope, d, entered) ==
  /\ d + 1 \in 1..Len(Line(m)) /\ Line(m)[d + 1] = scope
  /\ \A j \in 1..(d + 1) : Line(m)[j] \in entered

\* One level further down is one place further up on the line.
LEMMA ReachesUp ==
  ASSUME QueriesInv, NEW m \in Nodes, NEW scope, NEW d \in Nat \ {0}, NEW entered
  PROVE  Reaches(m, scope, d, entered) <=>
           /\ m \in entered /\ above[m] # NoNode
           /\ Reaches(above[m], scope, d - 1, entered)
<1>1. PICK z : z = Len(Line(m))
  OBVIOUS
<1>2. z \in Nat /\ Line(m)[1] = m /\ (above[m] = NoNode => z = 1)
  BY <1>1, LineItems
<1>3. CASE above[m] = NoNode
  <2>1. d + 1 \notin 1..z
    BY <1>2, <1>3
  <2> QED BY <1>1, <1>3, <2>1 DEF Reaches
<1>4. CASE above[m] # NoNode
  <2>1. PICK p : p = above[m]
    OBVIOUS
  <2>2. PICK y : y = Len(Line(p))
    OBVIOUS
  <2>3. /\ y \in Nat /\ z = y + 1 /\ p \in Nodes
        /\ \A i \in 1..y : Line(m)[i + 1] = Line(p)[i]
    BY <1>1, <1>4, <2>1, <2>2, LineItems
  <2>4. ASSUME Reaches(m, scope, d, entered)
        PROVE  m \in entered /\ Reaches(p, scope, d - 1, entered)
    <3>1. d + 1 \in 1..z /\ Line(m)[d + 1] = scope /\ \A j \in 1..(d + 1) : Line(m)[j] \in entered
      BY <1>1, <2>4 DEF Reaches
    <3>2. d \in 1..y /\ d - 1 + 1 = d /\ 1 \in 1..(d + 1)
      BY <2>3, <3>1
    <3>3. ASSUME NEW j \in 1..d PROVE Line(p)[j] \in entered
      <4>1. j \in 1..y /\ j + 1 \in 1..(d + 1)
        BY <2>3, <3>2
      <4> QED BY <2>3, <3>1, <4>1
    <3>4. Line(p)[d] = scope
      BY <2>3, <3>1, <3>2
    <3>5. m \in entered
      BY <1>2, <3>1, <3>2
    <3> QED BY <2>2, <3>2, <3>3, <3>4, <3>5 DEF Reaches
  <2>5. ASSUME m \in entered, Reaches(p, scope, d - 1, entered)
        PROVE  Reaches(m, scope, d, entered)
    <3>1. d - 1 + 1 = d
      OBVIOUS
    <3>2. d \in 1..y /\ Line(p)[d] = scope /\ \A j \in 1..d : Line(p)[j] \in entered
      BY <2>2, <2>5, <3>1 DEF Reaches
    <3>3. d + 1 \in 1..z /\ Line(m)[d + 1] = scope
      BY <2>3, <3>2
    <3>4. ASSUME NEW j \in 1..(d + 1) PROVE Line(m)[j] \in entered
      <4>1. CASE j = 1
        BY <1>2, <2>5, <4>1
      <4>2. CASE j # 1
        <5>1. j - 1 \in 1..d /\ j - 1 \in 1..y /\ j - 1 + 1 = j
          BY <2>3, <3>2, <4>2
        <5>2. Line(m)[j - 1 + 1] = Line(p)[j - 1]
          BY <2>3, <5>1
        <5> QED BY <3>2, <5>1, <5>2
      <4> QED BY <4>1, <4>2
    <3> QED BY <1>1, <3>3, <3>4 DEF Reaches
  <2> QED BY <1>4, <2>1, <2>4, <2>5
<1> QED BY <1>3, <1>4

\* The search by levels has, at each level, who reaches the scope in so many steps.
LEMMA LevelIs ==
  ASSUME QueriesInv, NEW scope \in Nodes, NEW depth \in Nat, NEW entered \in SUBSET Nodes
  PROVE  Level(scope, depth, entered) = {m \in Nodes : Reaches(m, scope, depth, entered)}
<1> DEFINE S == 0..depth
           V == SUBSET Nodes
           first == entered \intersect {scope}
           down(X) == entered \intersect UNION {Range(below[n]) : n \in X}
           G == [d \in S |-> [X \in V |-> down(X)]]
<1>1. first \in V /\ \A X \in V : down(X) \in V
  OBVIOUS
<1> HIDE DEF V, first, down
<1>2. G \in [S -> [V -> V]]
  BY <1>1
<1>3. PICK f \in [S -> V] : Up(0, depth, G, first, f)
  <2>1. 0 \in Int /\ depth \in Int
    OBVIOUS
  <2> HIDE DEF G
  <2> QED BY <1>1, <1>2, <2>1, RecursionUp
<1>4. \A d \in S : d # 0 => d - 1 \in S
  OBVIOUS
<1> DEFINE v(y, d) == entered \intersect (IF d = 0 THEN {scope} ELSE UNION {Range(below[n]) : n \in y[d - 1]})
<1>5. f = [d \in S |-> v(f, d)]
  <2>1. ASSUME NEW d \in S PROVE f[d] = v(f, d)
    <3>1. f[d] = IF d = 0 THEN first ELSE G[d][f[d - 1]]
      <4> HIDE DEF G
      <4> QED BY <1>3 DEF Up
    <3>2. d # 0 => f[d - 1] \in V
      <4> HIDE DEF S
      <4> QED BY <1>4
    <3>3. d # 0 => G[d][f[d - 1]] = down(f[d - 1])
      <4> HIDE DEF S
      <4> QED BY <3>2
    <3> QED BY <3>1, <3>3 DEF first, down
  <2> HIDE DEF S, v
  <2> QED BY <2>1
<1> DEFINE h == CHOOSE y : y = [d \in S |-> v(y, d)]
<1>6. h = [d \in S |-> v(h, d)]
  <2> HIDE DEF S, v
  <2> QED BY <1>5
<1>7. Level(scope, depth, entered) = h[depth]
  BY DEF Level
<1> HIDE DEF h
<1>8. \A d \in S : h[d] = v(h, d)
  <2> HIDE DEF S, v
  <2> QED BY <1>6
<1> DEFINE At(d) == {m \in Nodes : Reaches(m, scope, d, entered)}
           P == {d \in S : h[d] = At(d)}
<1>9. 0 \in P
  <2>1. h[0] = entered \intersect {scope} /\ 0 \in S
    BY <1>8
  <2>2. ASSUME NEW m \in Nodes PROVE Reaches(m, scope, 0, entered) <=> m = scope /\ m \in entered
    <3>1. 0 + 1 \in 1..Len(Line(m)) /\ Line(m)[1] = m
      BY LineItems
    <3>2. 0 + 1 = 1 /\ \A j \in 1..1 : j = 1
      OBVIOUS
    <3> QED BY <3>1, <3>2 DEF Reaches
  <2> QED BY <2>1, <2>2
<1>10. ASSUME NEW d \in (0 + 1)..depth, d - 1 \in P PROVE d \in P
  <2>1. d \in S /\ d # 0 /\ d \in Nat \ {0}
    OBVIOUS
  <2>2. h[d] = entered \intersect UNION {Range(below[n]) : n \in At(d - 1)}
    BY <1>8, <1>10, <2>1
  <2>3. ASSUME NEW m \in Nodes
        PROVE  m \in h[d] <=> Reaches(m, scope, d, entered)
    <3>1. m \in h[d] <=> m \in entered /\ \E n \in At(d - 1) : m \in Range(below[n])
      BY <2>2
    <3>2. \A n \in Nodes : m \in Range(below[n]) <=> above[m] = n
      BY Typed
    <3>3. above[m] # NoNode <=> above[m] \in Nodes
      BY Typed
    <3>4. Reaches(m, scope, d, entered) <=>
            m \in entered /\ above[m] # NoNode /\ Reaches(above[m], scope, d - 1, entered)
      BY <2>1, ReachesUp
    <3> QED BY <3>1, <3>2, <3>3, <3>4
  <2>4. h[d] \subseteq Nodes
    BY <2>2
  <2>5. h[d] = At(d)
    <3> HIDE DEF P, S, v
    <3> QED BY <2>3, <2>4
  <2> QED BY <2>1, <2>5
<1>11. P = S
  <2>1. P \in SUBSET (0..depth) /\ 0 \in Int /\ depth \in Int
    OBVIOUS
  <2> HIDE DEF P
  <2> QED BY <1>9, <1>10, <2>1, CountingUp
<1>12. depth \in S
  OBVIOUS
<1> QED BY <1>7, <1>11, <1>12

\* How far up a scope is, as both searches have it.
Hits(scope, e, entered) ==
  {i \in 1..Len(Line(e)) : Line(e)[i] = scope /\ \A j \in 1..i : Line(e)[j] \in entered}
Far(scope, e, entered) ==
  IF Hits(scope, e, entered) = {} THEN Beyond
  ELSE (CHOOSE i \in Hits(scope, e, entered) : TRUE) - 1

\* There is one such number of steps at most, and it is the distance.
LEMMA FarIs ==
  ASSUME QueriesInv, NEW scope, NEW e \in Nodes, NEW entered
  PROVE  /\ Beyond \in Nat
         /\ \A d \in Nat : Reaches(e, scope, d, entered) =>
                             Far(scope, e, entered) = d /\ d < Beyond
         /\ (\A d \in Nat : ~Reaches(e, scope, d, entered)) => Far(scope, e, entered) = Beyond
<1>1. PICK z : z = Len(Line(e))
  OBVIOUS
<1>2. z \in Nat /\ z <= Beyond /\ Beyond \in Nat
  BY <1>1, LineItems, LineOnce DEF Beyond
<1>3. PICK H : H = Hits(scope, e, entered)
  OBVIOUS
<1>4. \A i, j \in H : i = j
  BY <1>3, LineOnce DEF Hits
<1>5. ASSUME NEW d \in Nat, Reaches(e, scope, d, entered)
      PROVE  Far(scope, e, entered) = d /\ d < Beyond
  <2>1. d + 1 \in H /\ d + 1 \in 1..z
    BY <1>1, <1>3, <1>5 DEF Reaches, Hits
  <2>2. PICK w : w = CHOOSE i \in H : TRUE
    OBVIOUS
  <2>3. w = d + 1
    BY <1>4, <2>1, <2>2
  <2>4. Far(scope, e, entered) = w - 1
    BY <1>3, <2>1, <2>2 DEF Far
  <2>5. Far(scope, e, entered) = d + 1 - 1
    BY <2>3, <2>4
  <2>6. d + 1 - 1 = d /\ d < Beyond
    BY ONLY <1>2, <2>1, d \in Nat
  <2> QED BY <2>5, <2>6
<1>6. ASSUME \A d \in Nat : ~Reaches(e, scope, d, entered) PROVE Far(scope, e, entered) = Beyond
  <2>1. ASSUME NEW i \in H PROVE FALSE
    <3>1. i \in 1..z /\ Line(e)[i] = scope /\ \A j \in 1..i : Line(e)[j] \in entered
      BY <1>1, <1>3 DEF Hits
    <3>2. i - 1 \in Nat /\ i - 1 + 1 = i
      BY <1>2, <3>1
    <3>3. Reaches(e, scope, i - 1, entered)
      BY <1>1, <3>1, <3>2 DEF Reaches
    <3> QED BY <1>6, <3>2, <3>3
  <2> QED BY <1>3, <2>1 DEF Far
<1> QED BY <1>2, <1>5, <1>6

MayEnter(profile) == {m \in Nodes : Entered(m, profile)}

\* _computeDistance() ends at an element that may not be entered.
LEMMA DistanceIs ==
  ASSUME QueriesInv, NEW scope, NEW e \in Nodes, NEW profile
  PROVE  Distance(scope, e, profile) = Far(scope, e, MayEnter(profile))
<1> DEFINE Bails(m) == \/ sort[m] = Common /\ profile # NoProfile
                       \/ sort[m] \in Profiles /\ profile # sort[m]
           H == {i \in 1..Len(Line(e)) : Line(e)[i] = scope /\ \A j \in 1..i : ~Bails(Line(e)[j])}
<1>1. \A m \in Nodes : ~Bails(m) <=> m \in MayEnter(profile)
  BY DEF Entered, MayEnter
<1>2. Distance(scope, e, profile) = IF H = {} THEN Beyond ELSE (CHOOSE i \in H : TRUE) - 1
  BY DEF Distance
<1> HIDE DEF Bails
<1>3. PICK z : z = Len(Line(e))
  OBVIOUS
<1>4. z \in Nat /\ \A j \in 1..z : Line(e)[j] \in Nodes
  BY <1>3, LineItems
<1>5. ASSUME NEW i \in 1..z, NEW j \in 1..i
      PROVE  ~Bails(Line(e)[j]) <=> Line(e)[j] \in MayEnter(profile)
  <2>1. j \in 1..z
    BY <1>4
  <2> QED BY <1>1, <1>4, <2>1
<1>6. H = Hits(scope, e, MayEnter(profile))
  BY <1>3, <1>5 DEF Hits
<1> HIDE DEF H
<1> QED BY <1>2, <1>6 DEF Far

\* _sidLookup() enters them all.
LEMMA UnboundedIs ==
  ASSUME QueriesInv, NEW scope, NEW e \in Nodes
  PROVE  {i \in 1..Len(Line(e)) : Line(e)[i] = scope} = Hits(scope, e, Nodes)
<1>1. PICK z : z = Len(Line(e))
  OBVIOUS
<1>2. z \in Nat /\ \A j \in 1..z : Line(e)[j] \in Nodes
  BY <1>1, LineItems
<1>3. \A i \in 1..z : \A j \in 1..i : j \in 1..z
  BY <1>2
<1> QED BY <1>1, <1>2, <1>3 DEF Hits
-----------------------------------------------------------------------------
(* The nearest match, and the search by levels *)

\* The elements with a SID that a level below a scope has, and the distances of all of them.
AtLevel(scope, s, d, entered) == {m \in Nodes : sid[m] = s /\ Reaches(m, scope, d, entered)}
Matches(s) == {e \in InTree : sid[e] = s}
Fars(scope, s, entered) == [e \in Matches(s) |-> Far(scope, e, entered)]

\* Who is at a level of the search is in the tree, and no level is beyond the number of
\* elements.
LEMMA AtLevelIs ==
  ASSUME QueriesInv, NEW scope \in InTree, NEW s, NEW d \in Nat, NEW entered,
         NEW m \in AtLevel(scope, s, d, entered)
  PROVE  m \in Matches(s) /\ d \in 0..(Cardinality(Nodes) - 1)
<1>1. m \in Nodes /\ sid[m] = s /\ Reaches(m, scope, d, entered)
  BY DEF AtLevel
<1>2. m \in InTree
  <2>1. CASE d = 0
    <3>1. Line(m)[0 + 1] = scope /\ Line(m)[1] = m
      BY <1>1, <2>1, LineItems DEF Reaches
    <3>2. m = scope
      BY <3>1
    <3> QED BY <3>2
  <2>2. CASE d # 0
    <3>1. above[m] # NoNode
      BY <1>1, <2>2, ReachesUp
    <3> QED BY <1>1, <3>1, Typed
  <2> QED BY <2>1, <2>2
<1>3. PICK z : z = Len(Line(m))
  OBVIOUS
<1>4. z <= Cardinality(Nodes) /\ Cardinality(Nodes) \in Nat /\ z \in Nat /\ d + 1 \in 1..z
  BY <1>1, <1>3, LineItems, LineOnce DEF Reaches
<1>5. d \in 0..(Cardinality(Nodes) - 1)
  BY ONLY <1>4, d \in Nat
<1> QED BY <1>1, <1>2, <1>5 DEF Matches

\* The search by levels ends at the first level with a match.
LEMMA ByLevelsIs ==
  ASSUME QueriesInv, NEW scope \in InTree, NEW s, NEW entered \in SUBSET Nodes
  PROVE  /\ (\A d \in Nat : AtLevel(scope, s, d, entered) = {}) => ByLevels(scope, s, entered) = {NoNode}
         /\ \A d \in Nat :
              /\ AtLevel(scope, s, d, entered) # {}
              /\ \A c \in Nat : AtLevel(scope, s, c, entered) # {} => d <= c
              => ByLevels(scope, s, entered) = AtLevel(scope, s, d, entered)
<1> DEFINE At(d) == {m \in Level(scope, d, entered) : sid[m] = s}
           depths == {d \in 0..(Cardinality(Nodes) - 1) : At(d) # {}}
<1>1. scope \in Nodes /\ Cardinality(Nodes) \in Nat
  BY Typed, FS_CardinalityType
<1>2. \A d \in Nat : At(d) = AtLevel(scope, s, d, entered)
  BY <1>1, LevelIs DEF AtLevel
<1>3. ByLevels(scope, s, entered) =
        IF depths = {} THEN {NoNode} ELSE At(CHOOSE d \in depths : \A c \in depths : d <= c)
  BY DEF ByLevels
<1>4. \A d \in depths : d \in Nat /\ AtLevel(scope, s, d, entered) # {}
  <2> HIDE DEF At
  <2> QED BY <1>1, <1>2
<1>5. \A d \in Nat : AtLevel(scope, s, d, entered) # {} => d \in depths
  <2> SUFFICES ASSUME NEW d \in Nat, AtLevel(scope, s, d, entered) # {} PROVE d \in depths
    OBVIOUS
  <2>1. d \in 0..(Cardinality(Nodes) - 1)
    BY AtLevelIs
  <2>2. At(d) # {}
    BY <1>2
  <2> HIDE DEF At
  <2> QED BY <2>1, <2>2
<1> HIDE DEF depths, At
<1>6. ASSUME \A d \in Nat : AtLevel(scope, s, d, entered) = {}
      PROVE  ByLevels(scope, s, entered) = {NoNode}
  <2>1. depths = {}
    BY <1>4, <1>6
  <2> QED BY <1>3, <2>1
<1>7. ASSUME NEW d \in Nat, AtLevel(scope, s, d, entered) # {},
             \A c \in Nat : AtLevel(scope, s, c, entered) # {} => d <= c
      PROVE  ByLevels(scope, s, entered) = AtLevel(scope, s, d, entered)
  <2>1. d \in depths /\ \A c \in depths : d <= c /\ c \in Nat
    BY <1>4, <1>5, <1>7
  <2>2. PICK w : w = CHOOSE x \in depths : \A c \in depths : x <= c
    OBVIOUS
  <2>3. w \in depths /\ \A c \in depths : w <= c
    BY <2>1, <2>2
  <2>4. w = d
    BY <2>1, <2>3
  <2>5. ByLevels(scope, s, entered) = At(w)
    BY <1>3, <2>1, <2>2
  <2> QED BY <1>2, <2>4, <2>5
<1> QED BY <1>6, <1>7

\* The matches that are nearest are those of that level.
LEMMA NearestIs ==
  ASSUME QueriesInv, NEW scope \in InTree, NEW s, NEW entered \in SUBSET Nodes
  PROVE  Nearest(Matches(s), Fars(scope, s, entered)) \subseteq ByLevels(scope, s, entered)
<1> DEFINE M == Matches(s)
           far == Fars(scope, s, entered)
<1>1. M \subseteq Nodes /\ \A e \in M : sid[e] = s
  BY Typed DEF Matches
<1>2. \A e \in M : far[e] = Far(scope, e, entered)
  BY DEF Fars
<1>3. Beyond \in Nat
  BY FarIs, QueriesAssumption
<1> HIDE DEF M, far
<1>4. ASSUME NEW e \in M
      PROVE  /\ \A d \in Nat : e \in AtLevel(scope, s, d, entered) => far[e] = d /\ d < Beyond
             /\ far[e] # Beyond => far[e] \in Nat /\ e \in AtLevel(scope, s, far[e], entered)
  <2>1. e \in Nodes /\ sid[e] = s
    BY <1>1
  <2>2. /\ \A d \in Nat : Reaches(e, scope, d, entered) => far[e] = d /\ d < Beyond
        /\ (\A d \in Nat : ~Reaches(e, scope, d, entered)) => far[e] = Beyond
    BY <1>2, <2>1, FarIs
  <2>3. \A d \in Nat : e \in AtLevel(scope, s, d, entered) <=> Reaches(e, scope, d, entered)
    BY <2>1 DEF AtLevel
  <2> QED BY <2>2, <2>3
<1>5. \A d \in Nat : AtLevel(scope, s, d, entered) \subseteq M
  BY AtLevelIs DEF M
<1>6. CASE \A e \in M : far[e] = Beyond
  <2>1. ASSUME NEW d \in Nat, NEW m \in AtLevel(scope, s, d, entered) PROVE FALSE
    <3>1. m \in M
      BY <1>5
    <3>2. far[m] = d /\ d < Beyond
      BY <1>4, <3>1
    <3> QED BY <1>3, <1>6, <3>1, <3>2
  <2>2. ByLevels(scope, s, entered) = {NoNode}
    BY <2>1, ByLevelsIs
  <2> QED BY <1>6, <2>2 DEF Nearest, M, far
<1>7. CASE \E e \in M : far[e] # Beyond
  <2> SUFFICES ASSUME NEW x \in M, \A f \in M : far[x] <= far[f]
               PROVE  x \in ByLevels(scope, s, entered)
    BY <1>7 DEF Nearest, M, far
  <2>1. PICK e \in M : far[e] # Beyond
    BY <1>7
  <2>2. far[e] \in Nat /\ far[e] < Beyond
    BY <1>4, <2>1
  <2>3. far[x] # Beyond
    BY <1>3, <2>1, <2>2
  <2>4. far[x] \in Nat /\ x \in AtLevel(scope, s, far[x], entered)
    BY <1>4, <2>3
  <2>5. ASSUME NEW c \in Nat, AtLevel(scope, s, c, entered) # {} PROVE far[x] <= c
    <3>1. PICK m \in AtLevel(scope, s, c, entered) : m \in M
      BY <1>5, <2>5
    <3>2. far[m] = c
      BY <1>4, <3>1
    <3> QED BY <3>1, <3>2
  <2>6. ByLevels(scope, s, entered) = AtLevel(scope, s, far[x], entered)
    BY <2>4, <2>5, ByLevelsIs
  <2> QED BY <2>4, <2>6
<1> QED BY <1>6, <1>7

\* The shortcut: a child that has the SID is at the first level that can have one.
LEMMA ChildIs ==
  ASSUME QueriesInv, NEW scope \in InTree, NEW s, NEW entered \in SUBSET Nodes, sid[scope] # s,
         {scope} \union Range(below[scope]) \subseteq entered,
         ChildFound(scope, Matches(s)) # NoNode
  PROVE  ChildFound(scope, Matches(s)) \in ByLevels(scope, s, entered)
<1> DEFINE b == below[scope]
           hits == {i \in 1..Len(b) : b[i] \in Matches(s)}
<1>1. PICK m : m = ChildFound(scope, Matches(s))
  OBVIOUS
<1>2. scope \in Nodes /\ b \in Seq(Nodes) /\ DOMAIN b = 1..Len(b) /\ Len(b) \in Nat
  BY Typed, LenProperties
<1>3. hits # {} /\ m = b[CHOOSE i \in hits : \A j \in hits : i <= j]
  BY <1>1 DEF ChildFound, FirstOf
<1>4. hits \in SUBSET Nat
  BY <1>2
<1>5. \A i \in hits : b[i] \in Range(b) /\ b[i] \in Matches(s)
  BY <1>2 DEF Range
<1> HIDE DEF hits
<1>6. \E i \in hits : \A j \in hits : i <= j
  BY <1>3, <1>4, SmallestOf
<1>7. m \in Range(b) /\ m \in Matches(s)
  <2>1. PICK w : w = CHOOSE i \in hits : \A j \in hits : i <= j
    OBVIOUS
  <2>2. w \in hits
    BY <1>6, <2>1
  <2> QED BY <1>3, <1>5, <2>1, <2>2
<1>8. m \in Nodes /\ sid[m] = s /\ above[m] = scope /\ m \in entered /\ scope \in entered
  BY <1>2, <1>7, Typed DEF Matches
<1>9. scope # NoNode
  BY <1>2, Typed
<1>10. Reaches(m, scope, 1, entered)
  <2>1. Reaches(scope, scope, 0, entered)
    <3>1. 0 + 1 \in 1..Len(Line(scope)) /\ Line(scope)[1] = scope
      BY <1>2, LineItems
    <3>2. 0 + 1 = 1 /\ \A j \in 1..1 : j = 1
      OBVIOUS
    <3> QED BY <1>8, <3>1, <3>2 DEF Reaches
  <2>2. 1 \in Nat \ {0} /\ 1 - 1 = 0
    OBVIOUS
  <2>3. Reaches(m, scope, 1, entered) <=>
          m \in entered /\ above[m] # NoNode /\ Reaches(above[m], scope, 1 - 1, entered)
    BY <1>8, <2>2, ReachesUp
  <2> QED BY <1>8, <1>9, <2>1, <2>2, <2>3
<1>11. m \in AtLevel(scope, s, 1, entered)
  BY <1>8, <1>10 DEF AtLevel
<1>12. AtLevel(scope, s, 0, entered) = {}
  <2> SUFFICES ASSUME NEW x \in AtLevel(scope, s, 0, entered) PROVE FALSE
    OBVIOUS
  <2>1. x \in Nodes /\ sid[x] = s /\ Line(x)[0 + 1] = scope
    BY DEF AtLevel, Reaches
  <2>2. Line(x)[1] = x
    BY <2>1, LineItems
  <2> QED BY <2>1, <2>2
<1>13. ASSUME NEW c \in Nat, AtLevel(scope, s, c, entered) # {} PROVE 1 <= c
  <2>1. c # 0
    BY <1>12, <1>13
  <2> QED BY <2>1
<1>14. ByLevels(scope, s, entered) = AtLevel(scope, s, 1, entered)
  BY <1>11, <1>13, ByLevelsIs
<1> QED BY <1>1, <1>11, <1>14

\* The two ways to write down how far the matches are.
LEMMA MatchesAre ==
  ASSUME QueriesInv, NEW s, NEW scope, NEW profile
  PROVE  [e \in Matches(s) |-> Distance(scope, e, profile)] = Fars(scope, s, MayEnter(profile))
<1>1. \A e \in Matches(s) : Distance(scope, e, profile) = Far(scope, e, MayEnter(profile))
  BY Typed, DistanceIs DEF Matches
<1> QED BY <1>1 DEF Fars

\* The two searches of the library.
LEMMA FindIs ==
  ASSUME QueriesInv, NEW scope \in InTree, NEW s, NEW profile, NEW frequent \in BOOLEAN,
         frequent => ShortcutHolds(scope, s, profile)
  PROVE  Find(scope, s, profile, frequent) \subseteq ByLevels(scope, s, MayEnter(profile))
<1> DEFINE child == ChildFound(scope, Matches(s))
<1>1. Find(scope, s, profile, frequent) =
        IF frequent /\ child # NoNode THEN {child}
        ELSE Nearest(Matches(s), [e \in Matches(s) |-> Distance(scope, e, profile)])
  BY DEF Find, Matches
<1>2. MayEnter(profile) \in SUBSET Nodes
  BY DEF MayEnter
<1> HIDE DEF child
<1>3. CASE frequent /\ child # NoNode
  <2>1. sid[scope] # s /\ \A m \in {scope} \union Range(below[scope]) : Entered(m, profile)
    BY <1>3 DEF ShortcutHolds
  <2>2. {scope} \union Range(below[scope]) \subseteq Nodes
    <3>1. scope \in Nodes /\ below[scope] \in Seq(Nodes)
      BY Typed
    <3>2. \A i \in DOMAIN below[scope] : below[scope][i] \in Nodes
      BY <3>1, LenProperties, ElementOfSeq
    <3> QED BY <3>1, <3>2 DEF Range
  <2>3. {scope} \union Range(below[scope]) \subseteq MayEnter(profile)
    BY <2>1, <2>2 DEF MayEnter
  <2>4. child \in ByLevels(scope, s, MayEnter(profile))
    BY <1>2, <1>3, <2>1, <2>3, ChildIs DEF child
  <2> QED BY <1>1, <1>3, <2>4
<1>4. CASE ~(frequent /\ child # NoNode)
  <2>1. Find(scope, s, profile, frequent) = Nearest(Matches(s), Fars(scope, s, MayEnter(profile)))
    BY <1>1, <1>4, MatchesAre
  <2> QED BY <1>2, <2>1, NearestIs
<1> QED BY <1>3, <1>4

LEMMA SidLookupIs ==
  ASSUME QueriesInv, NEW scope \in InTree, NEW s, NEW frequent \in BOOLEAN,
         frequent => sid[scope] # s
  PROVE  SidLookup(scope, s, frequent) \subseteq ByLevels(scope, s, Nodes)
<1> DEFINE child == ChildFound(scope, Matches(s))
           hits(e) == {i \in 1..Len(Line(e)) : Line(e)[i] = scope}
           far(e) == IF hits(e) = {} THEN Beyond ELSE (CHOOSE i \in hits(e) : TRUE) - 1
<1>1. SidLookup(scope, s, frequent) =
        IF frequent /\ child # NoNode THEN {child}
        ELSE Nearest(Matches(s), [e \in Matches(s) |-> far(e)])
  BY DEF SidLookup, Matches
<1>2. [e \in Matches(s) |-> far(e)] = Fars(scope, s, Nodes)
  <2>1. ASSUME NEW e \in Matches(s) PROVE far(e) = Far(scope, e, Nodes)
    <3>1. hits(e) = Hits(scope, e, Nodes)
      BY Typed, UnboundedIs DEF Matches
    <3> HIDE DEF hits
    <3> QED BY <3>1 DEF Far
  <2> HIDE DEF far
  <2> QED BY <2>1 DEF Fars
<1>3. scope \in Nodes /\ Range(below[scope]) \subseteq Nodes
  <2>1. scope \in Nodes /\ below[scope] \in Seq(Nodes)
    BY Typed
  <2>2. \A i \in DOMAIN below[scope] : below[scope][i] \in Nodes
    BY <2>1, LenProperties, ElementOfSeq
  <2> QED BY <2>1, <2>2 DEF Range
<1> HIDE DEF child, far
<1>4. CASE frequent /\ child # NoNode
  <2>1. sid[scope] # s /\ {scope} \union Range(below[scope]) \subseteq Nodes
    BY <1>3, <1>4
  <2>2. child \in ByLevels(scope, s, Nodes)
    BY <1>4, <2>1, ChildIs DEF child
  <2> QED BY <1>1, <1>4, <2>2
<1>5. CASE ~(frequent /\ child # NoNode)
  <2>1. SidLookup(scope, s, frequent) = Nearest(Matches(s), Fars(scope, s, Nodes))
    BY <1>1, <1>2, <1>5
  <2> QED BY <2>1, NearestIs
<1> QED BY <1>4, <1>5

\* What the resolver and _sidLookup() find on the way up from the elements with a SID is
\* what a breadth-first search down from the scope would find, whatever the profile, and by
\* the shortcut for frequent SIDs where that holds (_find(), "Implements a breadth-first
\* SID search by using the database").
THEOREM NearestFoundByLevels == QueriesSpec => []FindsByLevels
<1>1. QueriesInv => FindsByLevels
  <2> SUFFICES ASSUME QueriesInv, NEW scope \in InTree, NEW s \in SIDs
               PROVE  /\ \A profile \in Profiles \union {NoProfile} :
                           LET nearest == ByLevels(scope, s, {m \in Nodes : Entered(m, profile)})
                           IN  /\ Find(scope, s, profile, FALSE) \subseteq nearest
                               /\ ShortcutHolds(scope, s, profile) =>
                                    Find(scope, s, profile, TRUE) \subseteq nearest
                      /\ LET nearest == ByLevels(scope, s, Nodes)
                         IN  /\ SidLookup(scope, s, FALSE) \subseteq nearest
                             /\ sid[scope] # s => SidLookup(scope, s, TRUE) \subseteq nearest
    BY DEF FindsByLevels
  <2>1. ASSUME NEW profile \in Profiles \union {NoProfile}, NEW frequent \in BOOLEAN,
               frequent => ShortcutHolds(scope, s, profile)
        PROVE  Find(scope, s, profile, frequent)
                 \subseteq ByLevels(scope, s, {m \in Nodes : Entered(m, profile)})
    BY <2>1, FindIs DEF MayEnter
  <2>2. ASSUME NEW frequent \in BOOLEAN, frequent => sid[scope] # s
        PROVE  SidLookup(scope, s, frequent) \subseteq ByLevels(scope, s, Nodes)
    BY <2>2, SidLookupIs
  <2> QED BY <2>1, <2>2
<1> QED BY <1>1, TreeStays, PTL
-----------------------------------------------------------------------------
(* SID paths *)

\* One step of a path: the element is found from the one before it.
LEMMA FindOnly ==
  ASSUME QueriesInv, NEW u \in InTree, NEW w \in InTree, NEW profile,
         u \in Range(Line(w)),
         \A m \in InTree : u \in Range(Line(m)) /\ sid[m] = sid[w] => m = w,
         \A m \in Range(Line(w)) : u \in Range(Line(m)) => Entered(m, profile)
  PROVE  Find(u, sid[w], profile, FALSE) = {w}
<1> DEFINE s == sid[w]
           E == MayEnter(profile)
           M == Matches(s)
           far == Fars(u, s, E)
<1>1. Find(u, s, profile, FALSE) = Nearest(M, far)
  <2>1. Find(u, s, profile, FALSE) = Nearest(M, [e \in M |-> Distance(u, e, profile)])
    BY DEF Find, Matches
  <2> QED BY <2>1, MatchesAre
<1>2. M \subseteq InTree /\ M \subseteq Nodes /\ w \in M /\ \A e \in M : sid[e] = s
  BY Typed DEF Matches
<1>3. \A e \in M : far[e] = Far(u, e, E)
  BY DEF Fars
<1>4. PICK k \in 1..Len(Line(w)) : Line(w)[k] = u
  BY <1>2, LineItems DEF Range
<1>5. PICK z : z = Len(Line(w))
  OBVIOUS
<1>6. z \in Nat /\ k \in 1..z /\ DOMAIN Line(w) = 1..z
  BY <1>2, <1>4, <1>5, LineItems
<1>7. ASSUME NEW j \in 1..k PROVE Line(w)[j] \in E
  <2>1. PICK m : m = Line(w)[j]
    OBVIOUS
  <2>2. j \in 1..z /\ m \in Range(Line(w))
    BY <1>6, <2>1 DEF Range
  <2>3. m \in Nodes
    BY <1>2, <2>2, LineOn
  <2>4. /\ Len(Line(m)) = z - j + 1
        /\ \A i \in 1..(z - j + 1) : Line(m)[i] = Line(w)[j + i - 1]
    BY <1>2, <1>5, <2>1, <2>2, LineFrom DEF From
  <2>5. k - j + 1 \in 1..(z - j + 1) /\ j + (k - j + 1) - 1 = k
    BY <1>6, <2>2
  <2>6. Line(m)[k - j + 1] = u /\ k - j + 1 \in DOMAIN Line(m)
    BY <1>4, <2>3, <2>4, <2>5, LineItems
  <2>7. u \in Range(Line(m))
    BY <2>6 DEF Range
  <2>8. Entered(m, profile)
    BY <2>2, <2>7
  <2> QED BY <2>1, <2>3, <2>8 DEF MayEnter
<1>8. k - 1 \in Nat /\ k - 1 + 1 = k
  BY <1>6
<1>9. Reaches(w, u, k - 1, E)
  BY <1>4, <1>7, <1>8 DEF Reaches
<1> HIDE DEF E, M, far, s
<1>10. far[w] = k - 1 /\ k - 1 < Beyond /\ Beyond \in Nat
  BY <1>2, <1>3, <1>8, <1>9, FarIs
<1>11. ASSUME NEW f \in M, f # w PROVE far[f] = Beyond
  <2>1. f \in Nodes /\ f \in InTree /\ sid[f] = sid[w]
    BY <1>2 DEF s
  <2>2. u \notin Range(Line(f))
    BY <1>11, <2>1
  <2>3. ASSUME NEW d \in Nat, Reaches(f, u, d, E) PROVE FALSE
    <3>1. d + 1 \in DOMAIN Line(f) /\ Line(f)[d + 1] = u
      BY <2>1, <2>3, LineItems DEF Reaches
    <3> QED BY <2>2, <3>1 DEF Range
  <2>4. Far(u, f, E) = Beyond
    BY <2>1, <2>3, FarIs
  <2> QED BY <1>3, <2>4
<1>12. far[w] # Beyond /\ far[w] < Beyond /\ far[w] \in Nat
  BY <1>8, <1>10
<1>13. Nearest(M, far) = {w}
  <2>1. \E e \in M : far[e] # Beyond
    BY <1>2, <1>12
  <2>2. Nearest(M, far) = {e \in M : \A f \in M : far[e] <= far[f]}
    BY <2>1 DEF Nearest
  <2>3. \A f \in M : far[w] <= far[f]
    BY <1>10, <1>11, <1>12
  <2>4. ASSUME NEW e \in M, \A f \in M : far[e] <= far[f] PROVE e = w
    <3>1. far[e] <= far[w]
      BY <1>2, <2>4
    <3> QED BY <1>10, <1>11, <1>12, <3>1
  <2> QED BY <1>2, <2>2, <2>3, <2>4
<1> QED BY <1>1, <1>13 DEF s

\* From each element of p to the next, one name is looked for, and nothing else found.
Walks(p, names, N, profile) ==
  /\ N \in Nat /\ Len(names) = N /\ p \in [0..N -> InTree]
  /\ \A i \in 1..N : Find(p[i - 1], names[i], profile, FALSE) = {p[i]}
Arrives(p, names, N, profile) == Resolves(p[0], names, profile) = {p[N]}

\* A path is walked one step after the other.
LEMMA ResolvesIs ==
  ASSUME QueriesInv, NEW profile, NEW N, NEW names, NEW p, Walks(p, names, N, profile)
  PROVE  Arrives(p, names, N, profile)
<1>0. N \in Nat /\ Len(names) = N /\ p \in [0..N -> InTree]
  BY DEF Walks
<1> DEFINE S == 0..N
           V == SUBSET (Nodes \union {NoNode})
           next(i, X) == UNION {IF e = NoNode THEN {NoNode} ELSE Find(e, names[i], profile, FALSE) : e \in X}
           G == [i \in S |-> [X \in V |-> next(i, X)]]
<1>1. \A e, s : Find(e, s, profile, FALSE) \in V
  <2> SUFFICES ASSUME NEW e, NEW s PROVE Find(e, s, profile, FALSE) \in V
    OBVIOUS
  <2>1. Find(e, s, profile, FALSE) = Nearest(Matches(s), [x \in Matches(s) |-> Distance(e, x, profile)])
    BY DEF Find, Matches
  <2>2. Matches(s) \subseteq Nodes
    BY Typed DEF Matches
  <2> QED BY <2>1, <2>2 DEF Nearest
<1>2. \A i \in S : \A X \in V : next(i, X) \in V
  <2> SUFFICES ASSUME NEW i \in S, NEW X \in V PROVE next(i, X) \in V
    OBVIOUS
  <2> DEFINE set(e) == IF e = NoNode THEN {NoNode} ELSE Find(e, names[i], profile, FALSE)
  <2>1. ASSUME NEW e \in X PROVE set(e) \subseteq Nodes \union {NoNode}
    <3>1. CASE e = NoNode
      BY <3>1
    <3>2. CASE e # NoNode
      <4>1. Find(e, names[i], profile, FALSE) \in V
        BY <1>1
      <4> QED BY <3>2, <4>1
    <3> QED BY <3>1, <3>2
  <2>2. next(i, X) = UNION {set(e) : e \in X}
    OBVIOUS
  <2> HIDE DEF set, next
  <2>3. UNION {set(e) : e \in X} \subseteq Nodes \union {NoNode}
    BY <2>1
  <2> QED BY <2>2, <2>3
<1>3. p[0] \in InTree /\ {p[0]} \in V
  BY <1>0, Typed
<1> HIDE DEF V, next
<1>4. G \in [S -> [V -> V]]
  BY <1>2
<1>5. PICK f \in [S -> V] : Up(0, N, G, {p[0]}, f)
  <2>1. 0 \in Int /\ N \in Int
    BY <1>0
  <2> HIDE DEF G
  <2> QED BY <1>3, <1>4, <2>1, RecursionUp
<1> DEFINE v(y, i) == IF i = 0 THEN {p[0]}
                      ELSE UNION {IF e = NoNode THEN {NoNode}
                                  ELSE Find(e, names[i], profile, FALSE) : e \in y[i - 1]}
<1>6. f = [i \in S |-> v(f, i)]
  <2>1. ASSUME NEW i \in S PROVE f[i] = v(f, i)
    <3>1. f[i] = IF i = 0 THEN {p[0]} ELSE G[i][f[i - 1]]
      <4> HIDE DEF G
      <4> QED BY <1>5 DEF Up
    <3>2. i # 0 => i - 1 \in S
      BY <1>0
    <3>3. i # 0 => f[i - 1] \in V
      <4> HIDE DEF S
      <4> QED BY <3>2
    <3>4. i # 0 => G[i][f[i - 1]] = next(i, f[i - 1])
      <4> HIDE DEF S
      <4> QED BY <3>3
    <3> QED BY <3>1, <3>4 DEF next
  <2> HIDE DEF S, v
  <2> QED BY <2>1
<1> DEFINE h == CHOOSE y : y = [i \in S |-> v(y, i)]
<1>7. h = [i \in S |-> v(h, i)]
  <2> HIDE DEF S, v
  <2> QED BY <1>6
<1>8. Resolves(p[0], names, profile) = h[N]
  BY <1>0 DEF Resolves
<1> HIDE DEF h
<1>9. \A i \in S : h[i] = v(h, i)
  <2> HIDE DEF S, v
  <2> QED BY <1>7
<1> DEFINE P == {i \in S : h[i] = {p[i]}}
<1>10. 0 \in P
  <2>1. 0 \in S
    BY <1>0
  <2>2. h[0] = {p[0]}
    BY <1>9, <2>1
  <2> QED BY <2>1, <2>2
<1>11. ASSUME NEW i \in (0 + 1)..N, i - 1 \in P PROVE i \in P
  <2>1. i \in S /\ i # 0 /\ i \in 1..N /\ i - 1 \in S
    BY <1>0
  <2>2. h[i - 1] = {p[i - 1]}
    BY <1>11
  <2>3. p[i - 1] \in InTree /\ p[i - 1] # NoNode
    BY <1>0, <2>1, Typed
  <2>4. h[i] = UNION {IF e = NoNode THEN {NoNode}
                      ELSE Find(e, names[i], profile, FALSE) : e \in h[i - 1]}
    BY <1>9, <2>1
  <2>5. h[i] = Find(p[i - 1], names[i], profile, FALSE)
    BY <2>2, <2>3, <2>4
  <2>6. h[i] = {p[i]}
    BY <2>1, <2>5 DEF Walks
  <2> QED BY <2>1, <2>6
<1>12. P = S
  <2>1. P \in SUBSET (0..N) /\ 0 \in Int /\ N \in Int
    BY <1>0
  <2> HIDE DEF P
  <2> QED BY <1>10, <1>11, <2>1, CountingUp
<1>13. N \in S
  BY <1>0
<1> QED BY <1>8, <1>12, <1>13 DEF Arrives

\* The SIDs on the way down from an element to another resolve to that one, when each is
\* the only one of its name below the element before it and none on the way is of another
\* profile (_resolve_exported(): "Find the element matching each SID").
THEOREM AddressesAreResolved == QueriesSpec => []AddressesResolve
<1>1. QueriesInv => AddressesResolve
  <2> SUFFICES ASSUME QueriesInv, NEW from \in InTree, NEW N \in 1..(Cardinality(Nodes) - 1),
                      NEW down \in [1..N -> {m \in InTree : sid[m] # NoSID}],
                      LET steps == <<from>> \o down
                      IN  /\ \A i \in 1..N : steps[i] \in Range(Tail(Line(down[i])))
                          /\ \A i \in 1..N, m \in InTree :
                               steps[i] \in Range(Line(m)) /\ sid[m] = sid[down[i]] => m = down[i],
                      NEW profile \in Profiles \union {NoProfile},
                      \A m \in Range(Line(Last(down))) : from \in Range(Line(m)) => Entered(m, profile)
               PROVE  Resolves(from, [i \in 1..N |-> sid[down[i]]], profile) = {Last(down)}
    BY DEF AddressesResolve
  <2> DEFINE p == [i \in 0..N |-> IF i = 0 THEN from ELSE down[i]]
             names == [i \in 1..N |-> sid[down[i]]]
             steps == <<from>> \o down
  <2>1. N \in Nat /\ N >= 1 /\ Cardinality(Nodes) \in Nat
    <3>1. Cardinality(Nodes) \in Nat
      BY Typed, FS_CardinalityType
    <3> QED BY <3>1
  <2>2. \A i \in 1..N : down[i] \in InTree
    OBVIOUS
  <2>3. p \in [0..N -> InTree] /\ p[0] = from /\ \A i \in 1..N : p[i] = down[i]
    BY <2>1, <2>2
  <2>4. Len(names) = N /\ \A i \in 1..N : names[i] = sid[p[i]]
    BY <2>1, <2>3
  <2>5. Last(down) = p[N]
    <3>1. Len(down) = N
      BY <2>1
    <3> QED BY <2>1, <2>3, <3>1 DEF Last
  <2>6. \A i \in 1..N : steps[i] = p[i - 1]
    <3>1. PICK o : o = <<from>>
      OBVIOUS
    <3>2. o \in Seq(InTree) /\ Len(o) = 1 /\ o[1] = from
      BY <3>1
    <3>3. down \in Seq(InTree) /\ Len(down) = N
      <4>1. down \in [1..N -> InTree]
        BY <2>2
      <4> QED BY <2>1, <4>1, SeqDef, LenProperties
    <3>4. \A i \in 1..(1 + N) : (o \o down)[i] = IF i <= 1 THEN o[i] ELSE down[i - 1]
      <4>1. \A i \in 1..(Len(o) + Len(down)) :
              (o \o down)[i] = IF i <= Len(o) THEN o[i] ELSE down[i - Len(o)]
        <5>1. o \in Seq(InTree) /\ down \in Seq(InTree)
          BY <3>2, <3>3
        <5> QED BY ONLY <5>1, ConcatProperties
      <4>2. Len(o) = 1 /\ Len(down) = N
        BY <3>2, <3>3
      <4> QED BY ONLY <4>1, <4>2
    <3>5. ASSUME NEW i \in 1..N PROVE steps[i] = p[i - 1]
      <4>1. steps[i] = IF i <= 1 THEN o[i] ELSE down[i - 1]
        BY <2>1, <3>1, <3>4
      <4>2. CASE i = 1
        <5>1. steps[i] = from /\ i - 1 = 0
          BY <3>2, <4>1, <4>2
        <5> QED BY <2>3, <5>1
      <4>3. CASE i # 1
        <5>1. ~(i <= 1) /\ i - 1 \in 1..N
          BY <2>1, <4>3
        <5> QED BY <2>3, <4>1, <5>1
      <4> QED BY <4>2, <4>3
    <3> QED BY <3>5
  <2> HIDE DEF p, names, steps
  <2>7. \A i \in 0..N : p[i] \in InTree /\ p[i] \in Nodes
    BY <2>3, Typed
  <2>8. ASSUME NEW n \in Nodes PROVE Range(Tail(Line(n))) \subseteq Range(Line(n))
    <3>1. Line(n) \in Seq(Nodes) /\ Len(Line(n)) \in Nat /\ Len(Line(n)) >= 1
          /\ DOMAIN Line(n) = 1..Len(Line(n))
      BY LineIs, LineItems
    <3>2. Line(n) # <<>>
      BY <3>1, EmptySeq
    <3>3. /\ Tail(Line(n)) \in Seq(Nodes) /\ Len(Tail(Line(n))) = Len(Line(n)) - 1
          /\ \A i \in 1..Len(Tail(Line(n))) : Tail(Line(n))[i] = Line(n)[i + 1]
      BY <3>1, <3>2, HeadTailProperties
    <3>4. DOMAIN Tail(Line(n)) = 1..Len(Tail(Line(n)))
      BY <3>3, LenProperties
    <3>5. ASSUME NEW i \in 1..Len(Tail(Line(n))) PROVE Tail(Line(n))[i] \in Range(Line(n))
      <4>1. i + 1 \in 1..Len(Line(n))
        BY <3>1, <3>3
      <4>2. PICK l : l = Line(n)
        OBVIOUS
      <4>3. l[i + 1] \in Range(l)
        <5>1. i + 1 \in DOMAIN l
          BY <3>1, <4>1, <4>2
        <5> QED BY ONLY <5>1 DEF Range
      <4> QED BY <3>3, <4>2, <4>3
    <3>6. \A x \in Range(Tail(Line(n))) : x \in Range(Line(n))
      <4>1. PICK t : t = Tail(Line(n))
        OBVIOUS
      <4>2. \A i \in DOMAIN t : t[i] \in Range(Line(n))
        BY <3>4, <3>5, <4>1
      <4>3. \A x \in Range(t) : x \in Range(Line(n))
        BY ONLY <4>2 DEF Range
      <4> QED BY <4>1, <4>3
    <3> QED BY ONLY <3>6
  <2>9. \A i \in 1..N : p[i - 1] \in Range(Line(p[i]))
    <3> SUFFICES ASSUME NEW i \in 1..N PROVE p[i - 1] \in Range(Line(p[i]))
      OBVIOUS
    <3>1. steps[i] \in Range(Tail(Line(down[i])))
      BY DEF steps
    <3>2. i \in 0..N
      BY <2>1
    <3> QED BY <2>3, <2>6, <2>7, <2>8, <3>1, <3>2
  <2>10. \A i \in 0..N : from \in Range(Line(p[i]))
    <3> DEFINE P == {i \in 0..N : from \in Range(Line(p[i]))}
    <3>1. 0 \in P
      <4>1. from \in Nodes
        BY Typed
      <4>2. 1 \in DOMAIN Line(from) /\ Line(from)[1] = from
        BY <4>1, LineItems
      <4>3. from \in Range(Line(from))
        BY <4>2 DEF Range
      <4> QED BY <2>1, <2>3, <4>3
    <3>2. ASSUME NEW i \in (0 + 1)..N, i - 1 \in P PROVE i \in P
      <4>1. i \in 1..N /\ i \in 0..N /\ i - 1 \in 0..N
        BY <2>1
      <4>2. Range(Line(p[i - 1])) \subseteq Range(Line(p[i]))
        BY <2>7, <2>9, <4>1, LineOn
      <4> QED BY <3>2, <4>1, <4>2
    <3>3. P \in SUBSET (0..N) /\ 0 \in Int /\ N \in Int
      BY <2>1
    <3> HIDE DEF P
    <3>4. P = 0..N
      BY <3>1, <3>2, <3>3, CountingUp
    <3> QED BY <3>4 DEF P
  <2>11. \A i \in 0..N : p[i] \in Range(Line(p[N]))
    <3> DEFINE P == {i \in 0..N : p[N - i] \in Range(Line(p[N]))}
    <3>1. 0 \in P
      <4>1. N \in 0..N /\ N - 0 = N
        BY <2>1
      <4>2. 1 \in DOMAIN Line(p[N]) /\ Line(p[N])[1] = p[N]
        BY <2>7, <4>1, LineItems
      <4>3. p[N] \in Range(Line(p[N]))
        BY <4>2 DEF Range
      <4> QED BY <2>1, <4>1, <4>3
    <3>2. ASSUME NEW i \in (0 + 1)..N, i - 1 \in P PROVE i \in P
      <4>1. /\ i \in 0..N /\ N - (i - 1) \in 1..N /\ N - (i - 1) \in 0..N
            /\ N - (i - 1) - 1 = N - i
        BY <2>1
      <4>2. p[N - (i - 1)] \in Range(Line(p[N]))
        BY <3>2
      <4>3. p[N - i] \in Range(Line(p[N - (i - 1)]))
        BY <2>9, <4>1
      <4>4. N \in 0..N
        BY <2>1
      <4>5. Range(Line(p[N - (i - 1)])) \subseteq Range(Line(p[N]))
        BY <2>7, <4>2, <4>4, LineOn
      <4> QED BY <4>1, <4>3, <4>5
    <3>3. P \in SUBSET (0..N) /\ 0 \in Int /\ N \in Int
      BY <2>1
    <3> HIDE DEF P
    <3>4. P = 0..N
      BY <3>1, <3>2, <3>3, CountingUp
    <3>5. ASSUME NEW i \in 0..N PROVE p[i] \in Range(Line(p[N]))
      <4>1. N - i \in 0..N /\ N - (N - i) = i
        BY <2>1
      <4>2. p[N - (N - i)] \in Range(Line(p[N]))
        BY <3>4, <4>1 DEF P
      <4> QED BY <4>1, <4>2
    <3> QED BY <3>5
  <2>12. ASSUME NEW i \in 1..N PROVE Find(p[i - 1], names[i], profile, FALSE) = {p[i]}
    <3>1. i \in 0..N /\ i - 1 \in 0..N /\ N \in 0..N
      BY <2>1
    <3>2. p[i - 1] \in InTree /\ p[i] \in InTree /\ p[i] \in Nodes /\ p[N] \in Nodes
      BY <2>7, <3>1
    <3>3. p[i - 1] \in Range(Line(p[i]))
      BY <2>9
    <3>4. \A m \in InTree : p[i - 1] \in Range(Line(m)) /\ sid[m] = sid[p[i]] => m = p[i]
      <4>1. \A m \in InTree : steps[i] \in Range(Line(m)) /\ sid[m] = sid[down[i]] => m = down[i]
        BY DEF steps
      <4> QED BY <2>3, <2>6, <4>1
    <3>5. ASSUME NEW m \in Range(Line(p[i])), p[i - 1] \in Range(Line(m)) PROVE Entered(m, profile)
      <4>1. m \in Nodes
        BY <3>2, LineOn
      <4>2. m \in Range(Line(p[N]))
        BY <2>11, <3>1, <3>2, LineOn
      <4>3. from \in Range(Line(m))
        BY <2>10, <3>1, <3>5, <4>1, LineOn
      <4>4. m \in Range(Line(Last(down)))
        BY <2>5, <4>2
      <4> QED BY <4>3, <4>4
    <3>6. Find(p[i - 1], sid[p[i]], profile, FALSE) = {p[i]}
      BY <3>2, <3>3, <3>4, <3>5, FindOnly
    <3> QED BY <2>4, <3>6
  <2>13. Resolves(p[0], names, profile) = {p[N]}
    <3>1. N \in Nat /\ Len(names) = N /\ p \in [0..N -> InTree]
      BY <2>1, <2>3, <2>4
    <3>2. \A i \in 1..N : Find(p[i - 1], names[i], profile, FALSE) = {p[i]}
      BY <2>12
    <3>3. Walks(p, names, N, profile)
      BY ONLY <3>1, <3>2 DEF Walks
    <3>4. Arrives(p, names, N, profile)
      BY ONLY <3>3, QueriesInv, ResolvesIs
    <3> QED BY ONLY <3>4 DEF Arrives
  <2> QED BY <2>3, <2>5, <2>13 DEF names
<1> QED BY <1>1, TreeStays, PTL
=============================================================================
