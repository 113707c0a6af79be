---------------------------- MODULE StoresProofs ----------------------------
(***************************************************************************)
(* Proofs about the three stores that everything else is kept in: Strings, *)
(* Shares and Arrays. They have nothing in common but their place.         *)
(*                                                                         *)
(* Strings: for any number of references and of blocks, and for counters   *)
(* of any width. The invariant is written as a relation of the three       *)
(* variables, so that the effect of moving one reference from one string   *)
(* to another is a lemma about functions (Recounted).                      *)
(*                                                                         *)
(* Shares: for tables of any size and any number of shares.                *)
(***************************************************************************)
EXTENDS Strings, Shares, Arrays, FiniteSetTheorems, SequenceTheorems, TLAPS

AnyString == Larges \union {Small, NoString}

\* The references to u, when f says what refers to what.
Count(f, u) == Cardinality({r \in StringRefs : f[r] = u})

Sound(f, c, a) ==
  \A u \in Larges : /\ u \in a <=> Count(f, u) # 0
                    /\ u \in a => c[u] = Count(f, u)

StringsInv == StringsTypeOK /\ Sound(string, counter, allocated)

\* r comes to refer to v, and what that does to the counts.
Moved(f, g, r, v) ==
  /\ f \in [StringRefs -> AnyString] /\ r \in StringRefs /\ v \in AnyString
  /\ g = [f EXCEPT ![r] = v]

Recounts(f, g, r, v) ==
  \A u \in AnyString :
    /\ Count(f, u) \in Nat /\ Count(g, u) \in Nat
    /\ v = u /\ f[r] # u => Count(g, u) = Count(f, u) + 1
    /\ v # u /\ f[r] = u => Count(f, u) = Count(g, u) + 1
    /\ (v = u <=> f[r] = u) => Count(g, u) = Count(f, u)

LEMMA Recounted ==
  ASSUME NEW f, NEW g, NEW r, NEW v, Moved(f, g, r, v)
  PROVE  Recounts(f, g, r, v)
<1> SUFFICES ASSUME NEW u \in AnyString
             PROVE  /\ Count(f, u) \in Nat /\ Count(g, u) \in Nat
                    /\ v = u /\ f[r] # u => Count(g, u) = Count(f, u) + 1
                    /\ v # u /\ f[r] = u => Count(f, u) = Count(g, u) + 1
                    /\ (v = u <=> f[r] = u) => Count(g, u) = Count(f, u)
  BY DEF Recounts
<1> USE DEF Moved
<1> DEFINE F == {x \in StringRefs : f[x] = u}
           G == {x \in StringRefs : g[x] = u}
<1>1. IsFiniteSet(F) /\ IsFiniteSet(G)
  BY FS_Subset, StringsAssumption
<1>2. Cardinality(F) \in Nat /\ Cardinality(G) \in Nat
  BY <1>1, FS_CardinalityType
<1>3. ASSUME v = u, f[r] # u PROVE Cardinality(G) = Cardinality(F) + 1
  <2>1. G = F \union {r} /\ r \notin F
    BY <1>3
  <2> QED BY <2>1, <1>1, FS_AddElement
<1>4. ASSUME v # u, f[r] = u PROVE Cardinality(F) = Cardinality(G) + 1
  <2>1. F = G \union {r} /\ r \notin G
    BY <1>4
  <2> QED BY <2>1, <1>1, FS_AddElement
<1>5. ASSUME v = u <=> f[r] = u PROVE G = F
  BY <1>5
<1> QED BY <1>2, <1>3, <1>4, <1>5 DEF Count

LEMMA CountsNobody ==
  ASSUME NEW f \in [StringRefs -> AnyString], NEW u \in AnyString
  PROVE  Count(f, u) # 0 <=> \E r \in StringRefs : f[r] = u
<1> DEFINE F == {x \in StringRefs : f[x] = u}
<1>1. IsFiniteSet(F)
  BY FS_Subset, StringsAssumption
<1>2. Cardinality(F) = 0 <=> F = {}
  BY <1>1, FS_EmptySet
<1> QED BY <1>2 DEF Count

LEMMA StringsInitially == StringsInit => StringsInv
<1> SUFFICES ASSUME StringsInit PROVE StringsInv
  OBVIOUS
<1>1. StringsTypeOK
  BY StringsAssumption DEF StringsInit, StringsTypeOK
<1>2. string \in [StringRefs -> AnyString]
  BY <1>1 DEF StringsTypeOK, AnyString
<1>3. \A u \in Larges : Count(string, u) = 0
  <2> TAKE u \in Larges
  <2>1. u \in AnyString /\ \A r \in StringRefs : string[r] # u
    BY StringsAssumption DEF StringsInit, AnyString
  <2> QED BY <1>2, <2>1, CountsNobody
<1> QED BY <1>1, <1>3 DEF StringsInv, Sound, StringsInit
-----------------------------------------------------------------------------
LEMMA ConstructKeeps ==
  ASSUME StringsInv, NEW r \in StringRefs, NEW s \in Larges \union {Small}, Construct(r, s)
  PROVE  StringsInv'
<1> USE StringsAssumption DEF StringsInv, StringsTypeOK, Construct, Constructs, Constructed, AnyString
<1>1. StringsTypeOK'
  OBVIOUS
<1>2. ASSUME NEW u \in Larges
      PROVE  /\ u \in allocated' <=> Count(string', u) # 0
             /\ u \in allocated' => counter'[u] = Count(string', u)
  <2>0. Moved(string, string', r, s)
    BY <1>2 DEF Moved
  <2>a. Recounts(string, string', r, s)
    BY ONLY <2>0, Recounted
  <2>1. /\ Count(string, u) \in Nat
        /\ s = u => Count(string', u) = Count(string, u) + 1
        /\ s # u => Count(string', u) = Count(string, u)
    BY <2>a, <1>2 DEF Recounts
  <2> QED BY <1>2, <2>1 DEF Sound
<1> QED BY <1>1, <1>2 DEF Sound

LEMMA CopyConstructKeeps ==
  ASSUME StringsInv, NEW r \in StringRefs, NEW q \in StringRefs, CopyConstruct(r, q)
  PROVE  StringsInv'
<1> USE StringsAssumption DEF StringsInv, StringsTypeOK, AnyString
<1>1. CASE ~Overflows(string[q])
  <2> USE <1>1 DEF CopyConstruct, Raised, Overflows
  <2>1. StringsTypeOK'
    OBVIOUS
  <2>2. ASSUME NEW u \in Larges
        PROVE  /\ u \in allocated' <=> Count(string', u) # 0
               /\ u \in allocated' => counter'[u] = Count(string', u)
    <3>0. Moved(string, string', r, string[q])
      BY <2>2 DEF Moved
    <3>a. Recounts(string, string', r, string[q])
      BY ONLY <3>0, Recounted
    <3>1. /\ Count(string, u) \in Nat
          /\ string[q] = u => Count(string', u) = Count(string, u) + 1
          /\ string[q] # u => Count(string', u) = Count(string, u)
      BY <3>a, <2>2 DEF Recounts
    <3>2. string[q] = u => Count(string, u) # 0
      BY <2>2, CountsNobody
    <3> QED BY <2>2, <3>1, <3>2 DEF Sound
  <2> QED BY <2>1, <2>2 DEF Sound
<1>2. CASE Overflows(string[q])
  <2>1. PICK t \in Larges : RollsOver(r, q, t)
    BY <1>2 DEF CopyConstruct
  <2> DEFINE s == string[q]
             f == [string EXCEPT ![r] = t]
  <2>2. /\ s \in Larges /\ counter[s] = Wrap - 1 /\ string[r] = NoString /\ r # q
        /\ string' = [f EXCEPT ![q] = t] /\ t \notin allocated /\ f[q] = s
    BY <1>2, <2>1 DEF CopyConstruct, Overflows, RollsOver
  <2>3. StringsTypeOK'
    BY <2>1, <2>2 DEF RollsOver
  <2>4. ASSUME NEW u \in Larges
        PROVE  /\ u \in allocated' <=> Count(string', u) # 0
               /\ u \in allocated' => counter'[u] = Count(string', u)
    <3> HIDE DEF f, s
    <3>0. Moved(string, f, r, t)
      BY <2>2, <2>4 DEF f, Moved
    <3>a. Recounts(string, f, r, t)
      BY ONLY <3>0, Recounted
    <3>1. /\ Count(string, u) \in Nat
          /\ t = u => Count(f, u) = Count(string, u) + 1
          /\ t # u => Count(f, u) = Count(string, u)
      BY <3>a, <2>2, <2>4 DEF Recounts, f
    <3>4. Moved(f, string', q, t)
      BY <2>2, <2>4 DEF f, Moved
    <3>b. Recounts(f, string', q, t)
      BY ONLY <3>4, Recounted
    <3>2. /\ Count(string', u) \in Nat
          /\ t = u /\ s # u => Count(string', u) = Count(f, u) + 1
          /\ t # u /\ s = u => Count(f, u) = Count(string', u) + 1
          /\ t # u /\ s # u => Count(string', u) = Count(f, u)
      BY <3>b, <2>2, <2>4 DEF Recounts, f
    <3> USE DEF f, s
    <3>3. Count(string, s) # 0
      BY <2>2, CountsNobody
    <3> QED BY <2>1, <2>2, <2>4, <3>1, <3>2, <3>3 DEF Sound, RollsOver
  <2> QED BY <2>3, <2>4 DEF Sound
<1> QED BY <1>1, <1>2

LEMMA DestroyKeeps ==
  ASSUME StringsInv, NEW r \in StringRefs, Destroy(r)
  PROVE  StringsInv'
<1> USE StringsAssumption DEF StringsInv, StringsTypeOK, Destroy, Lowered, FreedAtZero, AnyString
<1>1. StringsTypeOK'
  OBVIOUS
<1>2. ASSUME NEW u \in Larges
      PROVE  /\ u \in allocated' <=> Count(string', u) # 0
             /\ u \in allocated' => counter'[u] = Count(string', u)
  <2>0. Moved(string, string', r, NoString)
    BY <1>2 DEF Moved
  <2>a. Recounts(string, string', r, NoString)
    BY ONLY <2>0, Recounted
  <2>1. /\ Count(string, u) \in Nat /\ Count(string', u) \in Nat
        /\ string[r] = u => Count(string, u) = Count(string', u) + 1
        /\ string[r] # u => Count(string', u) = Count(string, u)
    BY <2>a, <1>2 DEF Recounts
  <2> QED BY <1>2, <2>1 DEF Sound
<1> QED BY <1>1, <1>2 DEF Sound
-----------------------------------------------------------------------------
\* Also where both references are to the same string: its counter goes up and down.
LEMMA SetKeeps ==
  ASSUME StringsInv, NEW r \in StringRefs, NEW q \in StringRefs, Set(r, q)
  PROVE  StringsInv'
<1> USE StringsAssumption DEF StringsInv, StringsTypeOK, AnyString
<1>1. CASE ~Overflows(string[q])
  <2>1. /\ string' = [string EXCEPT ![r] = string[q]]
        /\ counter' = Lowered(Raised(counter, string[q]), string[r])
        /\ allocated' = FreedAtZero(counter', allocated, string[r])
        /\ string[r] # NoString /\ string[q] # NoString
    BY <1>1 DEF Set
  <2>2. Raised(counter, string[q]) \in [Larges -> 0..(Wrap - 1)]
    BY DEF Raised
  <2>3. StringsTypeOK'
    BY <2>1, <2>2 DEF Lowered, FreedAtZero
  <2>4. ASSUME NEW u \in Larges
        PROVE  /\ u \in allocated' <=> Count(string', u) # 0
               /\ u \in allocated' => counter'[u] = Count(string', u)
    <3>0. Moved(string, string', r, string[q])
      BY <2>1, <2>4 DEF Moved
    <3>a. Recounts(string, string', r, string[q])
      BY ONLY <3>0, Recounted
    <3>1. /\ Count(string, u) \in Nat /\ Count(string', u) \in Nat
          /\ string[q] = u /\ string[r] # u => Count(string', u) = Count(string, u) + 1
          /\ string[q] # u /\ string[r] = u => Count(string, u) = Count(string', u) + 1
          /\ (string[q] = u <=> string[r] = u) => Count(string', u) = Count(string, u)
      BY <3>a, <2>1, <2>4 DEF Recounts
    <3>2. string[q] = u \/ string[r] = u => Count(string, u) # 0
      BY <2>4, CountsNobody
    <3>3. /\ u \in allocated <=> Count(string, u) # 0
          /\ u \in allocated => counter[u] = Count(string, u)
      BY <2>4 DEF Sound
    <3>4. string[q] = u => counter[u] + 1 # Wrap
      BY <1>1, <2>4 DEF Overflows
    <3>5. /\ string[q] # u /\ string[r] # u => counter'[u] = counter[u]
          /\ string[q] = u /\ string[r] # u => counter'[u] = counter[u] + 1
          /\ string[q] # u /\ string[r] = u /\ counter[u] # 0 => counter'[u] = counter[u] - 1
          /\ string[q] = u /\ string[r] = u => counter'[u] = counter[u]
      BY <2>1, <2>4, <3>4 DEF Lowered, Raised
    <3>6. u \in allocated' <=> u \in allocated /\ ~(string[r] = u /\ counter'[u] = 0)
      BY <2>1, <2>4 DEF FreedAtZero
    <3> QED BY <3>1, <3>2, <3>3, <3>5, <3>6
  <2> QED BY <2>3, <2>4 DEF Sound
<1>2. CASE Overflows(string[q])
  <2>1. PICK t \in Larges \ allocated :
          LET rolled == [counter EXCEPT ![string[q]] = Wrap - 2, ![t] = 2]
          IN  /\ counter' = Lowered(rolled, string[r])
              /\ allocated' = FreedAtZero(counter', allocated \union {t}, string[r])
              /\ string' = [string EXCEPT ![r] = t, ![q] = t]
    BY <1>2 DEF Set
  <2> DEFINE s == string[q]
             f == [string EXCEPT ![r] = t]
             rolled == [counter EXCEPT ![s] = Wrap - 2, ![t] = 2]
  <2>2. /\ s \in Larges /\ counter[s] = Wrap - 1 /\ r # q /\ f[q] = s
        /\ string' = [f EXCEPT ![q] = t] /\ f \in [StringRefs -> AnyString]
    BY <1>2, <2>1 DEF Set, Overflows
  <2>3. rolled \in [Larges -> 0..(Wrap - 1)]
    BY <2>2
  <2>4. StringsTypeOK'
    BY <2>1, <2>2, <2>3 DEF Lowered, FreedAtZero
  <2>5. Count(string, t) = 0 /\ Count(string, s) = Wrap - 1 /\ s \in allocated
    <3>1. Count(string, s) # 0
      BY <2>2, CountsNobody
    <3> QED BY <2>1, <2>2, <3>1 DEF Sound
  <2>6. string[r] # t /\ s # t
    <3>1. Count(string, t) # 0 <=> \E x \in StringRefs : string[x] = t
      BY <2>1, CountsNobody
    <3> QED BY <2>5, <3>1
  <2>7. ASSUME NEW u \in Larges
        PROVE  /\ u \in allocated' <=> Count(string', u) # 0
               /\ u \in allocated' => counter'[u] = Count(string', u)
    <3> HIDE DEF f, s, rolled
    <3>0. Moved(string, f, r, t)
      BY <2>1, <2>6, <2>7 DEF f, Moved
    <3>a. Recounts(string, f, r, t)
      BY ONLY <3>0, Recounted
    <3>1. /\ Count(string, u) \in Nat /\ Count(f, u) \in Nat
          /\ t = u => Count(f, u) = Count(string, u) + 1
          /\ t # u /\ string[r] = u => Count(string, u) = Count(f, u) + 1
          /\ t # u /\ string[r] # u => Count(f, u) = Count(string, u)
      BY <3>a, <2>1, <2>6, <2>7 DEF Recounts, f
    <3>10. Moved(f, string', q, t)
      BY <2>1, <2>2, <2>6, <2>7 DEF Moved
    <3>b. Recounts(f, string', q, t)
      BY ONLY <3>10, Recounted
    <3>2. /\ Count(string', u) \in Nat
          /\ t = u => Count(string', u) = Count(f, u) + 1
          /\ t # u /\ s = u => Count(f, u) = Count(string', u) + 1
          /\ t # u /\ s # u => Count(string', u) = Count(f, u)
      BY <3>b, <2>1, <2>2, <2>6, <2>7 DEF Recounts
    <3> USE DEF f, s, rolled
    <3>3. /\ u \in allocated <=> Count(string, u) # 0
          /\ u \in allocated => counter[u] = Count(string, u)
          /\ string[r] = u => Count(string, u) # 0
      BY <2>7, CountsNobody DEF Sound
    <3>4. rolled[u] = IF u = t THEN 2 ELSE IF u = s THEN Wrap - 2 ELSE counter[u]
      BY <2>1, <2>2, <2>6, <2>7
    <3>5. counter'[u] = IF string[r] = u THEN (IF rolled[u] = 0 THEN Wrap - 1 ELSE rolled[u] - 1)
                        ELSE rolled[u]
      BY <2>1, <2>3, <2>7 DEF Lowered
    <3>6. u \in allocated' <=> (u \in allocated \/ u = t) /\ ~(string[r] = u /\ counter'[u] = 0)
      BY <2>1, <2>7 DEF FreedAtZero
    <3>7. CASE u = t
      BY <2>5, <2>6, <3>1, <3>2, <3>4, <3>5, <3>6, <3>7
    <3>8. CASE u = s
      BY <2>5, <2>6, <3>1, <3>2, <3>4, <3>5, <3>6, <3>8
    <3>9. CASE u # t /\ u # s
      BY <3>1, <3>2, <3>3, <3>4, <3>5, <3>6, <3>9
    <3> QED BY <3>7, <3>8, <3>9
  <2> QED BY <2>4, <2>7 DEF Sound
<1> QED BY <1>1, <1>2

\* What is overwritten was referred to by nobody else.
LEMMA OverwriteKeeps ==
  ASSUME StringsInv, NEW r \in StringRefs, NEW s \in Larges \union {Small}, Overwrite(r, s)
  PROVE  StringsInv'
<1> USE StringsAssumption DEF StringsInv, StringsTypeOK, Overwrite, Constructs, Constructed, AnyString
<1>1. StringsTypeOK'
  OBVIOUS
<1>2. ASSUME NEW u \in Larges
      PROVE  /\ u \in allocated' <=> Count(string', u) # 0
             /\ u \in allocated' => counter'[u] = Count(string', u)
  <2>0. Moved(string, string', r, s)
    BY <1>2 DEF Moved
  <2>a. Recounts(string, string', r, s)
    BY ONLY <2>0, Recounted
  <2>1. /\ Count(string, u) \in Nat /\ Count(string', u) \in Nat
        /\ s = u /\ string[r] # u => Count(string', u) = Count(string, u) + 1
        /\ s # u /\ string[r] = u => Count(string, u) = Count(string', u) + 1
        /\ (s = u <=> string[r] = u) => Count(string', u) = Count(string, u)
    BY <2>a, <1>2 DEF Recounts
  <2>2. string[r] = u => Count(string, u) # 0
    BY <1>2, CountsNobody
  <2>3. /\ u \in allocated <=> Count(string, u) # 0
        /\ u \in allocated => counter[u] = Count(string, u)
    BY <1>2 DEF Sound
  <2> QED BY <1>2, <2>1, <2>2, <2>3
<1> QED BY <1>1, <1>2 DEF Sound

LEMMA StringsStutter == StringsInv /\ UNCHANGED stringsVars => StringsInv'
  BY DEF StringsInv, StringsTypeOK, Sound, Count, stringsVars

\* The invariant of the pool and its references holds in every reachable state.
THEOREM StringsInductive == StringsSpec => []StringsInv
<1>1. StringsInv /\ [StringsNext]_stringsVars => StringsInv'
  BY ConstructKeeps, CopyConstructKeeps, DestroyKeeps, SetKeeps, OverwriteKeeps, StringsStutter
     DEF StringsNext
<1> QED BY StringsInitially, <1>1, PTL DEF StringsSpec

\* No reference outlives its string, and no large string its last reference, however
\* often counters roll over (_copy_construct(), release(), rollover()).
THEOREM StringsLive == StringsSpec => []LargeStringsLive
<1>1. StringsInv => LargeStringsLive
  <2> SUFFICES ASSUME StringsInv PROVE LargeStringsLive
    OBVIOUS
  <2>1. \A u \in Larges : u \in allocated <=> \E r \in StringRefs : string[r] = u
    BY CountsNobody DEF StringsInv, Sound, StringsTypeOK, AnyString
  <2> QED BY <2>1 DEF StringsInv, StringsTypeOK, LargeStringsLive
<1> QED BY StringsInductive, <1>1, PTL

\* The counter of a large string is the number of its references, whatever its width
\* (daeDBaseString).
THEOREM CountersCount == StringsSpec => []ReferencesCounted
<1>1. StringsInv => ReferencesCounted
  BY DEF StringsInv, StringsTypeOK, Sound, Count, ReferencesCounted, Refers
<1> QED BY StringsInductive, <1>1, PTL
-----------------------------------------------------------------------------

SharesInv == SharesTypeOK /\ TagsNameTheirShare /\ SidesHaveShares /\ OneSlotEach

LEMMA SharesInitially == SharesInit => SharesInv
<1> SUFFICES ASSUME SharesInit PROVE SharesInv
  OBVIOUS
<1> USE SharesAssumption DEF SharesInit
<1>1. 0 \in Slots /\ \A i \in Slots : i \in Nat
  BY DEF Slots
<1>2. SharesTypeOK
  BY <1>1 DEF SharesTypeOK
<1>3. TagsNameTheirShare /\ SidesHaveShares
  BY DEF TagsNameTheirShare, SidesHaveShares
<1>4. OneSlotEach
  BY <1>1 DEF OneSlotEach
<1> QED BY <1>2, <1>3, <1>4 DEF SharesInv

\* A grant finds the share's own slot or takes a free one.
LEMMA GrantKeeps ==
  ASSUME SharesInv, NEW p \in PShares, Grant(p)
  PROVE  SharesInv'
<1> USE SharesAssumption DEF SharesInv, SharesTypeOK, Grant
<1>1. CASE \E i \in Slots : Granted(p, i)
  <2>1. PICK i \in Slots : /\ Granted(p, i)
                           /\ PS' = [PS EXCEPT ![i] = p]
                           /\ moduleTag' = [moduleTag EXCEPT ![p] = i]
                           /\ UNCHANGED refused
    BY <1>1
  <2>2. SharesTypeOK'
    BY <2>1
  <2>3. TagsNameTheirShare'
    BY <2>1 DEF TagsNameTheirShare, Granted, Slots
  <2>4. SidesHaveShares'
    BY <2>1 DEF SidesHaveShares
  <2>5. OneSlotEach'
    BY <2>1 DEF OneSlotEach, Granted
  <2> QED BY <2>2, <2>3, <2>4, <2>5
<1>2. CASE refused' = TRUE /\ UNCHANGED <<PS, moduleTag>>
  BY <1>2 DEF TagsNameTheirShare, SidesHaveShares, OneSlotEach
<1> QED BY <1>1, <1>2

\* A share that goes gives up its slot, and the library-side share with it.
LEMMA UngrantKeeps ==
  ASSUME SharesInv, ~refused, NEW p \in PShares, Ungrant(p)
  PROVE  SharesInv'
<1> USE SharesAssumption DEF SharesInv, SharesTypeOK, Ungrant
<1>1. moduleTag[p] # 0 /\ PS[moduleTag[p]] = p /\ UNCHANGED refused
  BY DEF TagsNameTheirShare
<1>2. SharesTypeOK'
  <2>1. 0 \in Slots
    BY DEF Slots
  <2>2. PS' \in [Slots -> PShares \union {NoShare}] /\ moduleTag' \in [PShares -> Slots]
    BY <1>1, <2>1
  <2>3. side' \subseteq Slots /\ loaded' \subseteq PShares /\ refused' \in BOOLEAN
    BY <1>1
  <2> QED BY <2>2, <2>3
<1>3. TagsNameTheirShare'
  BY <1>1 DEF TagsNameTheirShare
<1>4. SidesHaveShares'
  BY <1>1 DEF SidesHaveShares
<1>5. OneSlotEach'
  BY <1>1 DEF OneSlotEach
<1> QED BY <1>2, <1>3, <1>4, <1>5

LEMMA DefaultKeeps ==
  ASSUME SharesInv, ~refused, NEW p \in PShares, Default(p)
  PROVE  SharesInv'
  BY SharesAssumption
     DEF SharesInv, SharesTypeOK, TagsNameTheirShare, SidesHaveShares, OneSlotEach, Default

LEMMA SharesStutter == SharesInv /\ UNCHANGED sharesVars => SharesInv'
  BY DEF SharesInv, SharesTypeOK, TagsNameTheirShare, SidesHaveShares, OneSlotEach, sharesVars

\* The invariant of the table holds in every reachable state (daePShare::grant()).
THEOREM SharesInductive == SharesSpec => []SharesInv
<1>1. SharesInv /\ [SharesNext]_sharesVars => SharesInv'
  BY GrantKeeps, UngrantKeeps, DefaultKeeps, SharesStutter DEF SharesNext
<1> QED BY SharesInitially, <1>1, PTL DEF SharesSpec

\* Two modules that are loaded never have a tag in common (getModuleTag()).
THEOREM TagsAreNames == SharesSpec => []TagsNameTheirShare
<1>1. SharesInv => TagsNameTheirShare BY DEF SharesInv
<1> QED BY SharesInductive, <1>1, PTL

\* A library-side share never outlives the slot it was made for (grant(0)).
THEOREM SidesAreOwned == SharesSpec => []SidesHaveShares
<1>1. SharesInv => SidesHaveShares BY DEF SharesInv
<1> QED BY SharesInductive, <1>1, PTL

\* However often a module is granted, it takes one slot (grant()).
THEOREM SlotsAreSingle == SharesSpec => []OneSlotEach
<1>1. SharesInv => OneSlotEach BY DEF SharesInv
<1> QED BY SharesInductive, <1>1, PTL
-----------------------------------------------------------------------------

\* What an array holds as long as no operand is an item of it.
ArrayItems == Items \union {DefaultItem}

LEMMA FilledWith ==
  ASSUME NEW n \in Int, NEW v \in ArrayItems
  PROVE  /\ Filled(n, v) \in Seq(ArrayItems)
         /\ Len(Filled(n, v)) = IF n <= 0 THEN 0 ELSE n
         /\ \A i \in 1..n : Filled(n, v)[i] = v
<1> DEFINE m == IF n <= 0 THEN 0 ELSE n
           f == [i \in 1..m |-> v]
<1>1. m \in Nat /\ 1..n = 1..m
  OBVIOUS
<1>2. Filled(n, v) = f
  BY <1>1 DEF Filled
<1> HIDE DEF m
<1>3. f \in Seq(ArrayItems) /\ Len(f) = m /\ \A i \in 1..m : f[i] = v
  BY <1>1
<1> QED BY <1>1, <1>2, <1>3 DEF m

\* Skipped places first, then the new items, then those that were behind the index.
THEOREM InsertionKept ==
  ASSUME Outside, NEW s \in Seq(ArrayItems), NEW index \in Nat, NEW n \in Nat, NEW operand \in Operands
  PROVE  LET padded == s \o Filled(index - Len(s), DefaultItem)
         IN  ItemsInserted(s, index, n, operand) =
               SubSeq(padded, 1, index) \o Filled(n, Reads(operand, s, FALSE))
                 \o SubSeq(padded, index + 1, Len(padded))
<1> DEFINE padded == s \o Filled(index - Len(s), DefaultItem)
           v == operand.value
           skipped == Filled(index - Len(s), DefaultItem)
           new == Filled(n, v)
           front == SubSeq(padded, 1, index)
           back == SubSeq(padded, index + 1, Len(padded))
           count == IF index >= Len(s) THEN index + n ELSE Len(s) + n
           sized == Sized(s, count, Value(DefaultItem))
           shifted == [i \in 1..count |-> IF index < Len(s) /\ i > index + n THEN sized[i - n] ELSE sized[i]]
           result == [i \in 1..count |-> IF i \in (index + 1)..(index + n) THEN v ELSE shifted[i]]
<1>1. operand.at < 0
  BY DEF Operands, Value
<1>2. /\ Len(s) \in Nat /\ count \in Nat /\ count >= Len(s)
      /\ v \in Items
  BY DEF Operands, Value
<1>3. /\ padded \in Seq(ArrayItems)
      /\ Len(padded) = IF index <= Len(s) THEN Len(s) ELSE index
      /\ \A i \in 1..Len(padded) : padded[i] = IF i <= Len(s) THEN s[i] ELSE DefaultItem
  <2>1. /\ skipped \in Seq(ArrayItems)
        /\ Len(skipped) = IF index <= Len(s) THEN 0 ELSE index - Len(s)
        /\ \A i \in 1..(index - Len(s)) : skipped[i] = DefaultItem
    <3>1. index - Len(s) \in Int /\ DefaultItem \in ArrayItems
      BY <1>2 DEF ArrayItems
    <3> QED BY <1>2, <3>1, FilledWith
  <2> HIDE DEF skipped
  <2>2. /\ s \o skipped \in Seq(ArrayItems) /\ Len(s \o skipped) = Len(s) + Len(skipped)
        /\ \A i \in 1..(Len(s) + Len(skipped)) :
             (s \o skipped)[i] = IF i <= Len(s) THEN s[i] ELSE skipped[i - Len(s)]
    BY <2>1, ConcatProperties
  <2>3. padded = s \o skipped
    BY DEF skipped
  <2> HIDE DEF padded
  <2> QED BY <1>2, <2>1, <2>2, <2>3
<1>4. /\ front \in Seq(ArrayItems) /\ Len(front) = index
      /\ \A i \in 1..index : front[i] = padded[i]
  BY <1>2, <1>3
<1>5. /\ new \in Seq(ArrayItems) /\ Len(new) = n
      /\ \A i \in 1..n : new[i] = v
  BY <1>2 DEF Filled, ArrayItems
<1>6. /\ back \in Seq(ArrayItems) /\ Len(back) = Len(padded) - index
      /\ \A i \in 1..Len(back) : back[i] = padded[index + i]
  BY <1>2, <1>3
<1>7. Value(DefaultItem).at = -1 /\ Value(DefaultItem).value = DefaultItem
  BY DEF Value
<1>8. /\ sized \in Seq(ArrayItems) /\ Len(sized) = count
      /\ \A i \in 1..count : sized[i] = IF i <= Len(s) THEN s[i] ELSE DefaultItem
  BY <1>2, <1>7 DEF Sized, Filled, Reads, ArrayItems
<1> HIDE DEF padded, v, new, front, back, count, sized
<1>9. /\ front \o new \in Seq(ArrayItems) /\ Len(front \o new) = index + n
      /\ \A i \in 1..(index + n) :
           (front \o new)[i] = IF i <= index THEN front[i] ELSE new[i - index]
  BY <1>4, <1>5, ConcatProperties
<1>l. Len(back) \in Nat /\ index + n \in Nat
  BY <1>2, <1>3, <1>6
<1>10. /\ front \o new \o back \in Seq(ArrayItems)
       /\ Len(front \o new \o back) = index + n + Len(back)
       /\ \A i \in 1..(index + n + Len(back)) :
            (front \o new \o back)[i] =
              IF i <= index + n THEN (front \o new)[i] ELSE back[i - (index + n)]
  <2> DEFINE h == front \o new
  <2>1. h \in Seq(ArrayItems) /\ Len(h) = index + n
    BY <1>9
  <2> HIDE DEF h
  <2>2. /\ h \o back \in Seq(ArrayItems)
        /\ Len(h \o back) = Len(h) + Len(back)
        /\ \A i \in 1..(Len(h) + Len(back)) :
             (h \o back)[i] = IF i <= Len(h) THEN h[i] ELSE back[i - Len(h)]
    BY <1>6, <2>1, ConcatProperties
  <2> QED BY <2>1, <2>2 DEF h
<1>11. count = index + n + Len(back)
  <2>1. Len(s) \in Nat /\ Len(padded) = IF index <= Len(s) THEN Len(s) ELSE index
    BY <1>2, <1>3
  <2>2. Len(back) = Len(padded) - index
    BY <1>6
  <2>3. count = IF index >= Len(s) THEN index + n ELSE Len(s) + n
    BY DEF count
  <2>4. CASE index <= Len(s)
    BY <2>1, <2>2, <2>3, <2>4
  <2>5. CASE ~(index <= Len(s))
    BY <2>1, <2>2, <2>3, <2>5
  <2> QED BY <2>4, <2>5
<1>12. ASSUME NEW i \in 1..count PROVE result[i] = (front \o new \o back)[i]
  <2>1. CASE i <= index
    <3>1. (front \o new \o back)[i] = padded[i]
      BY <1>2, <1>4, <1>9, <1>10, <1>11, <2>1
    <3>2. padded[i] = IF i <= Len(s) THEN s[i] ELSE DefaultItem
      BY <1>2, <1>3, <2>1
    <3> QED BY <1>2, <1>8, <2>1, <3>1, <3>2
  <2>2. CASE i > index /\ i <= index + n
    <3>1. (front \o new \o back)[i] = v
      BY <1>2, <1>5, <1>9, <1>10, <1>11, <2>2
    <3> QED BY <2>2, <3>1, <1>2
  <2>3. CASE i > index + n
    <3>1. (front \o new \o back)[i] = padded[i - n]
      <4>1. /\ i \in 1..(index + n + Len(back)) /\ ~(i <= index + n)
            /\ i - (index + n) \in 1..Len(back) /\ index + (i - (index + n)) = i - n
        BY <1>l, <1>11, <2>3
      <4> QED BY <4>1, <1>6, <1>10
    <3>2. i - n \in 1..Len(padded) /\ i - n <= count
      BY <1>2, <1>6, <1>3, <1>11, <2>3
    <3>3. padded[i - n] = IF i - n <= Len(s) THEN s[i - n] ELSE DefaultItem
      BY <1>3, <3>2
    <3>4. sized[i - n] = padded[i - n] /\ sized[i] = IF i <= Len(s) THEN s[i] ELSE DefaultItem
      BY <1>2, <1>8, <2>3, <3>2, <3>3
    <3>5. index < Len(s)
      <4>1. Len(back) > 0 /\ Len(s) \in Nat /\ Len(back) \in Nat
        BY <1>2, <1>l, <1>11, <2>3
      <4>2. Len(back) = (IF index <= Len(s) THEN Len(s) ELSE index) - index
        BY <1>3, <1>6
      <4> QED BY ONLY <4>1, <4>2, index \in Nat
    <3> QED BY <1>2, <2>3, <3>1, <3>4, <3>5
  <2>4. count \in Nat /\ index \in Nat /\ n \in Nat
    BY <1>2
  <2>5. i <= index \/ (i > index /\ i <= index + n) \/ i > index + n
    BY <2>4
  <2> QED BY <2>1, <2>2, <2>3, <2>5
<1> HIDE DEF shifted
<1>13. result \in Seq(ArrayItems) /\ Len(result) = count
  <2>1. \A i \in 1..count : result[i] \in ArrayItems
    BY <1>10, <1>11, <1>12, ElementOfSeq
  <2>2. DOMAIN result = 1..count /\ count \in Nat
    BY <1>2
  <2> QED BY <2>1, <2>2
<1>14. result = front \o new \o back
  BY <1>10, <1>11, <1>12, <1>13, SeqEqual
<1> USE DEF shifted
<1>15. ItemsInserted(s, index, n, operand) = result
  BY <1>1 DEF ItemsInserted, Reads, v, count, sized
<1>16. Reads(operand, s, FALSE) = v
  BY <1>1 DEF Reads, v
<1> QED BY <1>14, <1>15, <1>16 DEF padded, new, front, back
-----------------------------------------------------------------------------
LEMMA SizedHeld ==
  ASSUME Outside, NEW s \in Seq(ArrayItems), NEW n \in Nat, NEW operand,
         operand.at < 0, operand.value \in ArrayItems
  PROVE  Sized(s, n, operand) \in Seq(ArrayItems) /\ Len(Sized(s, n, operand)) = n
<1>1. CASE n <= Len(s)
  BY <1>1 DEF Sized
<1>2. CASE ~(n <= Len(s))
  <2> DEFINE rest == Filled(n - Len(s), operand.value)
  <2>1. n - Len(s) \in Int /\ n - Len(s) > 0 /\ Len(s) \in Nat
    BY <1>2
  <2>2. rest \in Seq(ArrayItems) /\ Len(rest) = n - Len(s)
    BY <2>1, FilledWith
  <2>3. Sized(s, n, operand) = s \o rest
    BY <1>2 DEF Sized, Reads
  <2> HIDE DEF rest
  <2>4. s \o rest \in Seq(ArrayItems) /\ Len(s \o rest) = Len(s) + Len(rest)
    BY <2>2, ConcatProperties
  <2> QED BY <2>1, <2>2, <2>3, <2>4
<1> QED BY <1>1, <1>2

LEMMA OperandsHeld ==
  ASSUME Outside, NEW operand \in Operands
  PROVE  operand.at < 0 /\ operand.value \in ArrayItems
  BY DEF Operands, Value, ArrayItems

LEMMA SetAtHeld ==
  ASSUME Outside, NEW s \in Seq(ArrayItems), NEW index \in Nat, NEW operand,
         operand.at < 0, operand.value \in ArrayItems
  PROVE  SetAt(s, index, operand) \in Seq(ArrayItems)
<1> DEFINE sized == IF index < Len(s) THEN s ELSE Sized(s, index + 1, Value(DefaultItem))
<1>1. Value(DefaultItem).at < 0 /\ Value(DefaultItem).value \in ArrayItems
  BY DEF Value, ArrayItems
<1>2. sized \in Seq(ArrayItems) /\ index + 1 \in 1..Len(sized)
  <2>1. CASE index < Len(s)
    BY <2>1
  <2>2. CASE ~(index < Len(s))
    <3>1. sized = Sized(s, index + 1, Value(DefaultItem)) /\ index + 1 \in Nat
      BY <2>2
    <3>2. \A o : o = Value(DefaultItem)
            => Sized(s, index + 1, o) \in Seq(ArrayItems) /\ Len(Sized(s, index + 1, o)) = index + 1
      BY <1>1, <3>1, SizedHeld
    <3> QED BY <3>1, <3>2
  <2> QED BY <2>1, <2>2
<1>3. SetAt(s, index, operand) = [sized EXCEPT ![index + 1] = operand.value]
  BY DEF SetAt, Reads
<1> HIDE DEF sized
<1> QED BY <1>2, <1>3

LEMMA WithoutHeld ==
  ASSUME NEW s \in Seq(ArrayItems), NEW index \in Nat, index < Len(s)
  PROVE  Without(s, index) \in Seq(ArrayItems)
  BY DEF Without

LEMMA InsertedHeld ==
  ASSUME Outside, NEW s \in Seq(ArrayItems), NEW index \in Nat, NEW n \in Nat, NEW operand \in Operands
  PROVE  ItemsInserted(s, index, n, operand) \in Seq(ArrayItems)
<1> DEFINE padded == s \o Filled(index - Len(s), DefaultItem)
           new == Filled(n, operand.value)
<1>1. operand.at < 0 /\ operand.value \in ArrayItems /\ DefaultItem \in ArrayItems
  BY OperandsHeld DEF ArrayItems
<1>2. padded \in Seq(ArrayItems)
  <2>1. index - Len(s) \in Int
    OBVIOUS
  <2>2. Filled(index - Len(s), DefaultItem) \in Seq(ArrayItems)
    BY <1>1, <2>1, FilledWith
  <2> QED BY <2>2, ConcatProperties
<1>3. new \in Seq(ArrayItems)
  BY <1>1, FilledWith
<1>4. ItemsInserted(s, index, n, operand) =
        SubSeq(padded, 1, index) \o new \o SubSeq(padded, index + 1, Len(padded))
  <2>1. Reads(operand, s, FALSE) = operand.value
    BY <1>1 DEF Reads
  <2> QED BY <2>1, InsertionKept
<1>5. index <= Len(padded)
  <2>1. Filled(index - Len(s), DefaultItem) \in Seq(ArrayItems)
        /\ Len(Filled(index - Len(s), DefaultItem)) = IF index - Len(s) <= 0 THEN 0 ELSE index - Len(s)
    <3>1. index - Len(s) \in Int
      OBVIOUS
    <3> QED BY <1>1, <3>1, FilledWith
  <2>2. Len(padded) = Len(s) + Len(Filled(index - Len(s), DefaultItem))
    BY <2>1, ConcatProperties
  <2> QED BY <2>1, <2>2
<1> HIDE DEF padded, new
<1>6. SubSeq(padded, 1, index) \in Seq(ArrayItems) /\ SubSeq(padded, index + 1, Len(padded)) \in Seq(ArrayItems)
  BY <1>2, <1>5
<1>7. SubSeq(padded, 1, index) \o new \in Seq(ArrayItems)
  BY <1>3, <1>6, ConcatProperties
<1> QED BY <1>4, <1>6, <1>7, ConcatProperties

\* An array holds items only, and no more than it has room for.
ArraysInv ==
  /\ array \in Seq(ArrayItems) /\ Len(array) <= capacity
  /\ capacity \in Nat /\ overrun \in BOOLEAN

LEMMA ArraysInitially == ArraysInit => ArraysInv
<1> SUFFICES ASSUME ArraysInit PROVE ArraysInv
  OBVIOUS
<1>1. array = <<>> /\ capacity = 0 /\ overrun = FALSE
  BY DEF ArraysInit
<1>2. <<>> \in Seq(ArrayItems) /\ Len(<<>>) = 0
  OBVIOUS
<1>3. array \in Seq(ArrayItems) /\ Len(array) = 0
  BY <1>1, <1>2
<1>4. Len(array) <= capacity /\ capacity \in Nat
  BY ONLY <1>1, <1>3
<1>5. overrun \in BOOLEAN
  BY ONLY <1>1
<1> QED BY ONLY <1>3, <1>4, <1>5 DEF ArraysInv

LEMMA BecomesHeld ==
  ASSUME ArraysInv, NEW s \in Seq(ArrayItems), Becomes(s)
  PROVE  ArraysInv'
<1>1. array' = s /\ capacity' = Reserved(Len(s)) /\ overrun' = overrun
  BY DEF Becomes
<1>2. Len(s) \in Nat /\ capacity \in Nat /\ MinCapacity \in Nat
  BY ArraysAssumption DEF ArraysInv
<1>3. Reserved(Len(s)) \in Nat /\ Len(s) <= Reserved(Len(s))
  BY <1>2 DEF Reserved
<1> QED BY <1>1, <1>3 DEF ArraysInv

LEMMA ArraysStep ==
  ASSUME Outside, ArraysInv, [ArraysNext]_arraysVars
  PROVE  ArraysInv'
<1>1. array \in Seq(ArrayItems)
  BY DEF ArraysInv
<1>2. \A k \in 0..MaxItems : k \in Nat
  BY ArraysAssumption
<1>3. \A k \in 0..(MaxItems - 1) : k \in Nat
  BY ArraysAssumption
<1>4. ASSUME NEW n \in 0..MaxItems, NEW operand \in Operands, SetCount(n, operand) PROVE ArraysInv'
  <2>1. Sized(array, n, operand) \in Seq(ArrayItems)
    BY <1>1, <1>2, OperandsHeld, SizedHeld
  <2> QED BY <1>4, <2>1, BecomesHeld DEF SetCount
<1>5. ASSUME NEW index \in 0..(MaxItems - 1), NEW operand \in Operands, SetItem(index, operand)
      PROVE  ArraysInv'
  <2>1. SetAt(array, index, operand) \in Seq(ArrayItems)
    BY <1>1, <1>3, OperandsHeld, SetAtHeld
  <2> QED BY <1>5, <2>1, BecomesHeld DEF SetItem
<1>6. ASSUME NEW index \in 0..MaxItems, NEW n \in 0..MaxItems, NEW operand \in Operands,
             Insert(index, n, operand)
      PROVE  ArraysInv'
  <2>1. index \in Nat /\ n \in Nat
    BY <1>2
  <2>2. ItemsInserted(array, index, n, operand) \in Seq(ArrayItems)
    BY ONLY <1>1, <2>1, Outside, operand \in Operands, InsertedHeld
  <2>3. CASE index + n = 0 /\ array # <<>>
    <3>1. array' = array /\ capacity' = capacity /\ overrun' = TRUE
      BY <1>6, <2>3 DEF Insert
    <3> QED BY <3>1 DEF ArraysInv
  <2>4. CASE ~(index + n = 0 /\ array # <<>>)
    <3>1. Becomes(ItemsInserted(array, index, n, operand))
      BY <1>6, <2>4 DEF Insert
    <3> QED BY <2>2, <3>1, BecomesHeld
  <2> QED BY <2>3, <2>4
<1>7. ASSUME NEW index \in 0..(MaxItems - 1), RemoveIndex(index) PROVE ArraysInv'
  <2>1. Without(array, index) \in Seq(ArrayItems)
    BY <1>1, <1>3, <1>7, WithoutHeld DEF RemoveIndex
  <2> QED BY <1>7, <2>1, BecomesHeld DEF RemoveIndex
<1>8. ASSUME NEW v \in Items, RemoveItem(v) PROVE ArraysInv'
  <2>1. PICK index \in Finds(array, v) : Becomes(Without(array, index))
    BY <1>8 DEF RemoveItem
  <2>2. index \in Nat /\ index < Len(array)
    BY <1>1, <2>1 DEF Finds
  <2>3. Without(array, index) \in Seq(ArrayItems)
    BY <1>1, <2>2, WithoutHeld
  <2> QED BY <2>1, <2>3, BecomesHeld
<1>9. ASSUME NEW v \in Items, AppendUnique(v) PROVE ArraysInv'
  <2>1. Value(v).at < 0 /\ Value(v).value \in ArrayItems /\ Len(array) \in Nat
    BY <1>1 DEF Value, ArrayItems
  <2>2. SetAt(array, Len(array), Value(v)) \in Seq(ArrayItems)
    BY <1>1, <2>1, SetAtHeld
  <2> QED BY <1>9, <2>2, BecomesHeld DEF AppendUnique
<1>10. CASE ClearItems
  <2>1. <<>> \in Seq(ArrayItems)
    OBVIOUS
  <2> QED BY <1>10, <2>1, BecomesHeld DEF ClearItems
<1>11. CASE UNCHANGED arraysVars
  BY <1>11 DEF arraysVars, ArraysInv
<1> QED BY <1>4, <1>5, <1>6, <1>7, <1>8, <1>9, <1>10, <1>11 DEF ArraysNext

\* No call leaves more items in an array than it has room for, or an item that has been
\* freed, where the operand is not an item of the array (_grow2(), _grow3()).
THEOREM ArraysFit ==
  ASSUME Outside PROVE ArraysSpec => [](ArraysTypeOK /\ Freed \notin Range(array))
<1>1. ArraysInit => ArraysInv
  BY ArraysInitially
<1>2. ArraysInv /\ [ArraysNext]_arraysVars => ArraysInv'
  BY ArraysStep
<1>3. ArraysInv => ArraysTypeOK /\ Freed \notin Range(array)
  <2> SUFFICES ASSUME ArraysInv PROVE ArraysTypeOK /\ Freed \notin Range(array)
    OBVIOUS
  <2>1. array \in Seq(Items \union {DefaultItem, Freed})
    BY DEF ArraysInv, ArrayItems
  <2>2. \A i \in DOMAIN array : array[i] \in ArrayItems
    BY DEF ArraysInv
  <2>3. Freed \notin ArrayItems
    BY ArraysAssumption DEF ArrayItems
  <2>4. Freed \notin Range(array)
    BY <2>2, <2>3 DEF Range
  <2> QED BY <2>1, <2>4 DEF ArraysInv, ArraysTypeOK
<1> QED BY <1>1, <1>2, <1>3, PTL DEF ArraysSpec

\* Inserting changes nothing but to make room (insert()), for arrays of any length and
\* capacity and any number of new items, where the operand is not an item of the array.
THEOREM InsertionsKeep ==
  ASSUME Outside PROVE ArraysSpec => []InsertKeepsItems
<1>1. ArraysInit => ArraysInv
  BY ArraysInitially
<1>2. ArraysInv /\ [ArraysNext]_arraysVars => ArraysInv'
  BY ArraysStep
<1>3. ArraysInv => InsertKeepsItems
  <2> SUFFICES ASSUME ArraysInv, NEW index \in 0..MaxItems, NEW n \in 0..MaxItems, NEW operand \in Operands
               PROVE  LET padded == array \o Filled(index - Len(array), DefaultItem)
                      IN  ItemsInserted(array, index, n, operand) =
                            SubSeq(padded, 1, index) \o Filled(n, Reads(operand, array, FALSE))
                              \o SubSeq(padded, index + 1, Len(padded))
    BY DEF InsertKeepsItems
  <2>1. index \in Nat /\ n \in Nat /\ array \in Seq(ArrayItems)
    BY ArraysAssumption DEF ArraysInv
  <2> QED BY <2>1, InsertionKept
<1> QED BY <1>1, <1>2, <1>3, PTL DEF ArraysSpec
=============================================================================
