-------------------------- MODULE DocumentsProofs --------------------------
(***************************************************************************)
(* Proofs about what documents are given and what becomes of them: the     *)
(* schemata that they use (Schemata), the requests that read and write     *)
(* them (Requests) and the bases of what is in them (Bases). For any       *)
(* number of documents, of elements, of schemata and of plugins, and for   *)
(* calls within calls of any depth.                                        *)
(***************************************************************************)
EXTENDS Schemata, Requests, Bases, Recursion, FiniteSetTheorems, SequenceTheorems,
        TLAPS
-----------------------------------------------------------------------------
(* Stacks, whose top is their last item *)

LEMMA TopOf ==
  ASSUME NEW S, NEW s \in Seq(S), s # <<>>
  PROVE  /\ Front(s) \in Seq(S) /\ Len(s) \in Nat \ {0} /\ Len(Front(s)) = Len(s) - 1
         /\ DOMAIN Front(s) = 1..(Len(s) - 1) /\ DOMAIN s = 1..Len(s) /\ Last(s) = s[Len(s)]
         /\ Last(s) \in S /\ \A i \in 1..(Len(s) - 1) : Front(s)[i] = s[i]
<1>1. Len(s) \in Nat \ {0} /\ DOMAIN s = 1..Len(s) /\ \A i \in 1..Len(s) : s[i] \in S
  OBVIOUS
<1> PICK n : n = Len(s)
  OBVIOUS
<1>2. /\ Front(s) \in Seq(S) /\ Len(Front(s)) = IF 1 <= n - 1 THEN n - 1 - 1 + 1 ELSE 0
      /\ \A i \in 1..(n - 1 - 1 + 1) : Front(s)[i] = s[1 + i - 1]
  <2>1. /\ 1 \in Int /\ n - 1 \in Int /\ \A i \in 1..(n - 1) : s[i] \in S
        /\ Front(s) = SubSeq(s, 1, n - 1)
    BY <1>1 DEF Front
  <2> QED BY <2>1, SubSeqProperties
<1>3. Len(Front(s)) = n - 1 /\ \A i \in 1..(n - 1) : Front(s)[i] = s[i]
  BY <1>1, <1>2
<1>4. DOMAIN Front(s) = 1..(n - 1)
  BY <1>2, <1>3
<1> QED BY <1>1, <1>2, <1>3, <1>4 DEF Last
-----------------------------------------------------------------------------
(* Schemata *)

Lists == [Hosts -> Seq(Entry)]
Cells == Hosts \X (1..MaxEntries)

\* The places of the entries of schema s in the lists f.
Where(f, s) ==
  {x \in Cells : x[2] \in DOMAIN f[x[1]] /\ f[x[1]][x[2]].schema = s}

Question == [host : Hosts, namespace : Namespaces, at : Nat \ {0}]

SchemataInv ==
  /\ schemata \in Lists /\ users \in [Countable -> Nat]
  /\ \A h \in Hosts : Len(schemata[h]) <= MaxEntries
  /\ asked \in Seq(Question) /\ Len(asked) <= MaxAsked
  /\ \A i \in DOMAIN asked : asked[i].at <= Len(schemata[asked[i].host]) + 1
  /\ ended \in BOOLEAN
  /\ \A s \in Countable : users[s] = Cardinality(Where(schemata, s))

LEMMA FiniteCells == IsFiniteSet(Cells)
<1>1. MaxEntries \in Int /\ 1 \in Int /\ IsFiniteSet(Hosts)
  BY SchemataAssumption
<1>2. IsFiniteSet(1..MaxEntries)
  BY <1>1, FS_Interval
<1> QED BY <1>1, <1>2, FS_Product DEF Cells

LEMMA WhereIs ==
  ASSUME NEW f, NEW s
  PROVE  /\ Where(f, s) \in SUBSET Cells /\ IsFiniteSet(Where(f, s))
         /\ Cardinality(Where(f, s)) \in Nat
<1>1. Where(f, s) \in SUBSET Cells
  BY DEF Where
<1> QED BY <1>1, FiniteCells, FS_Subset, FS_CardinalityType

Swap(i, j) == IF j = 1 THEN i ELSE IF j = i THEN 1 ELSE j

LEMMA SwapIs ==
  ASSUME NEW n \in Nat, NEW i \in 1..n
  PROVE  /\ \A j \in 1..n : Swap(i, j) \in 1..n /\ Swap(i, Swap(i, j)) = j
BY DEF Swap

\* What goes to the front changes places with what was there.
LEMMA FrontIs ==
  ASSUME NEW list \in Seq(Entry), NEW i \in 1..Len(list)
  PROVE  /\ ToFront(list, i) \in Seq(Entry) /\ Len(ToFront(list, i)) = Len(list)
         /\ \A j \in 1..Len(list) : ToFront(list, i)[j] = list[Swap(i, j)]
<1>1. list[1] \in Entry /\ list[i] \in Entry /\ 1 \in 1..Len(list) /\ DOMAIN list = 1..Len(list)
  OBVIOUS
<1>2. ToFront(list, i) \in [1..Len(list) -> Entry]
  BY <1>1 DEF ToFront
<1>3. ToFront(list, i) \in Seq(Entry) /\ Len(ToFront(list, i)) = Len(list)
  BY <1>2
<1>4. ASSUME NEW j \in 1..Len(list) PROVE ToFront(list, i)[j] = list[Swap(i, j)]
  BY <1>1 DEF ToFront, Swap
<1> QED BY <1>3, <1>4

\* To change places in one list does not change how many there are.
LEMMA SameNumber ==
  ASSUME NEW f \in Lists, NEW g \in Lists, NEW h \in Hosts, NEW s,
         \A k \in Hosts : k # h => g[k] = f[k],
         Len(f[h]) <= MaxEntries, Len(g[h]) = Len(f[h]),
         NEW i \in 1..Len(f[h]), \A j \in 1..Len(f[h]) : g[h][j] = f[h][Swap(i, j)]
  PROVE  Cardinality(Where(g, s)) = Cardinality(Where(f, s))
<1> DEFINE n == Len(f[h])
           to(x) == IF x[1] = h THEN <<h, Swap(i, x[2])>> ELSE x
           b == [x \in Where(f, s) |-> to(x)]
<1>1. /\ n \in Nat /\ MaxEntries \in Nat /\ n <= MaxEntries /\ i \in 1..n
      /\ DOMAIN f[h] = 1..n /\ DOMAIN g[h] = 1..n
  <2>1. f[h] \in Seq(Entry) /\ g[h] \in Seq(Entry)
    BY DEF Lists
  <2> QED BY <2>1, SchemataAssumption
<1>2. \A j \in 1..n : Swap(i, j) \in 1..n /\ Swap(i, Swap(i, j)) = j
  BY <1>1, SwapIs
<1>3. \A j \in 1..n : g[h][Swap(i, j)] = f[h][j]
  BY <1>2
<1>4. \A F \in Lists : \A x : x \in Where(F, s) <=> x \in Cells /\ x[2] \in DOMAIN F[x[1]] /\ F[x[1]][x[2]].schema = s
  BY DEF Where
<1>5. \A x \in Cells : x[1] \in Hosts /\ x = <<x[1], x[2]>>
  BY DEF Cells
<1>6. \A j \in 1..n : <<h, j>> \in Cells /\ <<h, j>>[1] = h /\ <<h, j>>[2] = j
  BY <1>1 DEF Cells
<1>7. ASSUME NEW x \in Where(f, s) PROVE to(x) \in Where(g, s) /\ to(to(x)) = x
  <2>1. x \in Cells /\ x[2] \in DOMAIN f[x[1]] /\ f[x[1]][x[2]].schema = s
    BY <1>4
  <2>2. CASE x[1] = h
    <3>1. x[2] \in 1..n /\ x = <<h, x[2]>>
      BY <1>1, <1>5, <2>1, <2>2
    <3> PICK j : j = x[2]
      OBVIOUS
    <3> PICK k : k = Swap(i, j)
      OBVIOUS
    <3>2. /\ j \in 1..n /\ k \in 1..n /\ Swap(i, k) = j /\ g[h][k] = f[h][j] /\ f[h][j].schema = s
          /\ x = <<h, j>>
      BY <1>2, <1>3, <2>1, <2>2, <3>1
    <3>3. to(x) = <<h, k>> /\ to(<<h, k>>) = <<h, j>>
      BY <1>6, <2>2, <3>2
    <3>4. <<h, k>> \in Where(g, s)
      BY <1>1, <1>4, <1>6, <3>2
    <3> QED BY <3>2, <3>3, <3>4
  <2>3. CASE x[1] # h
    BY <1>4, <1>5, <2>1, <2>3
  <2> QED BY <2>2, <2>3
<1>8. ASSUME NEW y \in Where(g, s) PROVE to(y) \in Where(f, s) /\ to(to(y)) = y
  <2>1. y \in Cells /\ y[2] \in DOMAIN g[y[1]] /\ g[y[1]][y[2]].schema = s
    BY <1>4
  <2>2. CASE y[1] = h
    <3>1. y[2] \in 1..n /\ y = <<h, y[2]>>
      BY <1>1, <1>5, <2>1, <2>2
    <3> PICK j : j = y[2]
      OBVIOUS
    <3> PICK k : k = Swap(i, j)
      OBVIOUS
    <3>2. /\ j \in 1..n /\ k \in 1..n /\ Swap(i, k) = j /\ f[h][k] = g[h][j] /\ g[h][j].schema = s
          /\ y = <<h, j>>
      BY <1>2, <2>1, <2>2, <3>1
    <3>3. to(y) = <<h, k>> /\ to(<<h, k>>) = <<h, j>>
      BY <1>6, <2>2, <3>2
    <3>4. <<h, k>> \in Where(f, s)
      BY <1>1, <1>4, <1>6, <3>2
    <3> QED BY <3>2, <3>3, <3>4
  <2>3. CASE y[1] # h
    BY <1>4, <1>5, <2>1, <2>3
  <2> QED BY <2>2, <2>3
<1> HIDE DEF to
<1>9. b \in Bijection(Where(f, s), Where(g, s))
  <2>1. b \in [Where(f, s) -> Where(g, s)] /\ \A x, y \in Where(f, s) : b[x] = b[y] => x = y
    BY <1>7
  <2>2. \A y \in Where(g, s) : to(y) \in Where(f, s) /\ b[to(y)] = y
    BY <1>8
  <2> QED BY <2>1, <2>2 DEF Bijection, Injection, Surjection, IsInjective
<1>10. ExistsBijection(Where(f, s), Where(g, s))
  BY <1>9 DEF ExistsBijection
<1> QED BY <1>10, WhereIs, FS_Bijection


\* A list that has one more entry.
LEMMA OneMoreEntry ==
  ASSUME NEW f \in Lists, NEW g \in Lists, NEW h \in Hosts, NEW s, NEW e \in Entry,
         \A k \in Hosts : k # h => g[k] = f[k],
         Len(f[h]) < MaxEntries, g[h] = Append(f[h], e)
  PROVE  Cardinality(Where(g, s)) = Cardinality(Where(f, s)) + (IF e.schema = s THEN 1 ELSE 0)
<1> DEFINE n == Len(f[h])
           x == <<h, n + 1>>
<1>1. /\ n \in Nat /\ DOMAIN f[h] = 1..n /\ DOMAIN g[h] = 1..(n + 1) /\ g[h][n + 1] = e
      /\ \A j \in 1..n : g[h][j] = f[h][j]
  <2>1. f[h] \in Seq(Entry)
    BY DEF Lists
  <2> QED BY <2>1
<1>2. x \in Cells /\ x[1] = h /\ x[2] = n + 1
  <2>1. n + 1 \in 1..MaxEntries
    BY <1>1, SchemataAssumption
  <2> QED BY <2>1 DEF Cells
<1>3. \A y \in Cells : y[1] \in Hosts /\ y = <<y[1], y[2]>>
  BY DEF Cells
<1>4. ASSUME NEW y \in Cells, y # x
      PROVE  y[2] \in DOMAIN g[y[1]] /\ g[y[1]][y[2]].schema = s
               <=> y[2] \in DOMAIN f[y[1]] /\ f[y[1]][y[2]].schema = s
  <2>1. CASE y[1] = h
    <3>1. y[2] # n + 1
      BY <1>3, <1>4, <2>1
    <3>2. y[2] \in 1..(n + 1) <=> y[2] \in 1..n
      BY <1>1, <3>1
    <3> QED BY <1>1, <2>1, <3>2
  <2>2. CASE y[1] # h
    BY <1>3, <2>2
  <2> QED BY <2>1, <2>2
<1>5. x \notin Where(f, s)
  BY <1>1, <1>2 DEF Where
<1>6. x \in Where(g, s) <=> e.schema = s
  BY <1>1, <1>2 DEF Where
<1> HIDE DEF x
<1>7. \A y : y # x => (y \in Where(g, s) <=> y \in Where(f, s))
  BY <1>4 DEF Where
<1>8. CASE e.schema = s
  <2>1. Where(g, s) = Where(f, s) \union {x}
    BY <1>6, <1>7, <1>8
  <2>2. Cardinality(Where(f, s) \union {x}) = Cardinality(Where(f, s)) + 1
    BY <1>5, WhereIs, FS_AddElement
  <2> QED BY <1>8, <2>1, <2>2
<1>9. CASE e.schema # s
  <2>1. Where(g, s) = Where(f, s)
    BY <1>5, <1>6, <1>7, <1>9
  <2>2. Cardinality(Where(f, s)) \in Nat
    BY WhereIs
  <2> QED BY <1>9, <2>1, <2>2
<1> QED BY <1>8, <1>9

LEMMA AskKeeps ==
  ASSUME SchemataInv, NEW h \in Hosts, NEW namespace \in Namespaces, GetAndOrUse(h, namespace)
  PROVE  SchemataInv'
<1>1. /\ schemata \in Lists /\ \A k \in Hosts : Len(schemata[k]) <= MaxEntries
      /\ asked \in Seq(Question) /\ Len(asked) <= MaxAsked
      /\ \A i \in DOMAIN asked : asked[i].at <= Len(schemata[asked[i].host]) + 1
      /\ users' = users /\ ended' = ended
      /\ \A s \in Countable : users[s] = Cardinality(Where(schemata, s))
  BY DEF SchemataInv, GetAndOrUse
<1>2. schemata[h] \in Seq(Entry) /\ Len(schemata[h]) \in Nat /\ DOMAIN schemata[h] = 1..Len(schemata[h])
  BY <1>1 DEF Lists
<1>3. ASSUME PlacesOf(h, namespace) # {},
             schemata' = [schemata EXCEPT ![h] =
               ToFront(@, CHOOSE i \in PlacesOf(h, namespace) : \A j \in PlacesOf(h, namespace) : i <= j)],
             asked' = asked
      PROVE  SchemataInv'
  <2> PICK i : i = CHOOSE k \in PlacesOf(h, namespace) : \A j \in PlacesOf(h, namespace) : k <= j
    OBVIOUS
  <2>1. i \in 1..Len(schemata[h])
    <3>1. PlacesOf(h, namespace) \subseteq 1..Len(schemata[h])
      BY <1>2 DEF PlacesOf
    <3> DEFINE S == PlacesOf(h, namespace)
    <3>2. S \in SUBSET Nat /\ S # {}
      BY <1>3, <3>1
    <3> HIDE DEF S
    <3>3. \E k \in S : \A j \in S : k <= j
      BY <3>2, SmallestOf
    <3> QED BY <3>1, <3>3 DEF S
  <2>2. schemata' = [schemata EXCEPT ![h] = ToFront(schemata[h], i)]
    BY <1>3
  <2>3. /\ ToFront(schemata[h], i) \in Seq(Entry)
        /\ Len(ToFront(schemata[h], i)) = Len(schemata[h])
        /\ \A j \in 1..Len(schemata[h]) : ToFront(schemata[h], i)[j] = schemata[h][Swap(i, j)]
    BY <1>2, <2>1, FrontIs
  <2>4. /\ schemata' \in Lists /\ schemata'[h] = ToFront(schemata[h], i)
        /\ \A k \in Hosts : k # h => schemata'[k] = schemata[k]
    BY <1>1, <2>2, <2>3 DEF Lists
  <2>5. \A k \in Hosts : Len(schemata'[k]) = Len(schemata[k])
    BY <2>3, <2>4
  <2>6. \A s : Cardinality(Where(schemata', s)) = Cardinality(Where(schemata, s))
    <3> TAKE s
    <3>1. /\ \A k \in Hosts : k # h => schemata'[k] = schemata[k]
          /\ Len(schemata[h]) <= MaxEntries /\ Len(schemata'[h]) = Len(schemata[h])
          /\ \A j \in 1..Len(schemata[h]) : schemata'[h][j] = schemata[h][Swap(i, j)]
      BY <1>1, <2>3, <2>4, <2>5
    <3> QED BY <1>1, <2>1, <2>4, <3>1, SameNumber
  <2>7. \A k \in DOMAIN asked : asked[k].host \in Hosts
    <3> TAKE k \in DOMAIN asked
    <3>1. asked[k] \in Question
      BY <1>1
    <3> QED BY <3>1 DEF Question
  <2> QED BY <1>1, <1>3, <2>4, <2>5, <2>6, <2>7 DEF SchemataInv
<1>4. ASSUME Len(asked) < MaxAsked, schemata' = schemata,
             asked' = Append(asked, [host |-> h, namespace |-> namespace, at |-> Len(schemata[h]) + 1])
      PROVE  SchemataInv'
  <2> PICK q : q = [host |-> h, namespace |-> namespace, at |-> Len(schemata[h]) + 1]
    OBVIOUS
  <2>1. q \in Question /\ q.host = h /\ q.at = Len(schemata[h]) + 1
    BY <1>2 DEF Question
  <2>2. asked' = Append(asked, q)
    BY <1>4
  <2>3. /\ asked' \in Seq(Question) /\ Len(asked') = Len(asked) + 1 /\ Len(asked) \in Nat
        /\ DOMAIN asked' = 1..(Len(asked) + 1) /\ DOMAIN asked = 1..Len(asked)
        /\ asked'[Len(asked) + 1] = q /\ \A i \in 1..Len(asked) : asked'[i] = asked[i]
    BY <1>1, <2>1, <2>2
  <2>4. \A i \in DOMAIN asked' : asked'[i].at <= Len(schemata[asked'[i].host]) + 1
    <3> TAKE i \in DOMAIN asked'
    <3>1. CASE i = Len(asked) + 1
      <4>1. asked'[i].at = Len(schemata[asked'[i].host]) + 1 /\ Len(schemata[asked'[i].host]) \in Nat
        BY <1>2, <2>1, <2>3, <3>1
      <4> QED BY <4>1
    <3>2. CASE i \in 1..Len(asked)
      BY <1>1, <2>3, <3>2
    <3> QED BY <2>3, <3>1, <3>2
  <2>5. Len(asked') <= MaxAsked
    BY <1>4, <2>3, SchemataAssumption
  <2> QED BY <1>1, <1>4, <2>3, <2>4, <2>5 DEF SchemataInv
<1> QED BY <1>3, <1>4 DEF GetAndOrUse

\* The answers to a question, in the order of the library's work: the entry, then its place.
LEMMA IntroduceKeeps ==
  ASSUME SchemataInv, NEW schema \in Countable \union {NoSchema}, Introduced(schema)
  PROVE  SchemataInv'
<1> PICK call : call = Last(asked)
  OBVIOUS
<1> PICK h : h = call.host
  OBVIOUS
<1> PICK e : e = [namespace |-> call.namespace, schema |-> schema]
  OBVIOUS
<1>1. /\ schemata \in Lists /\ \A k \in Hosts : Len(schemata[k]) <= MaxEntries
      /\ users \in [Countable -> Nat]
      /\ asked \in Seq(Question) /\ Len(asked) <= MaxAsked
      /\ \A i \in DOMAIN asked : asked[i].at <= Len(schemata[asked[i].host]) + 1
      /\ \A s \in Countable : users[s] = Cardinality(Where(schemata, s))
  BY DEF SchemataInv
<1>2. asked # <<>> /\ Len(schemata[h]) < MaxEntries
  BY DEF Introduced
<1>3. CASE ended' = TRUE /\ UNCHANGED <<schemata, users, asked>>
  BY <1>3 DEF SchemataInv
<1>4. CASE /\ asked' = Front(asked)
           /\ schemata' = [schemata EXCEPT ![h] = ToFront(Append(@, e), call.at)]
           /\ users' = IF Counts(schema) THEN [users EXCEPT ![schema] = @ + 1] ELSE users
           /\ ended' = ended
  <2>1. /\ call \in Question /\ h \in Hosts /\ call.at \in Nat \ {0} /\ e \in Entry /\ e.schema = schema
        /\ call.at <= Len(schemata[h]) + 1
    <3>1. Len(asked) \in DOMAIN asked /\ call = asked[Len(asked)]
      BY <1>1, <1>2 DEF Last
    <3>2. call \in Question
      BY <1>1, <3>1
    <3>3. call.at <= Len(schemata[h]) + 1
      BY <1>1, <3>1
    <3>4. h \in Hosts /\ call.at \in Nat \ {0} /\ call.namespace \in Namespaces
      BY <3>2 DEF Question
    <3>5. e \in Entry /\ e.schema = schema
      BY <3>4 DEF Entry
    <3> QED BY <3>2, <3>3, <3>4, <3>5
  <2> PICK n : n = Len(schemata[h])
    OBVIOUS
  <2> PICK list : list = Append(schemata[h], e)
    OBVIOUS
  <2> PICK f : f = [schemata EXCEPT ![h] = list]
    OBVIOUS
  <2>2. n \in Nat /\ n < MaxEntries /\ list \in Seq(Entry) /\ Len(list) = n + 1 /\ call.at \in 1..(n + 1)
    <3>1. schemata[h] \in Seq(Entry)
      BY <1>1, <2>1 DEF Lists
    <3> QED BY <1>2, <2>1, <3>1
  <2>3. /\ f \in Lists /\ f[h] = list /\ \A k \in Hosts : k # h => f[k] = schemata[k]
    BY <1>1, <2>1, <2>2 DEF Lists
  <2>4. /\ ToFront(list, call.at) \in Seq(Entry) /\ Len(ToFront(list, call.at)) = n + 1
        /\ \A j \in 1..(n + 1) : ToFront(list, call.at)[j] = list[Swap(call.at, j)]
    <3>1. call.at \in 1..Len(list)
      BY <2>2
    <3> PICK i, m : i = call.at /\ m = n + 1
      OBVIOUS
    <3>2. list \in Seq(Entry) /\ i \in 1..Len(list) /\ Len(list) = m
      BY <2>2, <3>1
    <3>3. /\ ToFront(list, i) \in Seq(Entry) /\ Len(ToFront(list, i)) = m
          /\ \A j \in 1..m : ToFront(list, i)[j] = list[Swap(i, j)]
      BY ONLY <3>2, FrontIs
    <3> QED BY <3>3
  <2>5. /\ schemata' \in Lists /\ schemata'[h] = ToFront(list, call.at)
        /\ \A k \in Hosts : k # h => schemata'[k] = schemata[k]
    BY <1>1, <1>4, <2>1, <2>4 DEF Lists
  <2>6. \A s : /\ Cardinality(Where(f, s))
                    = Cardinality(Where(schemata, s)) + (IF schema = s THEN 1 ELSE 0)
               /\ Cardinality(Where(schemata', s)) = Cardinality(Where(f, s))
    <3> TAKE s
    <3>1. Cardinality(Where(f, s)) = Cardinality(Where(schemata, s)) + (IF e.schema = s THEN 1 ELSE 0)
      <4>1. f[h] = Append(schemata[h], e) /\ Len(schemata[h]) < MaxEntries
        BY <1>2, <2>3
      <4> QED BY ONLY <1>1, <2>1, <2>3, <4>1, OneMoreEntry
    <3>2. Cardinality(Where(schemata', s)) = Cardinality(Where(f, s))
      <4>1. \A k \in Hosts : k # h => schemata'[k] = f[k]
        BY <2>3, <2>5
      <4>2. Len(f[h]) <= MaxEntries /\ Len(schemata'[h]) = Len(f[h]) /\ call.at \in 1..Len(f[h])
        BY <2>2, <2>3, <2>4, <2>5, SchemataAssumption
      <4>3. \A j \in 1..Len(f[h]) : schemata'[h][j] = f[h][Swap(call.at, j)]
        <5>1. f[h] = list /\ Len(list) = n + 1 /\ schemata'[h] = ToFront(list, call.at)
          BY <2>2, <2>3, <2>5
        <5> QED BY <2>4, <5>1
      <4> QED BY ONLY <2>1, <2>3, <2>5, <4>1, <4>2, <4>3, SameNumber
    <3> QED BY <2>1, <3>1, <3>2
  <2>7. /\ users' \in [Countable -> Nat]
        /\ \A s \in Countable : users'[s] = users[s] + (IF schema = s THEN 1 ELSE 0)
    <3>1. CASE schema = NoSchema
      <4>1. users' = users
        BY <1>4, <3>1 DEF Counts
      <4>2. \A s \in Countable : s # schema
        BY <3>1, SchemataAssumption DEF Countable
      <4> QED BY <1>1, <4>1, <4>2
    <3>2. CASE schema # NoSchema
      <4>1. users' = [users EXCEPT ![schema] = @ + 1] /\ schema \in Countable
        BY <1>4, <3>2 DEF Counts
      <4> QED BY <1>1, <4>1
    <3> QED BY <3>1, <3>2
  <2>8. \A k \in Hosts : Len(schemata[k]) <= Len(schemata'[k]) /\ Len(schemata'[k]) <= MaxEntries
                         /\ Len(schemata[k]) \in Nat /\ Len(schemata'[k]) \in Nat
    <3> TAKE k \in Hosts
    <3>1. schemata[k] \in Seq(Entry) /\ schemata'[k] \in Seq(Entry)
      BY <1>1, <2>5 DEF Lists
    <3>2. CASE k = h
      <4>1. Len(schemata[k]) = n /\ Len(schemata'[k]) = n + 1
        BY <2>4, <2>5, <3>2
      <4> QED BY <2>2, <4>1, SchemataAssumption
    <3>3. CASE k # h
      <4>1. schemata'[k] = schemata[k]
        BY <2>5, <3>3
      <4> QED BY <1>1, <3>1, <4>1
    <3> QED BY <3>2, <3>3
  <2>9. /\ asked' \in Seq(Question) /\ Len(asked') <= MaxAsked
        /\ \A i \in DOMAIN asked' : i \in DOMAIN asked /\ asked'[i] = asked[i]
    <3>1. /\ Len(asked) \in Nat \ {0} /\ asked' \in Seq(Question) /\ Len(asked') = Len(asked) - 1
          /\ \A i \in 1..(Len(asked) - 1) : asked'[i] = asked[i]
          /\ DOMAIN asked' = 1..(Len(asked) - 1) /\ DOMAIN asked = 1..Len(asked)
      BY <1>1, <1>2, <1>4, TopOf
    <3> QED BY <1>1, <3>1, SchemataAssumption
  <2>10. \A i \in DOMAIN asked' : asked'[i].at <= Len(schemata'[asked'[i].host]) + 1
    <3> TAKE i \in DOMAIN asked'
    <3>1. i \in DOMAIN asked /\ asked'[i] = asked[i] /\ asked[i] \in Question
      BY <1>1, <2>9
    <3> PICK k, m : k = asked[i].host /\ m = asked[i].at
      OBVIOUS
    <3>2. k \in Hosts /\ m \in Nat /\ m <= Len(schemata[k]) + 1
      BY <1>1, <3>1 DEF Question
    <3>3. m <= Len(schemata'[k]) + 1
      BY <2>8, <3>2
    <3> QED BY <3>1, <3>3
  <2>11. \A s \in Countable : users'[s] = Cardinality(Where(schemata', s))
    BY <1>1, <2>6, <2>7
  <2> QED BY <1>4, <2>5, <2>7, <2>8, <2>9, <2>10, <2>11 DEF SchemataInv
<1> QED BY <1>3, <1>4 DEF Introduced

\* The entries of one document.
LEMMA OfOne ==
  ASSUME NEW f \in Lists, NEW h \in Hosts, NEW s, Len(f[h]) <= MaxEntries
  PROVE  Cardinality({x \in Where(f, s) : x[1] = h})
           = Cardinality({i \in DOMAIN f[h] : f[h][i].schema = s})
<1> DEFINE I == {i \in DOMAIN f[h] : f[h][i].schema = s}
           X == {x \in Where(f, s) : x[1] = h}
           b == [x \in X |-> x[2]]
<1>1. /\ DOMAIN f[h] = 1..Len(f[h]) /\ Len(f[h]) \in Nat
  <2>1. f[h] \in Seq(Entry)
    BY DEF Lists
  <2> QED BY <2>1
<1>2. \A i \in I : <<h, i>> \in X /\ <<h, i>>[2] = i
  <2> TAKE i \in I
  <2>1. i \in 1..MaxEntries
    BY <1>1, SchemataAssumption
  <2>2. <<h, i>> \in Cells /\ <<h, i>>[1] = h /\ <<h, i>>[2] = i
    BY <2>1 DEF Cells
  <2> QED BY <2>2 DEF Where
<1>3. \A x \in X : x[2] \in I /\ x = <<h, x[2]>>
  BY DEF Where, Cells
<1>4. b \in Bijection(X, I)
  <2>1. b \in [X -> I] /\ \A x, y \in X : b[x] = b[y] => x = y
    BY <1>3
  <2>2. \A i \in I : <<h, i>> \in X /\ b[<<h, i>>] = i
    BY <1>2
  <2> QED BY <2>1, <2>2 DEF Bijection, Injection, Surjection, IsInjective
<1>5. IsFiniteSet(X)
  BY WhereIs, FS_Subset
<1>6. ExistsBijection(X, I)
  BY <1>4 DEF ExistsBijection
<1> QED BY <1>5, <1>6, FS_Bijection

LEMMA DestroyedKeeps ==
  ASSUME SchemataInv, NEW h \in Hosts, Destroyed(h)
  PROVE  SchemataInv'
<1>1. /\ schemata \in Lists /\ \A k \in Hosts : Len(schemata[k]) <= MaxEntries
      /\ users \in [Countable -> Nat]
      /\ asked \in Seq(Question) /\ Len(asked) <= MaxAsked
      /\ \A i \in DOMAIN asked : asked[i].at <= Len(schemata[asked[i].host]) + 1
      /\ \A s \in Countable : users[s] = Cardinality(Where(schemata, s))
  BY DEF SchemataInv
<1>2. asked' = asked /\ \A i \in DOMAIN asked : asked[i].host # h
  BY DEF Destroyed
<1>3. CASE ended' = TRUE /\ UNCHANGED <<schemata, users>>
  BY <1>2, <1>3 DEF SchemataInv
<1>4. CASE /\ users' = [s \in Countable |-> users[s] - Cardinality(Entries(h, s))]
           /\ schemata' = [schemata EXCEPT ![h] = <<>>]
           /\ ended' = ended
  <2>1. <<>> \in Seq(Entry) /\ Len(<<>>) = 0 /\ DOMAIN <<>> = {}
    OBVIOUS
  <2>2. /\ schemata' \in Lists /\ schemata'[h] = <<>>
        /\ \A k \in Hosts : k # h => schemata'[k] = schemata[k]
    BY <1>1, <1>4, <2>1 DEF Lists
  <2>3. ASSUME NEW s
        PROVE  /\ Cardinality(Where(schemata', s)) \in Nat
               /\ Cardinality(Where(schemata', s))
                    = Cardinality(Where(schemata, s)) - Cardinality(Entries(h, s))
    <3> DEFINE W == Where(schemata, s)
               X == {x \in W : x[1] = h}
    <3>1. \A x \in Cells : x[1] \in Hosts
      BY DEF Cells
    <3>2. DOMAIN schemata'[h] = {}
      BY <2>1, <2>2
    <3>3. Where(schemata', s) = W \ X
      BY <2>2, <3>1, <3>2 DEF Where
    <3>4. Cardinality(X) = Cardinality(Entries(h, s))
      BY <1>1, OfOne DEF Entries
    <3>5. IsFiniteSet(W) /\ W \intersect X = X
      BY WhereIs
    <3>6. Cardinality(W \ X) = Cardinality(W) - Cardinality(W \intersect X)
      BY <3>5, FS_Difference
    <3>7. Cardinality(Where(schemata', s)) \in Nat
      BY WhereIs
    <3> QED BY <3>3, <3>4, <3>5, <3>6, <3>7
  <2>4. /\ users' \in [Countable -> Nat]
        /\ \A s \in Countable : users'[s] = Cardinality(Where(schemata', s))
    <3>1. \A s \in Countable : users[s] - Cardinality(Entries(h, s)) = Cardinality(Where(schemata', s))
      BY <1>1, <2>3
    <3>2. \A s \in Countable : Cardinality(Where(schemata', s)) \in Nat
      BY <2>3
    <3> QED BY <1>4, <3>1, <3>2
  <2>5. \A k \in Hosts : Len(schemata'[k]) <= MaxEntries
    BY <1>1, <2>1, <2>2, SchemataAssumption
  <2>6. \A i \in DOMAIN asked : asked[i].at <= Len(schemata'[asked[i].host]) + 1
    <3> TAKE i \in DOMAIN asked
    <3>1. asked[i].host \in Hosts /\ asked[i].host # h
      <4>1. asked[i] \in Question
        BY <1>1
      <4> QED BY <1>2, <4>1 DEF Question
    <3>2. schemata'[asked[i].host] = schemata[asked[i].host]
      BY <2>2, <3>1
    <3>3. asked[i].at <= Len(schemata[asked[i].host]) + 1
      BY <1>1
    <3> QED BY <3>2, <3>3
  <2>7. ended' \in BOOLEAN
    BY <1>4 DEF SchemataInv
  <2> QED BY <1>1, <1>2, <2>2, <2>4, <2>5, <2>6, <2>7 DEF SchemataInv
<1> QED BY <1>3, <1>4 DEF Destroyed

LEMMA SchemataInitially == SchemataInit => SchemataInv
<1> SUFFICES ASSUME SchemataInit PROVE SchemataInv
  OBVIOUS
<1>1. /\ schemata = [h \in Hosts |-> <<>>] /\ users = [s \in Countable |-> 0]
      /\ asked = <<>> /\ ended = FALSE
  BY DEF SchemataInit
<1>2. <<>> \in Seq(Entry) /\ <<>> \in Seq(Question) /\ Len(<<>>) = 0 /\ DOMAIN <<>> = {}
  OBVIOUS
<1>3. /\ schemata \in Lists /\ \A h \in Hosts : schemata[h] = <<>>
  BY <1>1, <1>2 DEF Lists
<1>4. \A s \in Countable : users[s] = Cardinality(Where(schemata, s))
  <2> TAKE s \in Countable
  <2>1. Where(schemata, s) = {}
    BY <1>2, <1>3 DEF Where, Cells
  <2> QED BY <1>1, <2>1, FS_EmptySet
<1>5. \A h \in Hosts : Len(schemata[h]) <= MaxEntries
  BY <1>2, <1>3, SchemataAssumption
<1>6. users \in [Countable -> Nat]
  BY <1>1
<1>7. Len(asked) <= MaxAsked /\ \A i \in DOMAIN asked : asked[i].at <= Len(schemata[asked[i].host]) + 1
  BY <1>1, <1>2, SchemataAssumption
<1> QED BY <1>1, <1>2, <1>3, <1>4, <1>5, <1>6, <1>7 DEF SchemataInv

LEMMA SchemataKeep == SchemataInv /\ [SchemataNext]_schemataVars => SchemataInv'
<1> SUFFICES ASSUME SchemataInv, [SchemataNext]_schemataVars PROVE SchemataInv'
  OBVIOUS
<1>1. CASE UNCHANGED schemataVars
  BY <1>1 DEF schemataVars, SchemataInv
<1> QED BY <1>1, AskKeeps, IntroduceKeeps, DestroyedKeeps DEF SchemataNext

THEOREM SchemataInvariant == SchemataSpec => []SchemataInv
BY SchemataInitially, SchemataKeep, PTL DEF SchemataSpec

\* A schema's counter is the number of entries that the documents have of it, however the
\* client nests its answers: so a schema that is unloaded at zero is in no list.
THEOREM UsersAreBalanced == SchemataSpec => []UsersBalance
<1>1. SchemataInv => UsersBalance
  <2> SUFFICES ASSUME SchemataInv, NEW s \in Countable
               PROVE  users[s] = Cardinality({at \in Hosts \X (1..MaxEntries) : at[2] \in Entries(at[1], s)})
    BY DEF UsersBalance
  <2>1. Where(schemata, s) = {at \in Hosts \X (1..MaxEntries) : at[2] \in Entries(at[1], s)}
    BY DEF Where, Cells, Entries
  <2> QED BY <2>1 DEF SchemataInv
<1> QED BY <1>1, SchemataInvariant, PTL

-----------------------------------------------------------------------------
(* Requests *)

\* r is the last of the first k calls in w that p serves, or 0.
Serving(w, k, p, r) ==
  /\ r \in 0..k /\ (r = 0 \/ w[r].plugin = p)
  /\ \A i \in 1..k : w[i].plugin = p => i <= r

\* A plugin has the last request that it serves, and each call what its plugin had before.
Nested ==
  /\ \A p \in Plugins : Serving(calls, Len(calls), p, request[p])
  /\ \A i \in DOMAIN calls :
       calls[i].plugin \in Plugins => Serving(calls, i - 1, calls[i].plugin, calls[i].saved)

Reading(c) == c.op = "read" /\ c.at # "adding"

\* A document has no name until it is read, and its reading went well or it is closed.
ReadingOK(c) ==
  /\ c.at \in {"preparing", "reading", "naming", "closing"}
  /\ c.doc \in Docs /\ state[c.doc] # "none"
  /\ c.at # "closing" => named[c.doc] = NoURI
  /\ c.at = "preparing" => state[c.doc] = "blank"
  /\ c.at = "naming" /\ c.ok => state[c.doc] # "half"

\* A document is read by one call at most, and is half read only while that lasts.
Read ==
  /\ \A i \in DOMAIN calls : Reading(calls[i]) => ReadingOK(calls[i])
  /\ \A i, j \in DOMAIN calls :
       Reading(calls[i]) /\ Reading(calls[j]) /\ calls[i].doc = calls[j].doc => i = j
  /\ \A d \in Docs : state[d] = "none" => named[d] = NoURI
  /\ \A d \in Docs : state[d] = "half" =>
       d \in kept \/ \E i \in DOMAIN calls : Reading(calls[i]) /\ calls[i].doc = d

RequestsInv == RequestsTypeOK /\ Nested /\ Read

\* What a step may do to a call that is not the innermost.
Alike(c, e) ==
  /\ c.op = e.op /\ c.at = e.at /\ c.doc = e.doc /\ c.plugin = e.plugin /\ c.saved = e.saved
  /\ c.ok = e.ok \/ e.at = "looping"

\* The first k calls go on as they were.
Under(k) ==
  /\ k \in Nat /\ 1..k \subseteq DOMAIN calls /\ 1..k \subseteq DOMAIN calls'
  /\ \A i \in 1..k : Alike(calls'[i], calls[i])

LEMMA ServingOn ==
  ASSUME NEW v, NEW w, NEW k \in Nat, NEW p, NEW r, Serving(v, k, p, r),
         \A i \in 1..k : w[i].plugin = v[i].plugin
  PROVE  Serving(w, k, p, r)
<1>1. r \in 0..k /\ (r = 0 \/ v[r].plugin = p) /\ \A i \in 1..k : v[i].plugin = p => i <= r
  BY DEF Serving
<1>2. r = 0 \/ w[r].plugin = p
  BY <1>1
<1> QED BY <1>1, <1>2 DEF Serving

LEMMA SameNested ==
  ASSUME RequestsTypeOK, Nested, calls' \in Seq(Call), Len(calls') = Len(calls),
         \A i \in DOMAIN calls : calls'[i].plugin = calls[i].plugin /\ calls'[i].saved = calls[i].saved,
         request' = request
  PROVE  Nested'
<1> PICK n : n = Len(calls)
  OBVIOUS
<1>1. /\ n \in Nat /\ DOMAIN calls = 1..n /\ DOMAIN calls' = 1..n
      /\ \A i \in 1..n : calls'[i].plugin = calls[i].plugin /\ calls'[i].saved = calls[i].saved
  BY DEF RequestsTypeOK
<1>2. ASSUME NEW p \in Plugins PROVE Serving(calls', n, p, request'[p])
  BY <1>1, ServingOn DEF Nested
<1>3. ASSUME NEW i \in 1..n, calls'[i].plugin \in Plugins
      PROVE  Serving(calls', i - 1, calls'[i].plugin, calls'[i].saved)
  <2>1. Serving(calls, i - 1, calls[i].plugin, calls[i].saved)
    BY <1>1, <1>3 DEF Nested
  <2>2. i - 1 \in Nat /\ \A j \in 1..(i - 1) : calls'[j].plugin = calls[j].plugin
    BY <1>1
  <2>3. Serving(calls', i - 1, calls[i].plugin, calls[i].saved)
    BY <2>1, <2>2, ServingOn
  <2> QED BY <1>1, <2>3
<1> QED BY <1>1, <1>2, <1>3 DEF Nested

LEMMA PushNested ==
  ASSUME RequestsTypeOK, Nested, Under(Len(calls)), Len(calls') = Len(calls) + 1,
         calls' \in Seq(Call), NEW c \in Call, calls'[Len(calls) + 1] = c, c.saved = Saved(c.plugin),
         request' = [p \in Plugins |-> IF p = c.plugin THEN Len(calls) + 1 ELSE request[p]]
  PROVE  Nested'
<1> PICK n : n = Len(calls)
  OBVIOUS
<1>1. /\ n \in Nat /\ DOMAIN calls = 1..n /\ DOMAIN calls' = 1..(n + 1)
      /\ \A i \in 1..n : calls'[i].plugin = calls[i].plugin /\ calls'[i].saved = calls[i].saved
  BY DEF RequestsTypeOK, Under, Alike
<1>2. ASSUME NEW p \in Plugins PROVE Serving(calls', n, p, request[p])
  BY <1>1, ServingOn DEF Nested
<1>3. ASSUME NEW p \in Plugins PROVE Serving(calls', n + 1, p, request'[p])
  <2>1. CASE p = c.plugin
    <3>1. request'[p] = n + 1 /\ calls'[n + 1].plugin = p
      BY <2>1
    <3> QED BY <1>1, <3>1 DEF Serving
  <2>2. CASE p # c.plugin
    <3>1. request'[p] = request[p] /\ calls'[n + 1].plugin # p
      BY <2>2
    <3> QED BY <1>1, <1>2, <3>1 DEF Serving
  <2> QED BY <2>1, <2>2
<1>4. ASSUME NEW i \in 1..(n + 1), calls'[i].plugin \in Plugins
      PROVE  Serving(calls', i - 1, calls'[i].plugin, calls'[i].saved)
  <2>1. CASE i \in 1..n
    <3>1. Serving(calls, i - 1, calls[i].plugin, calls[i].saved)
      BY <1>1, <1>4, <2>1 DEF Nested
    <3>2. i - 1 \in Nat /\ \A j \in 1..(i - 1) : calls'[j].plugin = calls[j].plugin
      BY <1>1, <2>1
    <3>3. Serving(calls', i - 1, calls[i].plugin, calls[i].saved)
      BY <3>1, <3>2, ServingOn
    <3> QED BY <1>1, <2>1, <3>3
  <2>2. CASE i = n + 1
    <3>1. c.plugin \in Plugins /\ calls'[i].saved = request[c.plugin] /\ calls'[i].plugin = c.plugin
      BY <1>4, <2>2 DEF Saved
    <3>2. i - 1 = n
      BY <1>1, <2>2
    <3> QED BY <1>2, <3>1, <3>2
  <2> QED BY <1>1, <2>1, <2>2
<1> QED BY <1>1, <1>3, <1>4 DEF Nested

LEMMA PopNested ==
  ASSUME RequestsTypeOK, Nested, calls # <<>>, Under(Len(calls) - 1), Len(calls') = Len(calls) - 1,
         calls' \in Seq(Call), request' = PutBack(Innermost.plugin, Innermost.saved)
  PROVE  Nested'
<1> PICK n : n = Len(calls)
  OBVIOUS
<1> PICK c : c = Innermost
  OBVIOUS
<1>1. /\ n \in Nat \ {0} /\ DOMAIN calls = 1..n /\ DOMAIN calls' = 1..(n - 1) /\ c = calls[n]
      /\ \A i \in 1..(n - 1) : calls'[i].plugin = calls[i].plugin /\ calls'[i].saved = calls[i].saved
  BY DEF RequestsTypeOK, Under, Alike, Innermost, Last
<1>2. ASSUME NEW p \in Plugins PROVE Serving(calls, n - 1, p, request'[p])
  <2>1. CASE p = c.plugin
    <3>1. request'[p] = c.saved
      BY <2>1 DEF PutBack, RequestsTypeOK
    <3>2. n \in DOMAIN calls /\ calls[n].plugin = p /\ calls[n].saved = c.saved
      BY <1>1, <2>1
    <3>3. Serving(calls, n - 1, calls[n].plugin, calls[n].saved)
      BY <3>2 DEF Nested
    <3> QED BY <3>1, <3>2, <3>3
  <2>2. CASE p # c.plugin
    <3>1. request'[p] = request[p]
      BY <2>2 DEF PutBack, RequestsTypeOK
    <3>2. Serving(calls, n, p, request[p])
      BY DEF Nested
    <3> QED BY <1>1, <2>2, <3>1, <3>2 DEF Serving
  <2> QED BY <2>1, <2>2
<1>3. ASSUME NEW p \in Plugins PROVE Serving(calls', n - 1, p, request'[p])
  BY <1>1, <1>2, ServingOn
<1>4. ASSUME NEW i \in 1..(n - 1), calls'[i].plugin \in Plugins
      PROVE  Serving(calls', i - 1, calls'[i].plugin, calls'[i].saved)
  <2>1. Serving(calls, i - 1, calls[i].plugin, calls[i].saved)
    BY <1>1, <1>4 DEF Nested
  <2>2. i - 1 \in Nat /\ \A j \in 1..(i - 1) : calls'[j].plugin = calls[j].plugin
    BY <1>1
  <2>3. Serving(calls', i - 1, calls[i].plugin, calls[i].saved)
    BY <2>1, <2>2, ServingOn
  <2> QED BY <1>1, <2>3
<1> QED BY <1>1, <1>3, <1>4 DEF Nested

\* A step that leaves all calls but those that read document D, and all documents but D.
LEMMA ReadAgain ==
  ASSUME RequestsTypeOK, Read, NEW k \in Nat, Under(k), DOMAIN calls' \subseteq 1..(k + 1), NEW D,
         \A i \in DOMAIN calls : Reading(calls[i]) => (i \in 1..k <=> calls[i].doc # D),
         \A i \in DOMAIN calls' : i = k + 1 /\ Reading(calls[i])' => calls'[i].doc = D /\ ReadingOK(calls[i])',
         \A d \in Docs : d # D => /\ state'[d] = state[d] /\ named'[d] = named[d]
                                  /\ d \in kept => d \in kept',
         D \in Docs => /\ state'[D] = "none" => named'[D] = NoURI
                       /\ state'[D] = "half" => D \in kept' \/ \E i \in DOMAIN calls' : Reading(calls[i])' /\ calls'[i].doc = D
  PROVE  Read'
<1>1. /\ 1..k \subseteq DOMAIN calls /\ 1..k \subseteq DOMAIN calls'
      /\ \A i \in 1..k : /\ Reading(calls[i])' <=> Reading(calls[i])
                         /\ calls'[i].doc = calls[i].doc
  BY DEF Under, Alike, Reading
<1>2. ASSUME NEW i \in 1..k, Reading(calls[i])
      PROVE  ReadingOK(calls[i])' /\ calls'[i].doc # D
  <2>1. ReadingOK(calls[i]) /\ calls[i].doc # D
    BY <1>1, <1>2 DEF Read
  <2>2. calls'[i].at = calls[i].at /\ calls'[i].doc = calls[i].doc
    BY DEF Under, Alike
  <2>3. calls'[i].ok = calls[i].ok
    BY <2>1 DEF Under, Alike, ReadingOK
  <2>4. state'[calls[i].doc] = state[calls[i].doc] /\ named'[calls[i].doc] = named[calls[i].doc]
    BY <2>1 DEF ReadingOK
  <2> QED BY <2>1, <2>2, <2>3, <2>4 DEF ReadingOK
<1>3. \A i \in DOMAIN calls' : i \in 1..k \/ i = k + 1
  OBVIOUS
<1>4. \A i \in DOMAIN calls' : Reading(calls[i])' => ReadingOK(calls[i])' /\ (i \in 1..k <=> calls'[i].doc # D)
  BY <1>1, <1>2, <1>3
<1>5. ASSUME NEW i \in DOMAIN calls', NEW j \in DOMAIN calls',
             Reading(calls[i])', Reading(calls[j])', calls'[i].doc = calls'[j].doc
      PROVE  i = j
  <2>1. CASE calls'[i].doc = D
    BY <1>3, <1>4, <1>5, <2>1
  <2>2. CASE calls'[i].doc # D
    <3>1. i \in 1..k /\ j \in 1..k
      BY <1>4, <1>5, <2>2
    <3> QED BY <1>1, <1>5, <3>1 DEF Read
  <2> QED BY <2>1, <2>2
<1>6. ASSUME NEW d \in Docs, state'[d] = "none" PROVE named'[d] = NoURI
  BY <1>6 DEF Read
<1>7. ASSUME NEW d \in Docs, state'[d] = "half"
      PROVE  d \in kept' \/ \E i \in DOMAIN calls' : Reading(calls[i])' /\ calls'[i].doc = d
  <2>1. CASE d = D
    BY <1>7, <2>1
  <2>2. CASE d # D /\ d \in kept
    BY <2>2
  <2>3. CASE d # D /\ d \notin kept
    <3>1. PICK i \in DOMAIN calls : Reading(calls[i]) /\ calls[i].doc = d
      BY <1>7, <2>3 DEF Read
    <3> QED BY <1>1, <2>3, <3>1
  <2> QED BY <2>1, <2>2, <2>3
<1> QED BY <1>4, <1>5, <1>6, <1>7 DEF Read

\* The innermost call.
LEMMA InnermostIs ==
  ASSUME RequestsTypeOK, calls # <<>>
  PROVE  /\ Len(calls) \in Nat \ {0} /\ DOMAIN calls = 1..Len(calls) /\ Innermost = calls[Len(calls)]
         /\ Innermost \in Call /\ Front(calls) \in Seq(Call) /\ Len(Front(calls)) = Len(calls) - 1
         /\ \A i \in 1..(Len(calls) - 1) : Front(calls)[i] = calls[i] /\ calls[i] \in Call
<1>1. calls \in Seq(Call)
  BY DEF RequestsTypeOK
<1>2. \A i \in 1..Len(calls) : calls[i] \in Call
  BY <1>1
<1> QED BY <1>1, <1>2, TopOf DEF Innermost

LEMMA GoesIs ==
  ASSUME RequestsTypeOK, Nested, calls # <<>>, NEW c \in Call, Goes(c),
         c.plugin = Innermost.plugin, c.saved = Innermost.saved
  PROVE  /\ calls' \in Seq(Call) /\ Len(calls') = Len(calls) /\ calls'[Len(calls)] = c
         /\ Under(Len(calls) - 1) /\ request' = request /\ Nested'
<1> PICK n : n = Len(calls)
  OBVIOUS
<1> PICK f : f = Front(calls)
  OBVIOUS
<1>1. /\ n \in Nat \ {0} /\ DOMAIN calls = 1..n /\ Innermost = calls[n] /\ f \in Seq(Call)
      /\ Len(f) = n - 1 /\ \A i \in 1..(n - 1) : f[i] = calls[i]
  BY InnermostIs
<1>2. calls' = Append(f, c) /\ request' = request
  BY DEF Goes
<1>3. /\ calls' \in Seq(Call) /\ Len(calls') = n /\ DOMAIN calls' = 1..n /\ calls'[n] = c
      /\ \A i \in 1..(n - 1) : calls'[i] = calls[i]
  BY <1>1, <1>2
<1>4. Under(n - 1)
  <2>1. n - 1 \in Nat /\ 1..(n - 1) \subseteq DOMAIN calls /\ 1..(n - 1) \subseteq DOMAIN calls'
    BY <1>1, <1>3
  <2>2. \A i \in 1..(n - 1) : Alike(calls'[i], calls[i])
    BY <1>1, <1>3 DEF Alike
  <2> QED BY <2>1, <2>2 DEF Under
<1>5. \A i \in DOMAIN calls : calls'[i].plugin = calls[i].plugin /\ calls'[i].saved = calls[i].saved
  BY <1>1, <1>3
<1>6. Nested'
  BY <1>2, <1>3, <1>5, SameNested
<1> QED BY <1>2, <1>3, <1>4, <1>6

LEMMA BeginsIs ==
  ASSUME RequestsTypeOK, Nested, NEW c \in Call, Begins(c), c.saved = Saved(c.plugin)
  PROVE  /\ calls' \in Seq(Call) /\ Len(calls') = Len(calls) + 1 /\ Len(calls') <= MaxCalls
         /\ calls'[Len(calls) + 1] = c /\ Under(Len(calls)) /\ Nested'
         /\ request' \in [Plugins -> 0..MaxCalls]
<1> PICK n : n = Len(calls)
  OBVIOUS
<1>1. calls \in Seq(Call) /\ n \in Nat /\ DOMAIN calls = 1..n /\ n < MaxCalls /\ MaxCalls \in Nat
  BY RequestsAssumption DEF RequestsTypeOK, Begins
<1>2. /\ calls' \in Seq(Call) /\ Len(calls') = n + 1 /\ DOMAIN calls' = 1..(n + 1) /\ calls'[n + 1] = c
      /\ \A i \in 1..n : calls'[i] = calls[i]
  BY <1>1 DEF Begins
<1>3. Under(n)
  BY <1>1, <1>2 DEF Under, Alike
<1>4. request' = [p \in Plugins |-> IF p = c.plugin THEN n + 1 ELSE request[p]]
  BY DEF Begins
<1>5. n + 1 \in 0..MaxCalls /\ request \in [Plugins -> 0..MaxCalls]
  BY <1>1 DEF RequestsTypeOK
<1>6. request' \in [Plugins -> 0..MaxCalls]
  BY <1>4, <1>5
<1>7. Nested'
  BY <1>2, <1>3, <1>4, PushNested
<1> QED BY <1>1, <1>2, <1>3, <1>6, <1>7

LEMMA ReturnsIs ==
  ASSUME RequestsTypeOK, Nested, calls # <<>>, NEW ok \in BOOLEAN, Returns(ok)
  PROVE  /\ calls' \in Seq(Call) /\ Len(calls') = Len(calls) - 1
         /\ Under(Len(calls) - 1) /\ Nested' /\ request' \in [Plugins -> 0..MaxCalls]
<1> PICK n : n = Len(calls)
  OBVIOUS
<1> PICK f : f = Front(calls)
  OBVIOUS
<1>1. /\ n \in Nat \ {0} /\ DOMAIN calls = 1..n /\ Innermost = calls[n] /\ f \in Seq(Call)
      /\ Len(f) = n - 1 /\ \A i \in 1..(n - 1) : f[i] = calls[i] /\ calls[i] \in Call
  BY InnermostIs
<1>2. /\ calls' = IF f # <<>> /\ Last(f).at = "looping" THEN [f EXCEPT ![Len(f)].ok = ok] ELSE f
      /\ request' = PutBack(Innermost.plugin, Innermost.saved)
  BY DEF Returns
<1>3. calls' \in Seq(Call) /\ Len(calls') = n - 1 /\ \A i \in 1..(n - 1) : Alike(calls'[i], calls[i])
  <2>1. CASE calls' = f
    BY <1>1, <2>1 DEF Alike
  <2>2. CASE f # <<>> /\ Last(f).at = "looping" /\ calls' = [f EXCEPT ![Len(f)].ok = ok]
    <3> PICK m : m = n - 1
      OBVIOUS
    <3> PICK c : c = f[m]
      OBVIOUS
    <3>0. Len(f) \in Nat \ {0} /\ Last(f) = f[Len(f)] /\ Last(f) \in Call /\ DOMAIN f = 1..Len(f)
      BY <1>1, <2>2, TopOf
    <3>1. m \in Nat \ {0} /\ Len(f) = m /\ Last(f) = c /\ c \in Call /\ DOMAIN f = 1..m
      BY <1>1, <3>0
    <3> PICK e : e = [c EXCEPT !.ok = ok]
      OBVIOUS
    <3>2. e \in Call
      BY <3>1 DEF Call
    <3>3. calls' = [f EXCEPT ![m] = e]
      BY <2>2, <3>1
    <3>4. calls' \in Seq(Call) /\ Len(calls') = m /\ \A i \in 1..m : calls'[i] = IF i = m THEN e ELSE f[i]
      BY <1>1, <3>1, <3>2, <3>3
    <3>5. Alike(e, c)
      BY <2>2, <3>1 DEF Alike, Call
    <3>6. \A i \in 1..m : Alike(calls'[i], f[i])
      BY <3>4, <3>5 DEF Alike
    <3> QED BY <1>1, <3>1, <3>4, <3>6
  <2> QED BY <1>2, <2>1, <2>2
<1>4. Under(n - 1)
  BY <1>1, <1>3 DEF Under
<1>5. Nested'
  BY <1>2, <1>3, <1>4, PopNested
<1>6. request \in [Plugins -> 0..MaxCalls] /\ Innermost.saved \in 0..MaxCalls
  BY InnermostIs DEF RequestsTypeOK, Call
<1>7. request' \in [Plugins -> 0..MaxCalls]
  BY <1>2, <1>6 DEF PutBack
<1> QED BY <1>3, <1>4, <1>5, <1>7

\* A step of a call that reads nothing yet, and of no document.
LEMMA ReadAside ==
  ASSUME RequestsTypeOK, Read, NEW k \in Nat, Under(k), DOMAIN calls' \subseteq 1..(k + 1),
         \A i \in DOMAIN calls : Reading(calls[i]) => i \in 1..k,
         \A i \in DOMAIN calls' : i = k + 1 => ~Reading(calls[i])',
         UNCHANGED <<named, state, kept>>
  PROVE  Read'
<1>1. NoDoc \notin Docs
  BY RequestsAssumption
<1>2. \A i \in DOMAIN calls : Reading(calls[i]) => calls[i].doc # NoDoc
  BY <1>1 DEF Read, ReadingOK
<1>3. \A i \in DOMAIN calls : Reading(calls[i]) => (i \in 1..k <=> calls[i].doc # NoDoc)
  BY <1>2
<1>4. \A d \in Docs : d # NoDoc => /\ state'[d] = state[d] /\ named'[d] = named[d]
                                   /\ d \in kept => d \in kept'
  OBVIOUS
<1> QED BY <1>1, <1>3, <1>4, ReadAgain

\* The innermost call is the only one that reads its document.
LEMMA OnlyReader ==
  ASSUME RequestsTypeOK, Read, calls # <<>>, Reading(Innermost)
  PROVE  /\ ReadingOK(Innermost)
         /\ \A i \in DOMAIN calls : Reading(calls[i]) =>
              (i \in 1..(Len(calls) - 1) <=> calls[i].doc # Innermost.doc)
<1> PICK n : n = Len(calls)
  OBVIOUS
<1>1. n \in Nat \ {0} /\ DOMAIN calls = 1..n /\ Innermost = calls[n]
  BY InnermostIs
<1>2. ReadingOK(Innermost)
  BY <1>1 DEF Read
<1>3. ASSUME NEW i \in 1..n, Reading(calls[i]) PROVE i \in 1..(n - 1) <=> calls[i].doc # Innermost.doc
  <2>1. calls[i].doc = calls[n].doc => i = n
    BY <1>1, <1>3 DEF Read
  <2> QED BY <1>1, <2>1
<1> QED BY <1>1, <1>2, <1>3

\* A step of the innermost call, which reads a document, that leaves the others alone.
LEMMA ReadOn ==
  ASSUME RequestsTypeOK, Read, calls # <<>>, Reading(Innermost),
         Under(Len(calls) - 1), DOMAIN calls' \subseteq 1..Len(calls), NEW D, D = Innermost.doc,
         \A i \in DOMAIN calls' : i = Len(calls) /\ Reading(calls[i])' => calls'[i].doc = D /\ ReadingOK(calls[i])',
         \A d \in Docs : d # D => /\ state'[d] = state[d] /\ named'[d] = named[d]
                                  /\ d \in kept => d \in kept',
         state'[D] = "none" => named'[D] = NoURI,
         state'[D] = "half" => D \in kept' \/ \E i \in DOMAIN calls' : Reading(calls[i])' /\ calls'[i].doc = D
  PROVE  Read'
<1> PICK k : k = Len(calls) - 1
  OBVIOUS
<1>1. k \in Nat /\ Len(calls) = k + 1
  BY InnermostIs
<1>2. \A i \in DOMAIN calls : Reading(calls[i]) => (i \in 1..k <=> calls[i].doc # D)
  BY OnlyReader
<1> QED BY <1>1, <1>2, ReadAgain

LEMMA StopsKeeps == ASSUME RequestsInv, Stops PROVE RequestsInv'
<1>1. UNCHANGED <<calls, request, named, state, kept>> /\ stopped' \in BOOLEAN
  BY DEF Stops
<1>2. RequestsTypeOK' /\ Nested'
  BY <1>1 DEF RequestsInv, RequestsTypeOK, Nested
<1>3. Read'
  BY <1>1 DEF RequestsInv, Read, ReadingOK
<1> QED BY <1>2, <1>3 DEF RequestsInv

LEMMA SavedIs == ASSUME RequestsTypeOK, NEW p PROVE Saved(p) \in 0..MaxCalls
BY RequestsAssumption DEF RequestsTypeOK, Saved

\* A call that has just begun.
LEMMA BeginsKeeps ==
  ASSUME RequestsInv, NEW c \in Call, ~Reading(c), c.saved = Saved(c.plugin), Begins(c)
  PROVE  RequestsInv'
<1> PICK n : n = Len(calls)
  OBVIOUS
<1>1. RequestsTypeOK /\ Nested /\ Read
  BY DEF RequestsInv
<1>2. /\ calls' \in Seq(Call) /\ Len(calls') = n + 1 /\ Len(calls') <= MaxCalls
      /\ calls'[n + 1] = c /\ Under(n) /\ Nested' /\ request' \in [Plugins -> 0..MaxCalls]
  BY <1>1, BeginsIs
<1>3. UNCHANGED <<named, state, kept, stopped>>
  BY DEF Begins
<1>4. RequestsTypeOK'
  BY <1>1, <1>2, <1>3 DEF RequestsTypeOK
<1>5. n \in Nat /\ DOMAIN calls = 1..n /\ DOMAIN calls' = 1..(n + 1)
  BY <1>1, <1>2 DEF RequestsTypeOK
<1>6. \A i \in DOMAIN calls' : i = n + 1 => ~Reading(calls[i])'
  BY <1>2 DEF Reading
<1>7. Read'
  BY <1>1, <1>2, <1>3, <1>5, <1>6, ReadAside
<1> QED BY <1>2, <1>4, <1>7 DEF RequestsInv

LEMMA BeginReadKeeps ==
  ASSUME RequestsInv, NEW u \in URIs \union {NoURI}, NEW p \in Plugins \union {BuiltIn},
         NEW blank \in BOOLEAN, BeginRead(u, p, blank)
  PROVE  RequestsInv'
<1> DEFINE c == [op |-> "read", uri |-> u, plugin |-> p, doc |-> NoDoc, at |-> "adding",
                 blank |-> blank, ok |-> TRUE, saved |-> Saved(p), pending |-> {}]
<1>1. Stops \/ Begins(c)
  BY DEF BeginRead
<1>2. c \in Call
  BY SavedIs DEF RequestsInv, Call, Places
<1>3. ~Reading(c) /\ c.saved = Saved(c.plugin)
  BY DEF Reading
<1> HIDE DEF c
<1> QED BY <1>1, <1>2, <1>3, BeginsKeeps, StopsKeeps

LEMMA WritingIs ==
  ASSUME RequestsTypeOK, NEW d \in Docs \union {WholeDOM}, NEW p \in Plugins \union {BuiltIn}
  PROVE  /\ Writing(d, p) \in Call /\ ~Reading(Writing(d, p))
         /\ Writing(d, p).plugin = p /\ Writing(d, p).saved = Saved(p)
<1>1. Writing(d, p) \in Call
  BY SavedIs DEF Writing, Call, Places
<1>2. ~Reading(Writing(d, p)) /\ Writing(d, p).plugin = p /\ Writing(d, p).saved = Saved(p)
  BY DEF Writing, Reading
<1> QED BY <1>1, <1>2

LEMMA BeginWriteKeeps ==
  ASSUME RequestsInv, NEW d \in Docs \union {WholeDOM}, NEW p \in Plugins \union {BuiltIn}, BeginWrite(d, p)
  PROVE  RequestsInv'
<1>1. Begins(Writing(d, p))
  BY DEF BeginWrite
<1>2. /\ Writing(d, p) \in Call /\ ~Reading(Writing(d, p))
      /\ Writing(d, p).plugin = p /\ Writing(d, p).saved = Saved(p)
  BY WritingIs DEF RequestsInv
<1> QED BY <1>1, <1>2, BeginsKeeps

\* An innermost call that reads nothing goes on, and reads nothing yet.
LEMMA GoesAside ==
  ASSUME RequestsInv, calls # <<>>, ~Reading(Innermost), NEW c \in Call, ~Reading(c), Goes(c),
         c.plugin = Innermost.plugin, c.saved = Innermost.saved,
         UNCHANGED <<named, state, kept, stopped>>
  PROVE  RequestsInv'
<1> PICK n : n = Len(calls)
  OBVIOUS
<1>1. RequestsTypeOK /\ Nested /\ Read
  BY DEF RequestsInv
<1>2. /\ calls' \in Seq(Call) /\ Len(calls') = n /\ calls'[n] = c
      /\ Under(n - 1) /\ request' = request /\ Nested'
  BY <1>1, GoesIs
<1>3. RequestsTypeOK'
  BY <1>1, <1>2 DEF RequestsTypeOK
<1> PICK k : k = n - 1
  OBVIOUS
<1>4. k \in Nat /\ n = k + 1 /\ DOMAIN calls = 1..(k + 1) /\ DOMAIN calls' = 1..(k + 1) /\ Innermost = calls[n]
  BY <1>1, <1>2, InnermostIs
<1>5. \A i \in DOMAIN calls : Reading(calls[i]) => i \in 1..k
  BY <1>4
<1>6. \A i \in DOMAIN calls' : i = k + 1 => ~Reading(calls[i])'
  BY <1>2, <1>4 DEF Reading
<1>7. Read'
  BY <1>1, <1>2, <1>4, <1>5, <1>6, ReadAside
<1> QED BY <1>2, <1>3, <1>7 DEF RequestsInv

LEMMA ReturnsAside ==
  ASSUME RequestsInv, calls # <<>>, ~Reading(Innermost), NEW ok \in BOOLEAN, Returns(ok),
         UNCHANGED <<named, state, kept, stopped>>
  PROVE  RequestsInv'
<1> PICK n : n = Len(calls)
  OBVIOUS
<1>1. RequestsTypeOK /\ Nested /\ Read
  BY DEF RequestsInv
<1>2. /\ calls' \in Seq(Call) /\ Len(calls') = n - 1
      /\ Under(n - 1) /\ Nested' /\ request' \in [Plugins -> 0..MaxCalls]
  BY <1>1, ReturnsIs
<1> PICK k : k = n - 1
  OBVIOUS
<1>3. k \in Nat /\ n = k + 1 /\ DOMAIN calls = 1..(k + 1) /\ DOMAIN calls' = 1..k /\ Innermost = calls[n]
  BY <1>1, <1>2, InnermostIs
<1>4. RequestsTypeOK'
  <2>1. Len(calls') <= MaxCalls
    BY <1>1, <1>2, <1>3, RequestsAssumption DEF RequestsTypeOK
  <2> QED BY <1>1, <1>2, <2>1 DEF RequestsTypeOK
<1>5. \A i \in DOMAIN calls : Reading(calls[i]) => i \in 1..k
  BY <1>3
<1>6. Read'
  BY <1>1, <1>2, <1>3, <1>5, ReadAside
<1> QED BY <1>2, <1>4, <1>6 DEF RequestsInv

LEMMA IsAtIs ==
  ASSUME RequestsInv, NEW op, NEW place, IsAt(op, place)
  PROVE  /\ calls # <<>> /\ Innermost \in Call /\ Innermost.op = op /\ Innermost.at = place
         /\ RequestsTypeOK /\ Nested /\ Read
BY InnermostIs DEF IsAt, RequestsInv

LEMMA AddNothingKeeps ==
  ASSUME RequestsInv, NEW ok \in BOOLEAN, AddNothing(ok) PROVE RequestsInv'
<1>1. IsAt("read", "adding") /\ Returns(ok) /\ UNCHANGED <<named, state, kept, stopped>>
  BY DEF AddNothing
<1>2. calls # <<>> /\ ~Reading(Innermost)
  BY <1>1, IsAtIs DEF Reading
<1> QED BY <1>1, <1>2, ReturnsAside

LEMMA OpenIOKeeps ==
  ASSUME RequestsInv, NEW opened \in BOOLEAN, OpenIO(opened) PROVE RequestsInv'
<1> PICK c : c = [Innermost EXCEPT !.at = "writing"]
  OBVIOUS
<1>1. /\ IsAt("write", "opening") /\ UNCHANGED <<named, state, kept, stopped>>
      /\ Goes(c) \/ Returns(FALSE)
  BY DEF OpenIO
<1>2. calls # <<>> /\ ~Reading(Innermost) /\ Innermost \in Call /\ Innermost.op = "write"
  BY <1>1, IsAtIs DEF Reading
<1>3. c \in Call /\ ~Reading(c) /\ c.plugin = Innermost.plugin /\ c.saved = Innermost.saved
  BY <1>2 DEF Call, Places, Reading
<1> QED BY <1>1, <1>2, <1>3, GoesAside, ReturnsAside

LEMMA WriteContentKeeps ==
  ASSUME RequestsInv, NEW ok \in BOOLEAN, WriteContent(ok) PROVE RequestsInv'
<1> PICK c : c = [Innermost EXCEPT !.at = "looping", !.pending = {d \in Docs : named[d] # NoURI}]
  OBVIOUS
<1>1. /\ IsAt("write", "writing") /\ UNCHANGED <<named, state, kept, stopped>>
      /\ Goes(c) \/ Returns(ok)
  BY DEF WriteContent
<1>2. calls # <<>> /\ ~Reading(Innermost) /\ Innermost \in Call /\ Innermost.op = "write"
  BY <1>1, IsAtIs DEF Reading
<1>3. c \in Call /\ ~Reading(c) /\ c.plugin = Innermost.plugin /\ c.saved = Innermost.saved
  BY <1>2 DEF Call, Places, Reading
<1> QED BY <1>1, <1>2, <1>3, GoesAside, ReturnsAside

LEMMA EndLoopKeeps == ASSUME RequestsInv, EndLoop PROVE RequestsInv'
<1>1. /\ IsAt("write", "looping") /\ Returns(Innermost.ok) /\ UNCHANGED <<named, state, kept, stopped>>
  BY DEF EndLoop
<1>2. calls # <<>> /\ ~Reading(Innermost) /\ Innermost.ok \in BOOLEAN
  BY <1>1, IsAtIs DEF Reading, Call
<1> QED BY <1>1, <1>2, ReturnsAside

LEMMA WriteNextKeeps ==
  ASSUME RequestsInv, NEW d \in Docs, NEW p \in Plugins \union {BuiltIn}, WriteNext(d, p)
  PROVE  RequestsInv'
<1> PICK n : n = Len(calls)
  OBVIOUS
<1> PICK f : f = Front(calls)
  OBVIOUS
<1> PICK l : l = [Innermost EXCEPT !.pending = @ \ {d}]
  OBVIOUS
<1> PICK c : c = Writing(d, p)
  OBVIOUS
<1>1. /\ IsAt("write", "looping") /\ n < MaxCalls /\ calls' = Append(Append(f, l), c)
      /\ request' = [q \in Plugins |-> IF q = p THEN n + 1 ELSE request[q]]
      /\ UNCHANGED <<named, state, kept, stopped>>
  BY DEF WriteNext
<1>2. /\ calls # <<>> /\ Innermost \in Call /\ Innermost.op = "write"
      /\ RequestsTypeOK /\ Nested /\ Read
  BY <1>1, IsAtIs
<1>3. l \in Call /\ Alike(l, Innermost)
  BY <1>2 DEF Call, Alike
<1>4. c \in Call /\ ~Reading(c) /\ c.plugin = p /\ c.saved = Saved(p)
  BY <1>2, WritingIs
<1>5. /\ n \in Nat \ {0} /\ DOMAIN calls = 1..n /\ Innermost = calls[n] /\ f \in Seq(Call)
      /\ Len(f) = n - 1 /\ \A i \in 1..(n - 1) : f[i] = calls[i]
  BY <1>2, InnermostIs
<1> PICK m : m = Append(f, l)
  OBVIOUS
<1>6. /\ m \in Seq(Call) /\ Len(m) = n /\ DOMAIN m = 1..n /\ m[n] = l
      /\ \A i \in 1..(n - 1) : m[i] = calls[i]
  BY <1>3, <1>5
<1>7. /\ calls' \in Seq(Call) /\ Len(calls') = n + 1 /\ DOMAIN calls' = 1..(n + 1) /\ calls'[n + 1] = c
      /\ \A i \in 1..n : calls'[i] = m[i]
  BY <1>1, <1>4, <1>5, <1>6
<1>8. \A i \in 1..n : Alike(calls'[i], calls[i])
  <2> TAKE i \in 1..n
  <2>1. CASE i = n
    BY <1>3, <1>5, <1>6, <1>7, <2>1
  <2>2. CASE i \in 1..(n - 1)
    BY <1>6, <1>7, <2>2 DEF Alike
  <2> QED BY <1>5, <2>1, <2>2
<1>9. Under(n)
  BY <1>5, <1>7, <1>8 DEF Under
<1>10. Nested'
  BY <1>1, <1>2, <1>4, <1>7, <1>9, PushNested
<1>11. RequestsTypeOK'
  <2>1. n + 1 <= MaxCalls /\ n + 1 \in 0..MaxCalls /\ request \in [Plugins -> 0..MaxCalls]
    BY <1>1, <1>2, <1>5, RequestsAssumption DEF RequestsTypeOK
  <2>2. request' \in [Plugins -> 0..MaxCalls]
    BY <1>1, <2>1
  <2> QED BY <1>1, <1>2, <1>7, <2>1, <2>2 DEF RequestsTypeOK
<1>12. \A i \in DOMAIN calls' : i = n + 1 => ~Reading(calls[i])'
  BY <1>4, <1>7 DEF Reading
<1>13. Read'
  BY <1>1, <1>2, <1>5, <1>7, <1>9, <1>12, ReadAside
<1> QED BY <1>10, <1>11, <1>13 DEF RequestsInv

\* What a step leaves alone that is about document D.
Only(D) ==
  /\ named' \in [Docs -> URIs \union {NoURI}]
  /\ state' \in [Docs -> {"none", "bare", "blank", "half", "whole"}]
  /\ kept' \subseteq Docs /\ stopped' = stopped
  /\ \A d \in Docs : d # D => /\ state'[d] = state[d] /\ named'[d] = named[d]
                              /\ d \in kept => d \in kept'
  /\ state'[D] = "none" => named'[D] = NoURI

\* The innermost call goes on to read D, which no other call does.
LEMMA GoesReading ==
  ASSUME RequestsInv, calls # <<>>, NEW c \in Call, Goes(c), Reading(c), ReadingOK(c)',
         c.plugin = Innermost.plugin, c.saved = Innermost.saved, Only(c.doc),
         Reading(Innermost) => Innermost.doc = c.doc,
         Reading(Innermost) \/ \A i \in DOMAIN calls : Reading(calls[i]) => calls[i].doc # c.doc
  PROVE  RequestsInv'
<1> PICK n : n = Len(calls)
  OBVIOUS
<1> PICK D : D = c.doc
  OBVIOUS
<1>1. RequestsTypeOK /\ Nested /\ Read
  BY DEF RequestsInv
<1>2. /\ calls' \in Seq(Call) /\ Len(calls') = n /\ calls'[n] = c
      /\ Under(n - 1) /\ request' = request /\ Nested'
  BY <1>1, GoesIs
<1>3. RequestsTypeOK'
  BY <1>1, <1>2 DEF RequestsTypeOK, Only
<1> PICK k : k = n - 1
  OBVIOUS
<1>4. k \in Nat /\ n = k + 1 /\ DOMAIN calls = 1..(k + 1) /\ DOMAIN calls' = 1..(k + 1) /\ Innermost = calls[n]
  BY <1>1, <1>2, InnermostIs
<1>5. \A i \in DOMAIN calls : Reading(calls[i]) => (i \in 1..k <=> calls[i].doc # D)
  <2>1. CASE Reading(Innermost)
    BY <1>1, <2>1, OnlyReader
  <2>2. CASE ~Reading(Innermost)
    BY <1>4, <2>2
  <2> QED BY <2>1, <2>2
<1>6. Reading(calls[n])' /\ calls'[n].doc = D /\ ReadingOK(calls[n])'
  BY <1>2 DEF Reading, ReadingOK
<1>7. \A i \in DOMAIN calls' : i = k + 1 /\ Reading(calls[i])' => calls'[i].doc = D /\ ReadingOK(calls[i])'
  BY <1>4, <1>6
<1>8. \E i \in DOMAIN calls' : Reading(calls[i])' /\ calls'[i].doc = D
  BY <1>4, <1>6
<1>9. /\ \A d \in Docs : d # D => /\ state'[d] = state[d] /\ named'[d] = named[d]
                                  /\ d \in kept => d \in kept'
      /\ state'[D] = "none" => named'[D] = NoURI
  BY DEF Only
<1>10. Read'
  <2>1. DOMAIN calls' \subseteq 1..(k + 1) /\ Under(k)
    BY <1>2, <1>4
  <2> QED BY <1>1, <1>4, <1>5, <1>7, <1>8, <1>9, <2>1, ReadAgain
<1> QED BY <1>2, <1>3, <1>10 DEF RequestsInv

\* The innermost call ends, whether it read D or nothing: what it left of D is not half read,
\* or it is kept.
LEMMA ReturnsReading ==
  ASSUME RequestsInv, calls # <<>>, NEW ok \in BOOLEAN, Returns(ok), NEW D \in Docs, Only(D),
         Reading(Innermost) => Innermost.doc = D,
         Reading(Innermost) \/ \A i \in DOMAIN calls : Reading(calls[i]) => calls[i].doc # D,
         state'[D] = "half" => D \in kept'
  PROVE  RequestsInv'
<1> PICK n : n = Len(calls)
  OBVIOUS
<1>1. RequestsTypeOK /\ Nested /\ Read
  BY DEF RequestsInv
<1>2. /\ calls' \in Seq(Call) /\ Len(calls') = n - 1
      /\ Under(n - 1) /\ Nested' /\ request' \in [Plugins -> 0..MaxCalls]
  BY <1>1, ReturnsIs
<1> PICK k : k = n - 1
  OBVIOUS
<1>3. k \in Nat /\ n = k + 1 /\ DOMAIN calls = 1..(k + 1) /\ DOMAIN calls' = 1..k /\ Innermost = calls[n]
  BY <1>1, <1>2, InnermostIs
<1>4. RequestsTypeOK'
  <2>1. Len(calls') <= MaxCalls
    BY <1>1, <1>2, <1>3, RequestsAssumption DEF RequestsTypeOK
  <2> QED BY <1>1, <1>2, <2>1 DEF RequestsTypeOK, Only
<1>5. \A i \in DOMAIN calls : Reading(calls[i]) => (i \in 1..k <=> calls[i].doc # D)
  <2>1. CASE Reading(Innermost)
    BY <1>1, <2>1, OnlyReader
  <2>2. CASE ~Reading(Innermost)
    BY <1>3, <2>2
  <2> QED BY <2>1, <2>2
<1>6. \A i \in DOMAIN calls' : i # k + 1
  BY <1>3
<1>7. /\ \A d \in Docs : d # D => /\ state'[d] = state[d] /\ named'[d] = named[d]
                                  /\ d \in kept => d \in kept'
      /\ state'[D] = "none" => named'[D] = NoURI
  BY DEF Only
<1>8. Read'
  <2>1. DOMAIN calls' \subseteq 1..(k + 1) /\ Under(k)
    BY <1>2, <1>3
  <2> QED BY <1>1, <1>3, <1>5, <1>6, <1>7, <2>1, ReadAgain
<1> QED BY <1>2, <1>4, <1>8 DEF RequestsInv

LEMMA AddDocKeeps ==
  ASSUME RequestsInv, NEW d \in Docs, NEW given \in {"blank", "bare", "whole"}, AddDoc(d, given)
  PROVE  RequestsInv'
<1> PICK c : c = [Innermost EXCEPT !.doc = d, !.at = IF given = "blank" THEN "preparing" ELSE "naming"]
  OBVIOUS
<1>1. IsAt("read", "adding") /\ state[d] = "none"
  BY DEF AddDoc
<1>2. /\ calls # <<>> /\ Innermost \in Call /\ Innermost.op = "read" /\ Innermost.at = "adding"
      /\ RequestsTypeOK /\ Nested /\ Read /\ ~Reading(Innermost)
  BY <1>1, IsAtIs DEF Reading
<1>3. \A i \in DOMAIN calls : Reading(calls[i]) => calls[i].doc # d
  BY <1>1, <1>2 DEF Read, ReadingOK
<1>4. CASE Stops
  BY <1>4, StopsKeeps
<1>5. CASE ~Stops
  <2>1. /\ state' = [state EXCEPT ![d] = given] /\ UNCHANGED <<named, kept, stopped>>
        /\ Goes(c) \/ (Returns(FALSE) /\ given = "bare")
    BY <1>5 DEF AddDoc
  <2>2. named[d] = NoURI
    BY <1>1, <1>2 DEF Read
  <2>3. state'[d] = given
    BY <1>2, <2>1 DEF RequestsTypeOK
  <2>4. Only(d)
    BY <1>2, <2>1, <2>2 DEF Only, RequestsTypeOK
  <2>5. CASE Goes(c)
    <3>1. c \in Call /\ c.doc = d /\ c.plugin = Innermost.plugin /\ c.saved = Innermost.saved
          /\ c.op = "read" /\ c.at = (IF given = "blank" THEN "preparing" ELSE "naming")
      BY <1>2 DEF Call, Places
    <3>2. Reading(c)
      BY <3>1 DEF Reading
    <3>3. ReadingOK(c)'
      BY <2>1, <2>2, <2>3, <3>1 DEF ReadingOK
    <3> QED BY <1>2, <1>3, <2>4, <2>5, <3>1, <3>2, <3>3, GoesReading
  <2>6. CASE Returns(FALSE) /\ given = "bare"
    BY <1>2, <1>3, <2>3, <2>4, <2>6, ReturnsReading
  <2> QED BY <2>1, <2>5, <2>6
<1> QED BY <1>4, <1>5

\* A reading is at a place of its own.
LEMMA ReadingAt ==
  ASSUME RequestsInv, NEW place \in {"preparing", "reading", "naming", "closing"}, IsAt("read", place)
  PROVE  /\ calls # <<>> /\ Innermost \in Call /\ Reading(Innermost) /\ Innermost.at = place
         /\ Innermost.op = "read" /\ Innermost.doc \in Docs /\ ReadingOK(Innermost) /\ RequestsTypeOK
<1>1. /\ calls # <<>> /\ Innermost \in Call /\ Innermost.op = "read" /\ Innermost.at = place
      /\ RequestsTypeOK /\ Read
  BY IsAtIs
<1>2. Reading(Innermost)
  BY <1>1 DEF Reading
<1>3. ReadingOK(Innermost)
  BY <1>1, <1>2, OnlyReader
<1> QED BY <1>1, <1>2, <1>3 DEF ReadingOK

LEMMA PrepareKeeps ==
  ASSUME RequestsInv, NEW opened \in BOOLEAN, Prepare(opened) PROVE RequestsInv'
<1> PICK D : D = Innermost.doc
  OBVIOUS
<1>1. IsAt("read", "preparing") /\ UNCHANGED <<named, kept, stopped>>
  BY DEF Prepare
<1>2. /\ calls # <<>> /\ Innermost \in Call /\ Reading(Innermost) /\ Innermost.at = "preparing"
      /\ Innermost.op = "read" /\ D \in Docs /\ ReadingOK(Innermost) /\ RequestsTypeOK
  BY <1>1, ReadingAt
<1>3. state[D] = "blank" /\ named[D] = NoURI
  BY <1>2 DEF ReadingOK
<1>4. CASE Returns(FALSE) /\ UNCHANGED state
  <2>1. Only(D)
    BY <1>1, <1>2, <1>3, <1>4 DEF Only, RequestsTypeOK
  <2> QED BY <1>2, <1>3, <1>4, <2>1, ReturnsReading
<1>5. ASSUME NEW place \in {"naming", "reading"}, Goes([Innermost EXCEPT !.at = place]),
             NEW given \in {"whole", "half", "blank"}, state' = [state EXCEPT ![D] = given],
             given = "half" => place = "reading"
      PROVE  RequestsInv'
  <2> PICK c : c = [Innermost EXCEPT !.at = place]
    OBVIOUS
  <2>1. /\ c \in Call /\ c.doc = D /\ c.plugin = Innermost.plugin /\ c.saved = Innermost.saved
        /\ c.op = "read" /\ c.at = place
    BY <1>2 DEF Call, Places
  <2>2. state'[D] = given /\ named'[D] = NoURI
    BY <1>1, <1>2, <1>3, <1>5 DEF RequestsTypeOK
  <2>3. Only(D)
    BY <1>1, <1>2, <1>3, <1>5 DEF Only, RequestsTypeOK
  <2>4. Reading(c)
    BY <2>1 DEF Reading
  <2>5. ReadingOK(c)'
    BY <1>2, <1>5, <2>1, <2>2 DEF ReadingOK
  <2> QED BY <1>2, <1>5, <2>1, <2>3, <2>4, <2>5, GoesReading
<1>6. state = [state EXCEPT ![D] = "blank"]
  BY <1>2, <1>3 DEF RequestsTypeOK
<1> QED BY <1>4, <1>5, <1>6 DEF Prepare

LEMMA ReadContentKeeps ==
  ASSUME RequestsInv, NEW ok \in BOOLEAN, ReadContent(ok) PROVE RequestsInv'
<1> PICK D : D = Innermost.doc
  OBVIOUS
<1> PICK c : c = [Innermost EXCEPT !.at = "naming", !.ok = ok]
  OBVIOUS
<1>1. /\ IsAt("read", "reading") /\ UNCHANGED <<named, kept, stopped>> /\ Goes(c)
      /\ state' = IF ok THEN [state EXCEPT ![D] = "whole"] ELSE state
  BY DEF ReadContent
<1>2. /\ calls # <<>> /\ Innermost \in Call /\ Reading(Innermost) /\ Innermost.at = "reading"
      /\ Innermost.op = "read" /\ D \in Docs /\ ReadingOK(Innermost) /\ RequestsTypeOK
  BY <1>1, ReadingAt
<1>3. state[D] # "none" /\ named[D] = NoURI
  BY <1>2 DEF ReadingOK
<1>4. /\ c \in Call /\ c.doc = D /\ c.plugin = Innermost.plugin /\ c.saved = Innermost.saved
      /\ c.op = "read" /\ c.at = "naming" /\ c.ok = ok
  BY <1>2 DEF Call, Places
<1>5. Only(D)
  BY <1>1, <1>2, <1>3 DEF Only, RequestsTypeOK
<1>6. Reading(c)
  BY <1>4 DEF Reading
<1>7. state'[D] # "none" /\ (ok => state'[D] = "whole") /\ named'[D] = NoURI
  BY <1>1, <1>2, <1>3 DEF RequestsTypeOK
<1>8. ReadingOK(c)'
  BY <1>2, <1>4, <1>7 DEF ReadingOK
<1> QED BY <1>1, <1>2, <1>4, <1>5, <1>6, <1>8, GoesReading

LEMMA NameDocKeeps ==
  ASSUME RequestsInv, NEW hooked \in BOOLEAN, NameDoc(hooked) PROVE RequestsInv'
<1> PICK D, u : D = Innermost.doc /\ u = Innermost.uri
  OBVIOUS
<1> PICK c : c = [Innermost EXCEPT !.at = "closing"]
  OBVIOUS
<1>1. IsAt("read", "naming")
  BY DEF NameDoc
<1>2. /\ calls # <<>> /\ Innermost \in Call /\ Reading(Innermost) /\ Innermost.at = "naming"
      /\ Innermost.op = "read" /\ D \in Docs /\ ReadingOK(Innermost) /\ RequestsTypeOK
  BY <1>1, ReadingAt
<1>3. /\ state[D] # "none" /\ named[D] = NoURI /\ u \in URIs \union {NoURI}
      /\ Innermost.ok => state[D] # "half"
  BY <1>2 DEF ReadingOK, Call
<1>4. CASE Stops
  BY <1>4, StopsKeeps
<1>5. CASE ~Stops
  <2>1. /\ named' = (IF hooked THEN [named EXCEPT ![D] = u] ELSE named)
        /\ Finishes /\ UNCHANGED <<state, kept, stopped>>
    BY <1>5 DEF NameDoc
  <2>2. Only(D)
    BY <1>2, <1>3, <2>1 DEF Only, RequestsTypeOK
  <2>3. CASE Innermost.ok
    <3>1. Returns(TRUE) /\ state'[D] # "half"
      BY <1>3, <2>1, <2>3 DEF Finishes
    <3> QED BY <1>2, <2>2, <3>1, ReturnsReading
  <2>4. CASE ~Innermost.ok
    <3>1. Goes(c)
      BY <2>1, <2>4 DEF Finishes
    <3>2. /\ c \in Call /\ c.doc = D /\ c.plugin = Innermost.plugin /\ c.saved = Innermost.saved
          /\ c.op = "read" /\ c.at = "closing"
      BY <1>2 DEF Call, Places
    <3>3. Reading(c)
      BY <3>2 DEF Reading
    <3>4. ReadingOK(c)'
      BY <1>2, <1>3, <2>1, <3>2 DEF ReadingOK
    <3> QED BY <1>2, <2>2, <3>1, <3>2, <3>3, <3>4, GoesReading
  <2> QED BY <2>3, <2>4
<1> QED BY <1>4, <1>5

LEMMA CloseHalfReadKeeps ==
  ASSUME RequestsInv, NEW consent \in BOOLEAN, CloseHalfRead(consent) PROVE RequestsInv'
<1> PICK D : D = Innermost.doc
  OBVIOUS
<1>1. /\ IsAt("read", "closing") /\ Returns(FALSE) /\ stopped' = stopped
      /\ named' = IF consent THEN [named EXCEPT ![D] = NoURI] ELSE named
      /\ state' = IF consent THEN [state EXCEPT ![D] = "blank"] ELSE state
      /\ kept' = IF consent THEN kept ELSE kept \union {D}
  BY DEF CloseHalfRead
<1>2. /\ calls # <<>> /\ Reading(Innermost) /\ D \in Docs /\ ReadingOK(Innermost) /\ RequestsTypeOK
  BY <1>1, ReadingAt
<1>3. state[D] # "none"
  BY <1>2 DEF ReadingOK
<1>4. state'[D] # "none" /\ (state'[D] = "half" => D \in kept')
  BY <1>1, <1>2, <1>3 DEF RequestsTypeOK
<1>5. Only(D)
  BY <1>1, <1>2, <1>4 DEF Only, RequestsTypeOK
<1> QED BY <1>1, <1>2, <1>4, <1>5, ReturnsReading

LEMMA CloseIdleKeeps ==
  ASSUME RequestsInv, NEW d \in Docs, CloseIdle(d) PROVE RequestsInv'
<1>1. /\ ~InUse(d) /\ UNCHANGED <<calls, request, stopped>>
      /\ named' = [named EXCEPT ![d] = NoURI] /\ state' = [state EXCEPT ![d] = "blank"]
      /\ kept' = kept \ {d}
  BY DEF CloseIdle
<1>2. RequestsTypeOK /\ Nested /\ Read
  BY DEF RequestsInv
<1> PICK n : n = Len(calls)
  OBVIOUS
<1>3. n \in Nat /\ DOMAIN calls = 1..n /\ DOMAIN calls' = 1..n
  BY <1>1, <1>2 DEF RequestsTypeOK
<1>4. RequestsTypeOK'
  BY <1>1, <1>2 DEF RequestsTypeOK
<1>5. Nested'
  BY <1>1, <1>2 DEF Nested
<1>6. Under(n) /\ DOMAIN calls' \subseteq 1..(n + 1)
  BY <1>1, <1>3 DEF Under, Alike
<1>7. \A i \in DOMAIN calls : Reading(calls[i]) => (i \in 1..n <=> calls[i].doc # d)
  BY <1>1, <1>3 DEF InUse
<1>8. \A i \in DOMAIN calls' : i # n + 1
  BY <1>3
<1>9. /\ state'[d] = "blank"
      /\ \A e \in Docs : e # d => /\ state'[e] = state[e] /\ named'[e] = named[e]
                                  /\ e \in kept => e \in kept'
  BY <1>1, <1>2 DEF RequestsTypeOK
<1>10. Read'
  BY <1>2, <1>3, <1>6, <1>7, <1>8, <1>9, ReadAgain
<1> QED BY <1>4, <1>5, <1>10 DEF RequestsInv

LEMMA LetGoKeeps ==
  ASSUME RequestsInv, NEW d \in Docs, LetGo(d) PROVE RequestsInv'
<1>1. /\ ~InUse(d) /\ named[d] = NoURI /\ UNCHANGED <<calls, request, named, stopped>>
      /\ state' = [state EXCEPT ![d] = "none"] /\ kept' = kept \ {d}
  BY DEF LetGo
<1>2. RequestsTypeOK /\ Nested /\ Read
  BY DEF RequestsInv
<1> PICK n : n = Len(calls)
  OBVIOUS
<1>3. n \in Nat /\ DOMAIN calls = 1..n /\ DOMAIN calls' = 1..n
  BY <1>1, <1>2 DEF RequestsTypeOK
<1>4. RequestsTypeOK'
  BY <1>1, <1>2 DEF RequestsTypeOK
<1>5. Nested'
  BY <1>1, <1>2 DEF Nested
<1>6. Under(n) /\ DOMAIN calls' \subseteq 1..(n + 1)
  BY <1>1, <1>3 DEF Under, Alike
<1>7. \A i \in DOMAIN calls : Reading(calls[i]) => (i \in 1..n <=> calls[i].doc # d)
  BY <1>1, <1>3 DEF InUse
<1>8. \A i \in DOMAIN calls' : i # n + 1
  BY <1>3
<1>9. /\ state'[d] = "none" /\ named'[d] = NoURI
      /\ \A e \in Docs : e # d => /\ state'[e] = state[e] /\ named'[e] = named[e]
                                  /\ e \in kept => e \in kept'
  BY <1>1, <1>2 DEF RequestsTypeOK
<1>10. Read'
  BY <1>2, <1>3, <1>6, <1>7, <1>8, <1>9, ReadAgain
<1> QED BY <1>4, <1>5, <1>10 DEF RequestsInv

LEMMA RequestsInitially == RequestsInit => RequestsInv
<1> SUFFICES ASSUME RequestsInit PROVE RequestsInv
  OBVIOUS
<1>1. calls = <<>> /\ request = [p \in Plugins |-> 0] /\ state = [d \in Docs |-> "none"]
      /\ named = [d \in Docs |-> NoURI] /\ kept = {} /\ stopped = FALSE
  BY DEF RequestsInit
<1>2. calls \in Seq(Call) /\ Len(calls) = 0 /\ DOMAIN calls = {}
  BY <1>1
<1>3. RequestsTypeOK
  <2>1. MaxCalls \in Nat /\ 0 \in 0..MaxCalls
    BY RequestsAssumption
  <2>2. request \in [Plugins -> 0..MaxCalls] /\ Len(calls) <= MaxCalls
    BY <1>1, <1>2, <2>1
  <2>3. /\ named \in [Docs -> URIs \union {NoURI}]
        /\ state \in [Docs -> {"none", "bare", "blank", "half", "whole"}]
        /\ kept \subseteq Docs /\ stopped \in BOOLEAN
    BY <1>1
  <2> QED BY <1>2, <2>2, <2>3 DEF RequestsTypeOK
<1>4. Nested
  <2>1. \A p \in Plugins : request[p] = 0
    BY <1>1
  <2> QED BY <1>2, <2>1 DEF Nested, Serving
<1>5. Read
  BY <1>1, <1>2 DEF Read
<1> QED BY <1>3, <1>4, <1>5 DEF RequestsInv

LEMMA RequestsKeep == RequestsInv /\ [RequestsNext]_requestsVars => RequestsInv'
<1> SUFFICES ASSUME RequestsInv, [RequestsNext]_requestsVars PROVE RequestsInv'
  OBVIOUS
<1>1. CASE UNCHANGED requestsVars
  <2>1. RequestsTypeOK' /\ Nested'
    BY <1>1 DEF requestsVars, RequestsInv, RequestsTypeOK, Nested
  <2>2. Read'
    BY <1>1 DEF requestsVars, RequestsInv, Read, ReadingOK
  <2> QED BY <2>1, <2>2 DEF RequestsInv
<1>2. CASE \E p \in Plugins \union {BuiltIn} :
             \/ \E u \in URIs \union {NoURI}, blank \in BOOLEAN : BeginRead(u, p, blank)
             \/ \E d \in Docs \union {WholeDOM} : BeginWrite(d, p)
             \/ \E d \in Docs : WriteNext(d, p)
  BY <1>2, BeginReadKeeps, BeginWriteKeeps, WriteNextKeeps
<1>3. CASE \E ok \in BOOLEAN :
             \/ AddNothing(ok) \/ Prepare(ok) \/ ReadContent(ok) \/ NameDoc(ok)
             \/ CloseHalfRead(ok) \/ OpenIO(ok) \/ WriteContent(ok)
  BY <1>3, AddNothingKeeps, PrepareKeeps, ReadContentKeeps, NameDocKeeps, CloseHalfReadKeeps,
     OpenIOKeeps, WriteContentKeeps
<1>4. CASE \E d \in Docs :
             (\E given \in {"blank", "bare", "whole"} : AddDoc(d, given)) \/ CloseIdle(d) \/ LetGo(d)
  BY <1>4, AddDocKeeps, CloseIdleKeeps, LetGoKeeps
<1>5. CASE EndLoop
  BY <1>5, EndLoopKeeps
<1> QED BY <1>1, <1>2, <1>3, <1>4, <1>5 DEF RequestsNext

THEOREM RequestsInvariant == RequestsSpec => []RequestsInv
BY RequestsInitially, RequestsKeep, PTL DEF RequestsSpec

\* getRequest() gives a plugin the request of the innermost call that it serves, and nothing
\* once the outermost of them is over, however deep its requests are nested.
THEOREM InnermostInForce == RequestsSpec => []RequestInForce
<1>1. RequestsInv => RequestInForce
  <2> SUFFICES ASSUME RequestsInv, NEW p \in Plugins
               PROVE  LET serves == {i \in DOMAIN calls : calls[i].plugin = p}
                      IN  request[p] = (IF serves = {} THEN 0
                                        ELSE CHOOSE i \in serves : \A j \in serves : j <= i)
    BY DEF RequestInForce
  <2> DEFINE serves == {i \in DOMAIN calls : calls[i].plugin = p}
  <2> PICK r : r = request[p]
    OBVIOUS
  <2>1. DOMAIN calls = 1..Len(calls) /\ Len(calls) \in Nat
    BY DEF RequestsInv, RequestsTypeOK
  <2>2. /\ r \in 0..Len(calls) /\ (r = 0 \/ calls[r].plugin = p)
        /\ \A i \in 1..Len(calls) : calls[i].plugin = p => i <= r
    BY DEF RequestsInv, Nested, Serving
  <2>3. CASE r = 0
    BY <2>1, <2>2, <2>3
  <2>4. CASE r # 0
    <3>1. r \in serves /\ \A j \in serves : j <= r
      BY <2>1, <2>2, <2>4
    <3>2. \A i \in serves : (\A j \in serves : j <= i) => i = r
      BY <2>1, <3>1
    <3> HIDE DEF serves
    <3>3. (CHOOSE i \in serves : \A j \in serves : j <= i) = r
      BY <3>1, <3>2
    <3> QED BY <3>1, <3>3 DEF serves
  <2> QED BY <2>3, <2>4
<1> QED BY <1>1, RequestsInvariant, PTL

\* No lookup finds a document that is being read, or was read in vain: it has no name until its
\* reading went well, or else is about to be closed, or the platform would not have it closed.
THEOREM HalfReadIsUnseen == RequestsSpec => []HalfReadUnseen
<1>1. RequestsInv => HalfReadUnseen
  <2> SUFFICES ASSUME RequestsInv, NEW d \in Docs, named[d] # NoURI, state[d] = "half", d \notin kept
               PROVE  \E i \in DOMAIN calls : calls[i].doc = d /\ calls[i].at = "closing"
    BY DEF HalfReadUnseen
  <2>1. PICK i \in DOMAIN calls : Reading(calls[i]) /\ calls[i].doc = d
    BY DEF RequestsInv, Read
  <2>2. ReadingOK(calls[i])
    BY <2>1 DEF RequestsInv, Read
  <2>3. calls[i].at = "closing"
    BY <2>1, <2>2 DEF ReadingOK
  <2> QED BY <2>1, <2>3
<1> QED BY <1>1, RequestsInvariant, PTL
-----------------------------------------------------------------------------
(* Bases *)

Owners == [Members -> Members \union Files \union {Nowhere}]
Grounded == Ends(Members, owner)
Located == Seq(Texts \union Addresses)

\* DocOf, for any function that says what each element is in.
DocsBy(o) == CHOOSE f : f = [n \in Members |-> IF o[n] \in Members THEN f[o[n]] ELSE o[n]]

LEMMA DocOfIs == DocOf = DocsBy(owner)
BY DEF DocOf, DocsBy

LEMMA DocOfWillBe == DocOf' = DocsBy(owner')
BY DEF DocOf, DocsBy

\* d says for each element what it says for what that is in.
Agrees(o, d) == \A n \in Members : d[n] = IF o[n] \in Members THEN d[o[n]] ELSE o[n]

LEMMA DocsByIs ==
  ASSUME NEW o \in Owners, Ends(Members, o)
  PROVE  DocsBy(o) \in [Members -> Files \union {Nowhere}] /\ Agrees(o, DocsBy(o))
<1> DEFINE V == Files \union {Nowhere}
           B == [n \in Members |-> IF o[n] \in Members THEN Nowhere ELSE o[n]]
           G == [n \in Members |-> [v \in V |-> v]]
<1>1. \A n \in Members : o[n] \in Members \/ o[n] \in V
  BY DEF Owners
<1>2. G \in [Members -> [V -> V]] /\ B \in [Members -> V]
  BY <1>1
<1>3. PICK f \in [Members -> V] : Along(Members, o, G, B, f)
  <2> HIDE DEF V, B, G
  <2> QED BY <1>2, RecursionAlong
<1>4. ASSUME NEW n \in Members PROVE f[n] = IF o[n] \in Members THEN f[o[n]] ELSE o[n]
  <2>1. CASE o[n] \in Members
    <3>1. f[o[n]] \in V /\ f[n] = G[n][f[o[n]]]
      BY <1>3, <2>1 DEF Along
    <3> QED BY <2>1, <3>1
  <2>2. CASE o[n] \notin Members
    BY <1>3, <2>2 DEF Along
  <2> QED BY <2>1, <2>2
<1>5. f = [n \in Members |-> IF o[n] \in Members THEN f[o[n]] ELSE o[n]]
  BY <1>3, <1>4
<1> PICK h : h = DocsBy(o)
  OBVIOUS
<1>6. h = [n \in Members |-> IF o[n] \in Members THEN h[o[n]] ELSE o[n]]
  BY <1>5 DEF DocsBy
<1>7. \A n \in Members : h[n] = IF o[n] \in Members THEN h[o[n]] ELSE o[n]
  BY <1>6
<1>8. \A n \in Members : h[n] \in V
  <2> DEFINE D == {n \in Members : h[n] \notin V}
  <2> SUFFICES ASSUME D # {} PROVE FALSE
    OBVIOUS
  <2>1. D \in SUBSET Members
    OBVIOUS
  <2>2. PICK n \in D : o[n] \notin D
    BY <2>1 DEF Ends
  <2>3. n \in Members /\ h[n] \notin V /\ (o[n] \in Members => h[o[n]] \in V)
    BY <2>2
  <2> QED BY <1>1, <1>7, <2>3
<1>9. h \in [Members -> V]
  BY <1>6, <1>8
<1> QED BY <1>7, <1>9 DEF Agrees

\* There is but one.
LEMMA DocsByOnly ==
  ASSUME NEW o, Ends(Members, o), NEW d, Agrees(o, d), NEW e, Agrees(o, e)
  PROVE  \A n \in Members : d[n] = e[n]
<1> DEFINE D == {n \in Members : d[n] # e[n]}
<1> SUFFICES ASSUME D # {} PROVE FALSE
  OBVIOUS
<1>1. D \in SUBSET Members
  OBVIOUS
<1>2. PICK n \in D : o[n] \notin D
  BY <1>1 DEF Ends
<1> QED BY <1>2 DEF Agrees

\* What an element is looked up by, step by step.
LEMMA KeyIs ==
  ASSUME owner \in Owners, Grounded, base \in [Members -> Texts \union {NoBase}]
  PROVE  \A n \in Members :
           /\ Key[n] \in Seq(Texts)
           /\ LET up == IF owner[n] \in Members THEN Key[owner[n]] ELSE <<>>
              IN  Key[n] = IF n \notin flagged \/ base[n] = NoBase THEN up
                           ELSE <<base[n]>> \o (IF LooksRelative(base[n]) THEN up ELSE <<>>)
<1> DEFINE V == Seq(Texts)
           to(n, up) == IF n \notin flagged \/ base[n] = NoBase THEN up
                        ELSE <<base[n]>> \o (IF LooksRelative(base[n]) THEN up ELSE <<>>)
           B == [n \in Members |-> to(n, <<>>)]
           G == [n \in Members |-> [v \in V |-> to(n, v)]]
<1>1. \A n \in Members : \A v \in V : to(n, v) \in V
  <2> TAKE n \in Members
  <2> TAKE v \in V
  <2>1. base[n] # NoBase => <<base[n]>> \in V
    OBVIOUS
  <2>2. base[n] # NoBase => <<base[n]>> \o v \in V /\ <<base[n]>> \o <<>> \in V
    BY <2>1
  <2> QED BY <2>2
<1>2. <<>> \in V
  OBVIOUS
<1>3. G \in [Members -> [V -> V]] /\ B \in [Members -> V]
  <2> HIDE DEF to, V
  <2> QED BY <1>1, <1>2
<1>4. PICK f \in [Members -> V] : Along(Members, owner, G, B, f)
  <2> HIDE DEF V, B, G
  <2> QED BY <1>3, RecursionAlong DEF Grounded
<1>5. ASSUME NEW n \in Members
      PROVE  f[n] = to(n, IF owner[n] \in Members THEN f[owner[n]] ELSE <<>>)
  <2>1. CASE owner[n] \in Members
    <3>1. f[owner[n]] \in V /\ f[n] = G[n][f[owner[n]]]
      BY <1>4, <2>1 DEF Along
    <3> HIDE DEF to, V
    <3> QED BY <2>1, <3>1
  <2>2. CASE owner[n] \notin Members
    <3> HIDE DEF to, V
    <3> QED BY <1>4, <2>2 DEF Along
  <2> QED BY <2>1, <2>2
<1>6. f = [n \in Members |-> to(n, IF owner[n] \in Members THEN f[owner[n]] ELSE <<>>)]
  <2> HIDE DEF to, V
  <2> QED BY <1>4, <1>5
<1>7. Key = [n \in Members |-> to(n, IF owner[n] \in Members THEN Key[owner[n]] ELSE <<>>)]
  BY <1>6 DEF Key
<1>8. \A n \in Members : Key[n] = to(n, IF owner[n] \in Members THEN Key[owner[n]] ELSE <<>>)
  <2> HIDE DEF to
  <2> QED BY <1>7
<1>9. \A n \in Members : Key[n] \in V
  <2> DEFINE D == {n \in Members : Key[n] \notin V}
  <2> SUFFICES ASSUME D # {} PROVE FALSE
    OBVIOUS
  <2>1. D \in SUBSET Members
    OBVIOUS
  <2>2. PICK n \in D : owner[n] \notin D
    BY <2>1 DEF Ends, Grounded
  <2>3. n \in Members /\ Key[n] \notin V /\ (owner[n] \in Members => Key[owner[n]] \in V)
    BY <2>2
  <2> HIDE DEF to, V
  <2> QED BY <1>1, <1>2, <1>8, <2>3
<1> QED BY <1>8, <1>9

\* No text but the last is absolute.
Proper(s) == s \in Seq(Texts) /\ \A i \in 1..(Len(s) - 1) : s[i] \in Relatives

\* The texts of a key, back to front, after what the last one is relative to.
From(a, s) == IF s # <<>> /\ s[Len(s)] \in Absolutes THEN <<>> ELSE a
Joined(a, s) == From(a, s) \o [i \in 1..Len(s) |-> s[Len(s) + 1 - i]]

LEMMA JoinedIs ==
  ASSUME NEW a \in Located, NEW s \in Seq(Texts)
  PROVE  /\ From(a, s) \in Located /\ Joined(a, s) \in Located
         /\ Len(Joined(a, s)) = Len(From(a, s)) + Len(s)
         /\ \A i \in 1..(Len(From(a, s)) + Len(s)) :
              Joined(a, s)[i] = IF i <= Len(From(a, s)) THEN From(a, s)[i]
                                ELSE s[Len(s) + 1 - (i - Len(From(a, s)))]
<1> PICK b : b = From(a, s)
  OBVIOUS
<1> PICK l, m : l = Len(b) /\ m = Len(s)
  OBVIOUS
<1> DEFINE r == [i \in 1..m |-> s[m + 1 - i]]
<1>1. m \in Nat /\ \A i \in 1..m : s[i] \in Texts
  OBVIOUS
<1>2. \A i \in 1..m : m + 1 - i \in 1..m
  BY ONLY <1>1
<1>3. r \in [1..m -> Texts \union Addresses]
  BY <1>1, <1>2
<1>4. r \in Located /\ Len(r) = m
  BY <1>1, <1>3 DEF Located
<1>5. b \in Located
  BY DEF Located, From
<1>6. Joined(a, s) = b \o r /\ l \in Nat
  BY <1>5 DEF Joined, Located
<1>7. \A i \in 1..m : r[i] = s[m + 1 - i]
  OBVIOUS
<1> HIDE DEF r
<1> PICK j : j = b \o r
  OBVIOUS
<1>8. /\ j \in Located /\ Len(j) = l + m
      /\ \A i \in 1..(l + m) : j[i] = IF i <= l THEN b[i] ELSE r[i - l]
  <2>1. /\ b \o r \in Seq(Texts \union Addresses) /\ Len(b \o r) = Len(b) + Len(r)
        /\ \A i \in 1..(Len(b) + Len(r)) : (b \o r)[i] = IF i <= Len(b) THEN b[i] ELSE r[i - Len(b)]
    BY ONLY <1>4, <1>5, ConcatProperties DEF Located
  <2> QED BY <1>4, <2>1 DEF Located
<1>9. ASSUME NEW i \in 1..(l + m) PROVE j[i] = IF i <= l THEN b[i] ELSE s[m + 1 - (i - l)]
  <2>1. CASE i <= l
    BY ONLY <1>8, <2>1, i \in 1..(l + m)
  <2>2. CASE ~(i <= l)
    <3> PICK u : u = i - l
      OBVIOUS
    <3>1. u \in 1..m
      BY ONLY <1>1, <1>6, <2>2, i \in 1..(l + m), u = i - l
    <3>2. j[i] = r[u] /\ r[u] = s[m + 1 - u]
      BY ONLY <1>7, <1>8, <2>2, <3>1, i \in 1..(l + m), u = i - l
    <3> QED BY ONLY <2>2, <3>2, u = i - l
  <2> QED BY <2>1, <2>2
<1> QED BY <1>5, <1>6, <1>8, <1>9

LEMMA JoinedNone == ASSUME NEW a \in Located PROVE Joined(a, <<>>) = a
<1> PICK j, s : j = Joined(a, <<>>) /\ s = <<>>
  OBVIOUS
<1>1. s \in Seq(Texts) /\ Len(s) = 0 /\ From(a, s) = a
  BY DEF From
<1>2. /\ j \in Located /\ Len(j) = Len(a) + Len(s)
      /\ \A i \in 1..(Len(a) + Len(s)) : j[i] = IF i <= Len(a) THEN a[i] ELSE s[Len(s) + 1 - (i - Len(a))]
  <2>0. s \in Seq(Texts)
    BY <1>1
  <2>1. /\ Joined(a, s) \in Located
        /\ Len(Joined(a, s)) = Len(From(a, s)) + Len(s)
        /\ \A i \in 1..(Len(From(a, s)) + Len(s)) :
             Joined(a, s)[i] = IF i <= Len(From(a, s)) THEN From(a, s)[i]
                               ELSE s[Len(s) + 1 - (i - Len(From(a, s)))]
    BY ONLY a \in Located, <2>0, JoinedIs
  <2> QED BY ONLY <1>1, <2>1, j = Joined(a, <<>>), s = <<>>
<1>3. Len(a) \in Nat
  BY DEF Located
<1>4. Len(j) = Len(a) /\ \A i \in 1..Len(a) : j[i] = a[i]
  BY ONLY <1>1, <1>2, <1>3
<1>5. j = a
  BY <1>2, <1>4, SeqEqual DEF Located
<1> QED BY <1>5

\* One more text in front is resolved last.
LEMMA JoinedOnto ==
  ASSUME NEW a \in Located, NEW t \in Seq(Texts), NEW x \in Texts,
         x \in Relatives \/ t = <<>>
  PROVE  Joined(a, <<x>> \o t) = Resolve(Joined(a, t), x)
<1> PICK s : s = <<x>> \o t
  OBVIOUS
<1> PICK m : m = Len(t)
  OBVIOUS
<1>1. <<x>> \in Seq(Texts) /\ Len(<<x>>) = 1 /\ <<x>>[1] = x /\ m \in Nat
  OBVIOUS
<1>2. s \in Seq(Texts) /\ Len(s) = m + 1 /\ s # <<>> /\ s[1] = x /\ \A i \in 1..m : s[i + 1] = t[i]
  <2>1. /\ s \in Seq(Texts) /\ Len(s) = m + 1
        /\ \A i \in 1..(m + 1) : s[i] = IF i <= 1 THEN <<x>>[i] ELSE t[i - 1]
    BY <1>1, ConcatProperties
  <2>2. \A i \in 1..m : s[i + 1] = t[i]
    BY <1>1, <2>1
  <2> QED BY <1>1, <2>1, <2>2
<1> PICK j : j = Joined(a, s)
  OBVIOUS
<1> PICK k : k = Joined(a, t)
  OBVIOUS
<1>3. CASE x \in Relatives
  <2> PICK b : b = From(a, t)
    OBVIOUS
  <2>1. b = From(a, s)
    <3>1. CASE t = <<>>
      <4>1. m = 0 /\ s[Len(s)] = x /\ x \notin Absolutes
        BY <1>1, <1>2, <1>3, <3>1, BasesAssumption
      <4> QED BY <3>1, <4>1 DEF From
    <3>2. CASE t # <<>>
      <4>1. m \in 1..m
        BY <1>1, <3>2
      <4>2. s[Len(s)] = t[Len(t)]
        BY <1>2, <4>1
      <4> QED BY <1>2, <3>2, <4>2 DEF From
    <3> QED BY <3>1, <3>2
  <2> PICK l : l = Len(b)
    OBVIOUS
  <2>2. /\ l \in Nat /\ k \in Located /\ Len(k) = l + m
        /\ \A i \in 1..(l + m) : k[i] = IF i <= l THEN b[i] ELSE t[m + 1 - (i - l)]
    <3>1. b \in Located /\ k \in Located
      BY JoinedIs
    <3>2. l \in Nat
      BY <3>1 DEF Located
    <3>3. Len(k) = l + m /\ \A i \in 1..(l + m) : k[i] = IF i <= l THEN b[i] ELSE t[m + 1 - (i - l)]
      BY JoinedIs
    <3> QED BY <3>1, <3>2, <3>3
  <2>3. /\ j \in Located /\ Len(j) = l + (m + 1)
        /\ \A i \in 1..(l + (m + 1)) : j[i] = IF i <= l THEN b[i] ELSE s[(m + 1) + 1 - (i - l)]
    <3>0. s \in Seq(Texts) /\ Len(s) = m + 1
      BY <1>2
    <3>1. /\ Joined(a, s) \in Located
          /\ Len(Joined(a, s)) = Len(From(a, s)) + Len(s)
          /\ \A i \in 1..(Len(From(a, s)) + Len(s)) :
               Joined(a, s)[i] = IF i <= Len(From(a, s)) THEN From(a, s)[i]
                                 ELSE s[Len(s) + 1 - (i - Len(From(a, s)))]
      BY ONLY a \in Located, <3>0, JoinedIs
    <3> QED BY ONLY <2>1, <3>0, <3>1, j = Joined(a, s), l = Len(b)
  <2> PICK e : e = Append(k, x)
    OBVIOUS
  <2>4. e \in Located /\ Len(e) = l + m + 1 /\ e[l + m + 1] = x /\ \A i \in 1..(l + m) : e[i] = k[i]
    <3>1. x \in Texts \union Addresses /\ k \in Seq(Texts \union Addresses)
      BY <2>2 DEF Located
    <3>2. /\ e \in Seq(Texts \union Addresses) /\ Len(e) = Len(k) + 1 /\ e[Len(k) + 1] = x
          /\ \A i \in 1..Len(k) : e[i] = k[i]
      BY ONLY <3>1, e = Append(k, x)
    <3> QED BY <2>2, <3>2 DEF Located
  <2>5. ASSUME NEW i \in 1..(l + m + 1) PROVE j[i] = e[i]
    <3>1. CASE i = l + m + 1
      <4>1. ~(i <= l) /\ (m + 1) + 1 - (i - l) = 1 /\ i \in 1..(l + (m + 1))
        BY ONLY <1>1, <2>2, <3>1
      <4>2. j[i] = s[1]
        BY ONLY <2>3, <4>1
      <4> QED BY ONLY <1>2, <2>4, <3>1, <4>2
    <3>2. CASE i \in 1..(l + m) /\ i <= l
      <4>1. i \in 1..(l + (m + 1))
        BY ONLY <1>1, <2>2, <3>2
      <4> QED BY ONLY <2>2, <2>3, <2>4, <3>2, <4>1
    <3>3. CASE i \in 1..(l + m) /\ ~(i <= l)
      <4> PICK u : u = m + 1 - (i - l)
        OBVIOUS
      <4>1. u \in 1..m /\ (m + 1) + 1 - (i - l) = u + 1 /\ i \in 1..(l + (m + 1))
        BY ONLY <1>1, <2>2, <3>3, u = m + 1 - (i - l)
      <4>2. j[i] = s[u + 1]
        BY ONLY <2>3, <3>3, <4>1
      <4>3. k[i] = t[u] /\ e[i] = k[i]
        BY ONLY <2>2, <2>4, <3>3, u = m + 1 - (i - l)
      <4> QED BY ONLY <1>2, <4>1, <4>2, <4>3
    <3>4. i = l + m + 1 \/ i \in 1..(l + m)
      BY ONLY <1>1, <2>2, i \in 1..(l + m + 1)
    <3>5. ~(i <= l) \/ i <= l
      OBVIOUS
    <3> QED BY <3>1, <3>2, <3>3, <3>4, <3>5
  <2>6. Len(j) = l + m + 1 /\ Len(e) = l + m + 1
    BY ONLY <1>1, <2>2, <2>3, <2>4
  <2>7. j = e
    BY ONLY <2>3, <2>4, <2>5, <2>6, SeqEqual DEF Located
  <2> QED BY <1>3, <2>7 DEF Resolve
<1>4. CASE x \notin Relatives
  <2>1. t = <<>> /\ m = 0 /\ x \in Absolutes /\ s[1] = x /\ Len(s) = 1
    BY <1>1, <1>2, <1>4 DEF Texts
  <2>2. Len(<<>>) = 0
    OBVIOUS
  <2>3. j \in Located /\ Len(j) = 1 /\ j[1] = x
    <3> PICK b : b = <<>>
      OBVIOUS
    <3> PICK l, n : l = 0 /\ n = 1
      OBVIOUS
    <3>0. l = Len(b) /\ n = Len(s) /\ b = From(a, s)
      BY <1>2, <2>1, <2>2 DEF From
    <3>1. /\ j \in Located /\ Len(j) = l + n
          /\ \A i \in 1..(l + n) : j[i] = IF i <= l THEN b[i] ELSE s[n + 1 - (i - l)]
      <4>0. s \in Seq(Texts)
        BY <1>2
      <4>1. /\ Joined(a, s) \in Located
            /\ Len(Joined(a, s)) = Len(From(a, s)) + Len(s)
            /\ \A i \in 1..(Len(From(a, s)) + Len(s)) :
                 Joined(a, s)[i] = IF i <= Len(From(a, s)) THEN From(a, s)[i]
                                   ELSE s[Len(s) + 1 - (i - Len(From(a, s)))]
        BY ONLY a \in Located, <4>0, JoinedIs
      <4> QED BY ONLY <3>0, <4>1, j = Joined(a, s)
    <3>2. Len(j) = 1 /\ j[1] = s[1]
      BY ONLY <3>1, l = 0, n = 1
    <3> QED BY <2>1, <3>1, <3>2
  <2>4. j = <<x>>
    <3>1. <<x>> \in Located /\ Len(<<x>>) = 1 /\ <<x>>[1] = x
      BY DEF Located
    <3>2. \A i \in 1..1 : j[i] = <<x>>[i]
      BY <2>3, <3>1
    <3> QED BY <2>3, <3>1, <3>2, SeqEqual DEF Located
  <2> QED BY <1>4, <2>4 DEF Resolve
<1> QED BY <1>3, <1>4

Rest(key, i) == SubSeq(key, i, Len(key))

LEMMA RestIs ==
  ASSUME NEW key \in Seq(Texts), NEW i \in 1..Len(key)
  PROVE  /\ Rest(key, i) \in Seq(Texts) /\ Rest(key, i + 1) \in Seq(Texts) /\ key[i] \in Texts
         /\ Rest(key, i) = <<key[i]>> \o Rest(key, i + 1)
         /\ i = Len(key) => Rest(key, i + 1) = <<>>
         /\ Len(Rest(key, i)) = Len(key) + 1 - i
         /\ \A j \in 1..(Len(key) + 1 - i) : Rest(key, i)[j] = key[i + j - 1]
<1> PICK m : m = Len(key)
  OBVIOUS
<1>1. m \in Nat /\ i \in 1..m /\ m \in 1..m /\ m \in i..m /\ \A j \in 1..m : key[j] \in Texts
  OBVIOUS
<1>2. i \in Int /\ i + 1 \in Int /\ m \in Int
  BY <1>1
<1>3. (\A j \in i..m : key[j] \in Texts) /\ (\A j \in (i + 1)..m : key[j] \in Texts)
  BY ONLY <1>1
<1>4. /\ SubSeq(key, i, m) \in Seq(Texts) /\ Len(SubSeq(key, i, m)) = IF i <= m THEN m - i + 1 ELSE 0
      /\ \A j \in 1..(m - i + 1) : SubSeq(key, i, m)[j] = key[i + j - 1]
  BY ONLY <1>2, <1>3, SubSeqProperties
<1>5. SubSeq(key, i + 1, m) \in Seq(Texts)
  BY ONLY <1>2, <1>3, SubSeqProperties
<1>6. SubSeq(key, i, m) = <<key[i]>> \o SubSeq(key, i + 1, m)
  BY <1>1, SubSeqRecursiveFirst
<1>7. i = m => SubSeq(key, i + 1, m) = <<>>
  BY <1>1, <1>2, SubSeqEmpty
<1>8. i <= m /\ m - i + 1 = m + 1 - i
  BY ONLY <1>1
<1> QED BY <1>1, <1>4, <1>5, <1>6, <1>7, <1>8 DEF Rest

\* What the documents's cache is looked up for, from the end of a key to its front.
LEMMA FromBaseIs ==
  ASSUME NEW d, address[d] \in Located, NEW key \in Seq(Texts),
         \A k \in DOMAIN cached[d] : cached[d][k] \in Located
  PROVE  \E h \in [1..(Len(key) + 1) -> Located] :
           /\ FromBase(d, key) = h[1] /\ h[Len(key) + 1] = address[d]
           /\ \A i \in 1..Len(key) :
                h[i] = IF Rest(key, i) \in DOMAIN cached[d] THEN cached[d][Rest(key, i)]
                       ELSE Resolve(h[i + 1], key[i])
<1> PICK m : m = Len(key)
  OBVIOUS
<1> DEFINE S == 1..(m + 1)
           next == [i \in S |-> i + 1]
           to(i, v) == IF Rest(key, i) \in DOMAIN cached[d] THEN cached[d][Rest(key, i)]
                       ELSE Resolve(v, key[i])
           B == [i \in S |-> address[d]]
           G == [i \in S |-> [v \in Located |-> IF i > m THEN v ELSE to(i, v)]]
<1>1. m \in Nat /\ \A i \in 1..m : key[i] \in Texts
  OBVIOUS
<1>2. \A i \in 1..m : \A v \in Located : to(i, v) \in Located
  <2> TAKE i \in 1..m
  <2> TAKE v \in Located
  <2>1. key[i] \in Texts /\ key[i] \in Texts \union Addresses
    BY <1>1
  <2>2. Append(v, key[i]) \in Located /\ <<key[i]>> \in Located
    BY <2>1 DEF Located
  <2> QED BY <2>2 DEF Resolve
<1>3. \A i \in S : i > m \/ i \in 1..m
  BY ONLY <1>1
<1>4. G \in [S -> [Located -> Located]] /\ B \in [S -> Located]
  <2> HIDE DEF to, S
  <2> QED BY <1>2, <1>3
<1>5. Ends(S, next)
  BY <1>1, CountingEnds
<1>6. PICK f \in [S -> Located] : Along(S, next, G, B, f)
  <2> HIDE DEF S, next, G, B
  <2> QED BY <1>4, <1>5, RecursionAlong
<1>7. ASSUME NEW i \in S PROVE f[i] = IF i > m THEN address[d] ELSE to(i, f[i + 1])
  <2>1. next[i] = i + 1 /\ (i > m => i + 1 \notin S) /\ (~(i > m) => i + 1 \in S)
    BY ONLY <1>1, i \in S
  <2>2. f[i] = IF i + 1 \in S THEN G[i][f[i + 1]] ELSE B[i]
    <3> HIDE DEF next, G, B, S
    <3> QED BY <1>6, <2>1 DEF Along
  <2>3. CASE i > m
    <3> HIDE DEF S, to
    <3> QED BY <2>1, <2>2, <2>3
  <2>4. CASE ~(i > m)
    <3>1. f[i] = G[i][f[i + 1]] /\ f[i + 1] \in Located
      <4> HIDE DEF S, G, B
      <4> QED BY <2>1, <2>2, <2>4
    <3> HIDE DEF S, to
    <3> QED BY <2>4, <3>1
  <2> QED BY <2>3, <2>4
<1>8. f = [i \in S |-> IF i > m THEN address[d] ELSE to(i, f[i + 1])]
  <2> HIDE DEF S, to
  <2> QED BY <1>7
<1> DEFINE h == CHOOSE g : g = [i \in S |-> IF i > m THEN address[d] ELSE to(i, g[i + 1])]
<1>9. h = [i \in S |-> IF i > m THEN address[d] ELSE to(i, h[i + 1])]
  <2> HIDE DEF S, to
  <2> QED BY <1>8
<1>10. FromBase(d, key) = h[1]
  BY DEF FromBase, Rest
<1> HIDE DEF h
<1>11. \A i \in S : h[i] = IF i > m THEN address[d] ELSE to(i, h[i + 1])
  <2> HIDE DEF S, to
  <2> QED BY <1>9
<1>12. \A i \in S : h[i] \in Located
  <2> DEFINE D == {i \in S : h[i] \notin Located}
  <2> SUFFICES ASSUME D # {} PROVE FALSE
    OBVIOUS
  <2>1. D \in SUBSET S
    OBVIOUS
  <2>2. PICK i \in D : next[i] \notin D
    BY <1>5, <2>1 DEF Ends
  <2>3. i \in S /\ h[i] \notin Located /\ next[i] = i + 1 /\ (~(i > m) => i \in 1..m /\ i + 1 \in S)
    BY <1>1, <2>2
  <2>4. ~(i > m) => h[i + 1] \in Located
    BY <2>2, <2>3
  <2> HIDE DEF S, to
  <2> QED BY <1>2, <1>11, <2>3, <2>4
<1>13. h \in [S -> Located]
  <2> HIDE DEF S, to
  <2> QED BY <1>9, <1>12
<1>14. m + 1 \in S /\ m + 1 > m /\ \A i \in 1..m : i \in S /\ ~(i > m)
  BY ONLY <1>1
<1>15. h[m + 1] = address[d] /\ \A i \in 1..m : h[i] = to(i, h[i + 1])
  <2> HIDE DEF S, to
  <2> QED BY <1>11, <1>14
<1> QED BY <1>10, <1>13, <1>15

LEMMA RestProper ==
  ASSUME NEW key, Proper(key), NEW i \in 1..Len(key)
  PROVE  /\ Proper(Rest(key, i)) /\ (key[i] \in Relatives \/ Rest(key, i + 1) = <<>>)
<1> PICK m : m = Len(key)
  OBVIOUS
<1> PICK r : r = Rest(key, i)
  OBVIOUS
<1>1. key \in Seq(Texts) /\ m \in Nat /\ i \in 1..m /\ \A j \in 1..(m - 1) : key[j] \in Relatives
  BY DEF Proper
<1>2. r \in Seq(Texts) /\ Len(r) = m + 1 - i /\ \A j \in 1..(m + 1 - i) : r[j] = key[i + j - 1]
  BY <1>1, RestIs
<1>3. ASSUME NEW j \in 1..(Len(r) - 1) PROVE r[j] \in Relatives
  <2>1. j \in 1..(m + 1 - i) /\ i + j - 1 \in 1..(m - 1)
    BY ONLY <1>1, <1>2, j \in 1..(Len(r) - 1)
  <2> QED BY <1>1, <1>2, <2>1
<1>4. i = m \/ i \in 1..(m - 1)
  BY ONLY <1>1
<1> QED BY <1>1, <1>2, <1>3, <1>4, RestIs DEF Proper

\* What a cache has of keys is what they resolve to.
Coherent(d) ==
  \A key \in DOMAIN cached[d] : Proper(key) /\ cached[d][key] = Joined(address[d], key)

\* Then so is what is made of it.
LEMMA FromBaseJoins ==
  ASSUME NEW d, address[d] \in Located, Coherent(d), NEW key, Proper(key)
  PROVE  FromBase(d, key) = Joined(address[d], key)
<1> PICK m : m = Len(key)
  OBVIOUS
<1> PICK a : a = address[d]
  OBVIOUS
<1>1. key \in Seq(Texts) /\ m \in Nat /\ a \in Located
  BY DEF Proper
<1>2. \A k \in DOMAIN cached[d] : cached[d][k] \in Located
  BY JoinedIs DEF Coherent, Proper
<1>3. PICK h \in [1..(m + 1) -> Located] :
           /\ FromBase(d, key) = h[1] /\ h[m + 1] = a
           /\ \A i \in 1..m :
                h[i] = IF Rest(key, i) \in DOMAIN cached[d] THEN cached[d][Rest(key, i)]
                       ELSE Resolve(h[i + 1], key[i])
  BY <1>1, <1>2, FromBaseIs
<1>4. Rest(key, m + 1) = <<>>
  BY <1>1, SubSeqEmpty DEF Rest
<1> DEFINE S == 1..(m + 1)
           next == [i \in S |-> i + 1]
           D == {i \in S : h[i] # Joined(a, Rest(key, i))}
<1>5. D = {}
  <2> SUFFICES ASSUME D # {} PROVE FALSE
    OBVIOUS
  <2>1. D \in SUBSET S /\ Ends(S, next)
    BY <1>1, CountingEnds
  <2>2. PICK i \in D : next[i] \notin D
    BY <2>1 DEF Ends
  <2>3. i \in S /\ h[i] # Joined(a, Rest(key, i)) /\ i + 1 \notin D
    BY <2>2
  <2>4. CASE i = m + 1
    BY <1>1, <1>3, <1>4, <2>3, <2>4, JoinedNone
  <2>5. CASE i \in 1..m
    <3>1. i + 1 \in S
      BY ONLY <1>1, <2>5
    <3>2. h[i + 1] = Joined(a, Rest(key, i + 1))
      BY <2>3, <3>1
    <3>3. /\ Rest(key, i + 1) \in Seq(Texts) /\ key[i] \in Texts
          /\ Rest(key, i) = <<key[i]>> \o Rest(key, i + 1)
      BY <1>1, <2>5, RestIs
    <3>4. key[i] \in Relatives \/ Rest(key, i + 1) = <<>>
      BY <2>5, RestProper
    <3>5. Joined(a, Rest(key, i)) = Resolve(h[i + 1], key[i])
      BY <1>1, <3>2, <3>3, <3>4, JoinedOnto
    <3>6. Rest(key, i) \in DOMAIN cached[d] => cached[d][Rest(key, i)] = Joined(a, Rest(key, i))
      BY DEF Coherent
    <3> QED BY <1>3, <2>3, <2>5, <3>5, <3>6
  <2>6. i = m + 1 \/ i \in 1..m
    BY ONLY <1>1, <2>3
  <2> QED BY <2>4, <2>5, <2>6
<1>6. 1 \in S
  BY ONLY <1>1
<1>7. Rest(key, 1) = key
  BY <1>1, SubSeqFull DEF Rest
<1>8. h[1] = Joined(a, key)
  BY <1>5, <1>6, <1>7
<1> QED BY <1>3, <1>8

\* Keys are proper, and what they resolve to is the base that is meant.
LEMMA KeyProper ==
  ASSUME owner \in Owners, Grounded, base \in [Members -> Texts \union {NoBase}]
  PROVE  \A n \in Members : Proper(Key[n])
<1> DEFINE D == {n \in Members : ~Proper(Key[n])}
<1> SUFFICES ASSUME D # {} PROVE FALSE
  OBVIOUS
<1>1. D \in SUBSET Members
  OBVIOUS
<1>2. PICK n \in D : owner[n] \notin D
  BY <1>1 DEF Ends, Grounded
<1>3. n \in Members /\ ~Proper(Key[n]) /\ (owner[n] \in Members => Proper(Key[owner[n]]))
  BY <1>2
<1> PICK up : up = IF owner[n] \in Members THEN Key[owner[n]] ELSE <<>>
  OBVIOUS
<1>4. Proper(<<>>)
  BY DEF Proper
<1>5. Proper(up)
  BY <1>3, <1>4
<1>6. Key[n] = IF n \notin flagged \/ base[n] = NoBase THEN up
               ELSE <<base[n]>> \o (IF LooksRelative(base[n]) THEN up ELSE <<>>)
  BY <1>3, KeyIs
<1>7. ~(n \notin flagged \/ base[n] = NoBase) /\ base[n] \in Texts
  BY <1>3, <1>5, <1>6
<1>8. ASSUME NEW x \in Texts, NEW s, Proper(s), x \in Relatives \/ s = <<>> PROVE Proper(<<x>> \o s)
  <2> PICK t : t = <<x>> \o s
    OBVIOUS
  <2>1. s \in Seq(Texts) /\ <<x>> \in Seq(Texts) /\ Len(<<x>>) = 1 /\ Len(s) \in Nat /\ <<x>>[1] = x
    BY <1>8 DEF Proper
  <2>2. /\ t \in Seq(Texts) /\ Len(t) = 1 + Len(s)
        /\ \A i \in 1..(1 + Len(s)) : t[i] = IF i <= 1 THEN <<x>>[i] ELSE s[i - 1]
    BY <2>1, ConcatProperties
  <2>3. s = <<>> => Len(s) = 0
    OBVIOUS
  <2>4. \A i \in 1..(Len(s) - 1) : s[i] \in Relatives
    BY <1>8 DEF Proper
  <2>5. ASSUME NEW i \in 1..Len(s) PROVE t[i] \in Relatives
    <3>1. CASE i = 1
      <4>1. s # <<>>
        BY ONLY <2>1, <2>3, <2>5
      <4> QED BY <1>8, <2>1, <2>2, <3>1, <4>1
    <3>2. CASE i # 1
      <4>1. i - 1 \in 1..(Len(s) - 1) /\ ~(i <= 1) /\ i \in 1..(1 + Len(s))
        BY ONLY <2>1, <3>2, i \in 1..Len(s)
      <4> QED BY <2>2, <2>4, <4>1
    <3> QED BY <3>1, <3>2
  <2>6. Len(t) - 1 = Len(s)
    BY <2>1, <2>2
  <2> QED BY <2>2, <2>5, <2>6 DEF Proper
<1>9. CASE LooksRelative(base[n])
  <2>1. base[n] \in Relatives /\ Key[n] = <<base[n]>> \o up
    BY <1>6, <1>7, <1>9 DEF LooksRelative
  <2> QED BY <1>3, <1>5, <1>7, <1>8, <2>1
<1>10. CASE ~LooksRelative(base[n])
  <2>1. Key[n] = <<base[n]>> \o <<>>
    BY <1>6, <1>7, <1>10
  <2> QED BY <1>3, <1>4, <1>7, <1>8, <2>1
<1> QED BY <1>9, <1>10

LEMMA MeantIs ==
  ASSUME owner \in Owners, Grounded, base \in [Members -> Texts \union {NoBase}],
         address \in [Files -> Located]
  PROVE  \A n \in Members :
           LET up == IF owner[n] \in Members THEN Meant[owner[n]]
                     ELSE IF owner[n] \in Files THEN address[owner[n]] ELSE <<>>
           IN  Meant[n] = IF base[n] = NoBase THEN up ELSE Resolve(up, base[n])
<1> DEFINE to(n, up) == IF base[n] = NoBase THEN up ELSE Resolve(up, base[n])
           top(n) == IF owner[n] \in Files THEN address[owner[n]] ELSE <<>>
           B == [n \in Members |-> to(n, top(n))]
           G == [n \in Members |-> [v \in Located |-> to(n, v)]]
<1>1. \A n \in Members : \A v \in Located : to(n, v) \in Located
  <2> TAKE n \in Members
  <2> TAKE v \in Located
  <2>1. base[n] # NoBase => Append(v, base[n]) \in Located /\ <<base[n]>> \in Located
    BY DEF Located
  <2> QED BY <2>1 DEF Resolve
<1>2. \A n \in Members : top(n) \in Located
  BY DEF Located
<1>3. G \in [Members -> [Located -> Located]] /\ B \in [Members -> Located]
  <2> HIDE DEF to, top
  <2> QED BY <1>1, <1>2
<1>4. PICK f \in [Members -> Located] : Along(Members, owner, G, B, f)
  <2> HIDE DEF B, G
  <2> QED BY <1>3, RecursionAlong DEF Grounded
<1>5. ASSUME NEW n \in Members
      PROVE  f[n] = to(n, IF owner[n] \in Members THEN f[owner[n]] ELSE top(n))
  <2>1. CASE owner[n] \in Members
    <3>1. f[owner[n]] \in Located /\ f[n] = G[n][f[owner[n]]]
      BY <1>4, <2>1 DEF Along
    <3> HIDE DEF to
    <3> QED BY <2>1, <3>1
  <2>2. CASE owner[n] \notin Members
    <3> HIDE DEF to, top
    <3> QED BY <1>4, <2>2 DEF Along
  <2> QED BY <2>1, <2>2
<1>6. f = [n \in Members |-> to(n, IF owner[n] \in Members THEN f[owner[n]] ELSE top(n))]
  <2> HIDE DEF to, top
  <2> QED BY <1>4, <1>5
<1>7. Meant = [n \in Members |-> to(n, IF owner[n] \in Members THEN Meant[owner[n]] ELSE top(n))]
  BY <1>6 DEF Meant
<1>8. \A n \in Members : Meant[n] = to(n, IF owner[n] \in Members THEN Meant[owner[n]] ELSE top(n))
  <2> HIDE DEF to, top
  <2> QED BY <1>7
<1> QED BY <1>8

\* What has a base is flagged, and so is its document.
Flags ==
  \A n \in Members : base[n] # NoBase =>
    n \in flagged /\ (DocOf[n] \in Files => DocOf[n] \in flagged)

BasesInv ==
  /\ BasesTypeOK /\ cached = [d \in Files |-> cached[d]]
  /\ Grounded /\ Flags
  /\ \A d \in Files \ moving : Coherent(d)

LEMMA BasesTyped ==
  ASSUME BasesInv
  PROVE  /\ owner \in Owners /\ Grounded /\ base \in [Members -> Texts \union {NoBase}]
         /\ address \in [Files -> Located]
         /\ \A d \in Files : \A key \in DOMAIN cached[d] :
              key \in Seq(Texts) /\ cached[d][key] \in Located
         /\ DocOf \in [Members -> Files \union {Nowhere}] /\ Agrees(owner, DocOf)
<1>1. owner \in Owners /\ Grounded /\ base \in [Members -> Texts \union {NoBase}]
  BY DEF BasesInv, BasesTypeOK, Owners
<1>2. address \in [Files -> Located]
  <2>1. address \in [Files -> {<<uri>> : uri \in Addresses}]
    BY DEF BasesInv, BasesTypeOK
  <2>2. \A uri \in Addresses : <<uri>> \in Located
    BY DEF Located
  <2> QED BY <2>1, <2>2
<1>3. \A d \in Files : \A key \in DOMAIN cached[d] : key \in Seq(Texts) /\ cached[d][key] \in Located
  BY DEF BasesInv, BasesTypeOK, Located
<1>4. DocOf \in [Members -> Files \union {Nowhere}] /\ Agrees(owner, DocOf)
  BY <1>1, DocOfIs, DocsByIs DEF Grounded
<1> QED BY <1>1, <1>2, <1>3, <1>4

\* What is looked up resolves to what is meant, for all elements of a document.
LEMMA KeysMean ==
  ASSUME BasesInv, NEW d \in Files
  PROVE  \A n \in Members : DocOf[n] = d => Joined(address[d], Key[n]) = Meant[n]
<1> DEFINE D == {n \in Members : DocOf[n] = d /\ Joined(address[d], Key[n]) # Meant[n]}
<1> SUFFICES ASSUME D # {} PROVE FALSE
  OBVIOUS
<1> PICK a : a = address[d]
  OBVIOUS
<1>1. /\ owner \in Owners /\ Grounded /\ base \in [Members -> Texts \union {NoBase}]
      /\ address \in [Files -> Located] /\ a \in Located /\ Agrees(owner, DocOf) /\ Flags
  BY BasesTyped DEF BasesInv
<1>2. D \in SUBSET Members
  OBVIOUS
<1>3. PICK n \in D : owner[n] \notin D
  BY <1>1, <1>2 DEF Ends, Grounded
<1>4. /\ n \in Members /\ DocOf[n] = d /\ Joined(a, Key[n]) # Meant[n]
      /\ owner[n] \in Members => DocOf[owner[n]] = d /\ Joined(a, Key[owner[n]]) = Meant[owner[n]]
      /\ owner[n] \notin Members => owner[n] = d
  <2>1. n \in Members /\ DocOf[n] = d /\ Joined(a, Key[n]) # Meant[n]
    BY <1>3
  <2>2. DocOf[n] = IF owner[n] \in Members THEN DocOf[owner[n]] ELSE owner[n]
    BY <1>1, <2>1 DEF Agrees
  <2> QED BY <1>3, <2>1, <2>2
<1> PICK upk : upk = IF owner[n] \in Members THEN Key[owner[n]] ELSE <<>>
  OBVIOUS
<1> PICK upm : upm = IF owner[n] \in Members THEN Meant[owner[n]]
                     ELSE IF owner[n] \in Files THEN address[owner[n]] ELSE <<>>
  OBVIOUS
<1>5. Joined(a, upk) = upm
  <2>1. CASE owner[n] \in Members
    BY <1>4, <2>1
  <2>2. CASE owner[n] \notin Members
    <3>1. upk = <<>> /\ upm = a
      BY <1>4, <2>2
    <3> QED BY <1>1, <3>1, JoinedNone
  <2> QED BY <2>1, <2>2
<1>6. /\ Key[n] = IF n \notin flagged \/ base[n] = NoBase THEN upk
                  ELSE <<base[n]>> \o (IF LooksRelative(base[n]) THEN upk ELSE <<>>)
      /\ owner[n] \in Members => Key[owner[n]] \in Seq(Texts)
  BY <1>1, <1>4, KeyIs
<1>7. Meant[n] = IF base[n] = NoBase THEN upm ELSE Resolve(upm, base[n])
  BY <1>1, <1>4, MeantIs
<1>8. base[n] # NoBase /\ n \in flagged /\ base[n] \in Texts
  BY <1>1, <1>4, <1>5, <1>6, <1>7 DEF Flags
<1> PICK x : x = base[n]
  OBVIOUS
<1>9. upk \in Seq(Texts) /\ <<>> \in Seq(Texts)
  BY <1>6
<1>10. CASE x \in Relatives
  <2>1. Key[n] = <<x>> \o upk
    BY <1>6, <1>8, <1>10 DEF LooksRelative
  <2>2. Joined(a, <<x>> \o upk) = Resolve(upm, x)
    BY <1>1, <1>5, <1>8, <1>9, <1>10, JoinedOnto
  <2> QED BY <1>4, <1>7, <1>8, <2>1, <2>2
<1>11. CASE x \notin Relatives
  <2>1. Key[n] = <<x>> \o <<>>
    BY <1>6, <1>8, <1>11 DEF LooksRelative
  <2>2. Joined(a, <<x>> \o <<>>) = Resolve(Joined(a, <<>>), x)
    BY <1>1, <1>8, <1>9, JoinedOnto
  <2>3. Resolve(Joined(a, <<>>), x) = <<x>> /\ Resolve(upm, x) = <<x>>
    BY <1>11 DEF Resolve
  <2> QED BY <1>4, <1>7, <1>8, <2>1, <2>2, <2>3
<1> QED BY <1>10, <1>11

\* In a document that is not flagged, all bases are that of the document.
LEMMA Unflagged ==
  ASSUME BasesInv, NEW d \in Files, d \notin flagged
  PROVE  \A n \in Members : DocOf[n] = d => Meant[n] = address[d]
<1> DEFINE D == {n \in Members : DocOf[n] = d /\ Meant[n] # address[d]}
<1> SUFFICES ASSUME D # {} PROVE FALSE
  OBVIOUS
<1>1. /\ owner \in Owners /\ Grounded /\ base \in [Members -> Texts \union {NoBase}]
      /\ address \in [Files -> Located] /\ Agrees(owner, DocOf) /\ Flags
  BY BasesTyped DEF BasesInv
<1>2. D \in SUBSET Members
  OBVIOUS
<1>3. PICK n \in D : owner[n] \notin D
  BY <1>1, <1>2 DEF Ends, Grounded
<1>4. n \in Members /\ DocOf[n] = d /\ Meant[n] # address[d]
  BY <1>3
<1>5. DocOf[n] = IF owner[n] \in Members THEN DocOf[owner[n]] ELSE owner[n]
  BY <1>1, <1>4 DEF Agrees
<1>6. base[n] = NoBase
  BY <1>1, <1>4 DEF Flags
<1>7. Meant[n] = IF owner[n] \in Members THEN Meant[owner[n]]
                 ELSE IF owner[n] \in Files THEN address[owner[n]] ELSE <<>>
  BY <1>1, <1>4, <1>6, MeantIs
<1> QED BY <1>3, <1>4, <1>5, <1>7

LEMMA BasesInvResolves == BasesInv => BasesResolve
<1> SUFFICES ASSUME BasesInv, NEW n \in Members, DocOf[n] \in Files \ moving
             PROVE  BaseURI(n) = Meant[n]
  BY DEF BasesResolve
<1> PICK d : d = DocOf[n]
  OBVIOUS
<1>1. CASE d \in flagged
  <2>1. Proper(Key[n]) /\ address[d] \in Located /\ Coherent(d)
    BY BasesTyped, KeyProper DEF BasesInv
  <2>2. FromBase(d, Key[n]) = Joined(address[d], Key[n])
    BY <2>1, FromBaseJoins
  <2> QED BY <1>1, <2>2, KeysMean DEF BaseURI
<1>2. CASE d \notin flagged
  BY <1>2, Unflagged DEF BaseURI
<1> QED BY <1>1, <1>2

(* The steps of Bases *)

LEMMA SameTree ==
  ASSUME BasesInv, owner' = owner
  PROVE  Grounded' /\ DocOf' = DocOf
<1>1. Grounded'
  BY DEF BasesInv, Grounded, Ends
<1>2. DocOf' = DocsBy(owner')
  BY DocOfWillBe
<1> QED BY <1>1, <1>2, DocOfIs

\* A cache that is neither written to nor moved stays coherent.
LEMMA SameCache ==
  ASSUME NEW d, Coherent(d), cached'[d] = cached[d], address'[d] = address[d]
  PROVE  Coherent(d)'
BY DEF Coherent

LEMMA EmptyCache == ASSUME NEW d, cached'[d] = <<>> PROVE Coherent(d)'
BY DEF Coherent

LEMMA SuffixProper ==
  ASSUME NEW key, Proper(key), NEW s \in Suffixes(key) \ {<<>>}
  PROVE  Proper(s)
<1>1. PICK i \in 1..Len(key) : s = SubSeq(key, i, Len(key))
  BY DEF Suffixes
<1> QED BY <1>1, RestProper DEF Rest

LEMMA GetBaseURIStep == ASSUME BasesInv, NEW n \in Members, GetBaseURI(n) PROVE BasesInv'
<1> PICK d : d = DocOf[n]
  OBVIOUS
<1> PICK keys : keys = DOMAIN cached[d] \union (Suffixes(Key[n]) \ {<<>>})
  OBVIOUS
<1>1. /\ d \in Files
      /\ cached' = [cached EXCEPT ![d] = [key \in keys |-> FromBase(d, key)]]
      /\ UNCHANGED <<owner, base, flagged, address, moving, crashed>>
  BY DEF GetBaseURI
<1>2. cached = [x \in Files |-> cached[x]]
  BY DEF BasesInv
<1>3. /\ cached' = [x \in Files |-> cached'[x]]
      /\ cached'[d] = [key \in keys |-> FromBase(d, key)]
      /\ \A x \in Files : x # d => cached'[x] = cached[x]
  <2> PICK new : new = [key \in keys |-> FromBase(d, key)]
    OBVIOUS
  <2>1. cached' = [cached EXCEPT ![d] = new]
    BY <1>1
  <2> QED BY <1>1, <1>2, <2>1
<1>4. /\ owner \in Owners /\ Grounded /\ base \in [Members -> Texts \union {NoBase}]
      /\ address[d] \in Located
      /\ \A key \in DOMAIN cached[d] : key \in Seq(Texts) /\ cached[d][key] \in Located
  BY <1>1, BasesTyped
<1>5. Proper(Key[n])
  BY <1>4, KeyProper
<1>6. \A key \in Suffixes(Key[n]) \ {<<>>} : Proper(key)
  BY <1>5, SuffixProper
<1>7. \A key \in keys : key \in Seq(Texts)
  BY <1>4, <1>6 DEF Proper
<1>8. ASSUME NEW key \in keys PROVE FromBase(d, key) \in Located
  <2>1. key \in Seq(Texts)
    BY <1>7
  <2>2. PICK h \in [1..(Len(key) + 1) -> Located] : FromBase(d, key) = h[1]
    BY <1>4, <2>1, FromBaseIs
  <2>3. 1 \in 1..(Len(key) + 1)
    BY <2>1
  <2> QED BY <2>2, <2>3
<1>9. \A x \in Files : \A key \in DOMAIN cached'[x] :
        key \in Seq(Texts) /\ cached'[x][key] \in Located
  <2> SUFFICES ASSUME NEW x \in Files, NEW key \in DOMAIN cached'[x]
               PROVE  key \in Seq(Texts) /\ cached'[x][key] \in Located
    OBVIOUS
  <2>1. CASE x = d
    <3>1. key \in keys /\ cached'[x][key] = FromBase(d, key)
      BY <1>3, <2>1
    <3> QED BY <1>7, <1>8, <3>1
  <2>2. CASE x # d
    BY <1>3, <2>2, BasesTyped
  <2> QED BY <2>1, <2>2
<1>10. ASSUME NEW x \in Files \ moving PROVE Coherent(x)'
  <2>1. Coherent(x) /\ address' = address
    BY <1>1 DEF BasesInv
  <2>2. CASE x = d
    <3>1. ASSUME NEW key \in keys PROVE Proper(key) /\ FromBase(d, key) = Joined(address[d], key)
      <4>1. Proper(key)
        BY <1>6, <2>1, <2>2 DEF Coherent
      <4> QED BY <1>4, <2>1, <2>2, <4>1, FromBaseJoins
    <3>2. \A key \in keys : cached'[d][key] = FromBase(d, key)
      BY <1>3
    <3>3. DOMAIN cached'[d] = keys
      BY <1>3
    <3> QED BY <2>1, <2>2, <3>1, <3>2, <3>3 DEF Coherent
  <2>3. CASE x # d
    BY <1>3, <2>1, <2>3, SameCache
  <2> QED BY <2>2, <2>3
<1>11. BasesTypeOK'
  BY <1>1, <1>9 DEF BasesInv, BasesTypeOK, Located
<1>12. Grounded' /\ Flags'
  BY <1>1, SameTree DEF BasesInv, Flags
<1> QED BY <1>1, <1>3, <1>10, <1>11, <1>12 DEF BasesInv

LEMMA SetBaseStep ==
  ASSUME BasesInv, NEW n \in Members, NEW text \in Texts \union {NoBase}, SetBase(n, text)
  PROVE  BasesInv'
<1>1. /\ base' = [base EXCEPT ![n] = text]
      /\ flagged' = IF text = NoBase THEN flagged
                    ELSE flagged \union {n} \union ({DocOf[n]} \intersect Files)
      /\ UNCHANGED <<owner, address, cached, moving, crashed>>
  BY DEF SetBase
<1>2. Grounded' /\ DocOf' = DocOf
  BY <1>1, SameTree
<1>3. base \in [Members -> Texts \union {NoBase}] /\ flagged \subseteq Members \union Files
  BY DEF BasesInv, BasesTypeOK
<1>4. BasesTypeOK'
  <2>1. base' \in [Members -> Texts \union {NoBase}]
    BY <1>1, <1>3
  <2>2. flagged' \subseteq Members \union Files
    BY <1>1, <1>3
  <2> QED BY <1>1, <2>1, <2>2 DEF BasesInv, BasesTypeOK
<1>5. Flags'
  <2> SUFFICES ASSUME NEW m \in Members, base'[m] # NoBase
               PROVE  m \in flagged' /\ (DocOf[m] \in Files => DocOf[m] \in flagged')
    BY <1>2 DEF Flags
  <2>1. CASE m = n
    BY <1>1, <1>3, <2>1
  <2>2. CASE m # n
    BY <1>1, <1>3, <2>2 DEF BasesInv, Flags
  <2> QED BY <2>1, <2>2
<1>6. \A d \in Files \ moving : Coherent(d)'
  BY <1>1, SameCache DEF BasesInv
<1> QED BY <1>1, <1>2, <1>4, <1>5, <1>6 DEF BasesInv

\* What is within an element: it, and what is in what is within.
LEMMA WithinIs ==
  ASSUME NEW n \in Members
  PROVE  /\ Within(n) \subseteq Members /\ n \in Within(n)
         /\ \A y \in Members : owner[y] \in Within(n) => y \in Within(n)
         /\ \A x \in Within(n) : x = n \/ owner[x] \in Within(n)
<1> DEFINE Closed(S) == n \in S /\ \A y \in Members : owner[y] \in S => y \in S
<1>1. \A x : x \in Within(n) <=> x \in Members /\ \A S \in SUBSET Members : Closed(S) => x \in S
  BY DEF Within
<1> PICK W : W = Within(n)
  OBVIOUS
<1>2. W \subseteq Members /\ n \in W
  BY <1>1
<1>3. \A y \in Members : owner[y] \in W => y \in W
  BY <1>1
<1>4. ASSUME NEW x \in W PROVE x = n \/ owner[x] \in W
  <2> SUFFICES ASSUME x # n, owner[x] \notin W PROVE FALSE
    OBVIOUS
  <2> DEFINE S == W \ {x}
  <2>1. Closed(S)
    BY <1>2, <1>3
  <2>2. S \in SUBSET Members /\ x \notin S
    BY <1>2
  <2> HIDE DEF S, Closed
  <2> QED BY <1>1, <2>1, <2>2
<1> QED BY <1>2, <1>3, <1>4

LEMMA WithinDoc ==
  ASSUME BasesInv, NEW n \in Members
  PROVE  \A x \in Within(n) : DocOf[x] = DocOf[n]
<1> DEFINE S == {x \in Members : DocOf[x] = DocOf[n]}
<1>1. S \in SUBSET Members /\ n \in S
  OBVIOUS
<1>2. Agrees(owner, DocOf)
  BY BasesTyped
<1>3. \A y \in Members : owner[y] \in S => y \in S
  BY <1>2 DEF Agrees
<1>4. \A x \in Within(n) : x \in S
  BY <1>1, <1>3 DEF Within
<1> QED BY <1>4

LEMMA PutStep ==
  ASSUME BasesInv, NEW n \in Members, NEW to \in Members \union Files \union {Nowhere}, Put(n, to)
  PROVE  BasesInv'
<1> PICK from, at : from = DocOf[n] /\ at = IF to \in Members THEN DocOf[to] ELSE to
  OBVIOUS
<1> PICK W : W = Within(n)
  OBVIOUS
<1>1. UNCHANGED <<base, address, cached, moving>> /\ to \notin W
  BY DEF Put
<1>2. /\ owner \in Owners /\ DocOf \in [Members -> Files \union {Nowhere}]
      /\ Agrees(owner, DocOf) /\ Grounded
  BY BasesTyped
<1>3. /\ W \subseteq Members /\ n \in W
      /\ \A y \in Members : owner[y] \in W => y \in W
      /\ \A x \in W : x = n \/ owner[x] \in W
      /\ \A x \in W : DocOf[x] = from
  BY WithinIs, WithinDoc
<1>4. at \in Files \union {Nowhere}
  BY <1>2
<1>5. \A d \in Files \ moving' : Coherent(d)'
  BY <1>1, SameCache DEF BasesInv
<1>6. CASE UNCHANGED <<owner, flagged>> /\ crashed' = TRUE
  <2>1. Grounded' /\ Flags'
    BY <1>1, <1>6, SameTree DEF BasesInv, Flags
  <2>2. BasesTypeOK'
    BY <1>1, <1>6 DEF BasesInv, BasesTypeOK
  <2> QED BY <1>1, <1>5, <2>1, <2>2 DEF BasesInv
<1>7. CASE /\ owner' = [owner EXCEPT ![n] = to]
           /\ flagged' = IF at \in Files /\ at # from THEN Transition(n, at) ELSE flagged
           /\ UNCHANGED crashed
  <2>1. owner' \in Owners /\ owner'[n] = to /\ \A x \in Members : x # n => owner'[x] = owner[x]
    BY <1>2, <1>7 DEF Owners
  <2>2. Grounded'
    <3> SUFFICES ASSUME NEW T \in SUBSET Members, T # {}, \A x \in T : owner'[x] \in T
                 PROVE  FALSE
      BY DEF Grounded, Ends
    <3> DEFINE U == T \ W
    <3>1. CASE U = {}
      <4>1. n \notin T
        BY <1>1, <2>1, <3>1
      <4>2. \A x \in T : owner[x] \in T
        BY <2>1, <4>1
      <4> QED BY <1>2, <4>2 DEF Grounded, Ends
    <3>2. CASE U # {}
      <4>1. PICK x \in U : owner[x] \notin U
        BY <1>2, <3>2 DEF Grounded, Ends
      <4>2. x \in Members /\ x \notin W /\ x # n /\ owner[x] \in T
        BY <1>3, <2>1, <4>1
      <4> QED BY <1>3, <4>1, <4>2
    <3> QED BY <3>1, <3>2
  <2> DEFINE e == [x \in Members |-> IF x \in W THEN at ELSE DocOf[x]]
  <2>3. Agrees(owner', e)
    <3> SUFFICES ASSUME NEW x \in Members
                 PROVE  e[x] = IF owner'[x] \in Members THEN e[owner'[x]] ELSE owner'[x]
      BY DEF Agrees
    <3>1. CASE x = n
      BY <1>1, <1>3, <2>1, <3>1
    <3>2. CASE x \in W /\ x # n
      <4>1. owner'[x] \in W /\ owner'[x] \in Members
        BY <1>3, <2>1, <3>2
      <4> QED BY <3>2, <4>1
    <3>3. CASE x \notin W
      <4>1. owner'[x] = owner[x] /\ owner[x] \notin W
        BY <1>3, <2>1, <3>3
      <4> QED BY <1>2, <3>3, <4>1 DEF Agrees
    <3> QED BY <3>1, <3>2, <3>3
  <2>4. \A x \in Members : DocOf'[x] = e[x]
    <3>1. Ends(Members, owner')
      BY <2>2 DEF Grounded
    <3>2. Agrees(owner', DocsBy(owner'))
      BY <2>1, <3>1, DocsByIs
    <3> HIDE DEF e
    <3>3. \A x \in Members : DocsBy(owner')[x] = e[x]
      BY <2>3, <3>1, <3>2, DocsByOnly
    <3> QED BY <3>3, DocOfWillBe
  <2>5. flagged \subseteq flagged' /\ flagged' \subseteq Members \union Files
    BY <1>7 DEF BasesInv, BasesTypeOK, Transition
  <2>6. Flags'
    <3> SUFFICES ASSUME NEW x \in Members, base'[x] # NoBase
                 PROVE  x \in flagged' /\ (DocOf'[x] \in Files => DocOf'[x] \in flagged')
      BY DEF Flags
    <3>1. x \in flagged /\ (DocOf[x] \in Files => DocOf[x] \in flagged)
      BY <1>1 DEF BasesInv, Flags
    <3>2. CASE x \notin W
      BY <2>4, <2>5, <3>1, <3>2
    <3>3. CASE x \in W /\ (at \notin Files \/ at = from)
      BY <1>3, <2>4, <2>5, <3>1, <3>3
    <3>4. CASE x \in W /\ at \in Files /\ at # from
      <4>1. flagged' = flagged \union {at}
        BY <1>7, <3>1, <3>4 DEF Transition
      <4> QED BY <2>4, <3>1, <3>4, <4>1
    <3> QED BY <3>2, <3>3, <3>4
  <2>7. BasesTypeOK'
    BY <1>1, <1>7, <2>1, <2>5 DEF BasesInv, BasesTypeOK, Owners
  <2> QED BY <1>1, <1>5, <2>2, <2>6, <2>7 DEF BasesInv
<1> QED BY <1>6, <1>7 DEF Put

LEMMA CloseBasesStep == ASSUME BasesInv, NEW d \in Files, Close(d) PROVE BasesInv'
<1> DEFINE within == {n \in Members : DocOf[n] = d}
<1>1. /\ cached' = [cached EXCEPT ![d] = <<>>]
      /\ UNCHANGED <<base, flagged, address, moving>>
  BY DEF Close
<1>2. cached = [x \in Files |-> cached[x]]
  BY DEF BasesInv
<1>3. /\ cached' = [x \in Files |-> cached'[x]] /\ cached'[d] = <<>>
      /\ \A x \in Files : x # d => cached'[x] = cached[x]
  BY <1>1, <1>2
<1>4. \A x \in Files \ moving' : Coherent(x)'
  BY <1>1, <1>3, SameCache, EmptyCache DEF BasesInv
<1>5. /\ owner \in Owners /\ DocOf \in [Members -> Files \union {Nowhere}]
      /\ Agrees(owner, DocOf) /\ Grounded
  BY BasesTyped
<1>6. ASSUME owner' = owner PROVE owner' \in Owners /\ Grounded' /\ Flags'
  <2>1. Grounded' /\ Flags'
    BY <1>1, <1>6, SameTree DEF BasesInv, Flags
  <2>2. owner' \in Owners
    BY <1>5, <1>6
  <2> QED BY <2>1, <2>2
<1>7. ASSUME owner' = [n \in Members |-> IF n \in within THEN Nowhere ELSE owner[n]]
      PROVE  owner' \in Owners /\ Grounded' /\ Flags'
  <2>1. Nowhere \notin Members /\ Nowhere \notin Files
    BY BasesAssumption
  <2>2. /\ owner' \in Owners
        /\ \A n \in Members : owner'[n] = IF n \in within THEN Nowhere ELSE owner[n]
    BY <1>5, <1>7 DEF Owners
  <2>3. Grounded'
    <3> SUFFICES ASSUME NEW T \in SUBSET Members, T # {}, \A x \in T : owner'[x] \in T
                 PROVE  FALSE
      BY DEF Grounded, Ends
    <3>1. \A x \in T : owner[x] \in T
      BY <2>1, <2>2
    <3> QED BY <1>5, <3>1 DEF Grounded, Ends
  <2> DEFINE e == [x \in Members |-> IF DocOf[x] = d THEN Nowhere ELSE DocOf[x]]
  <2>4. Agrees(owner', e)
    <3> SUFFICES ASSUME NEW x \in Members
                 PROVE  e[x] = IF owner'[x] \in Members THEN e[owner'[x]] ELSE owner'[x]
      BY DEF Agrees
    <3>1. DocOf[x] = IF owner[x] \in Members THEN DocOf[owner[x]] ELSE owner[x]
      BY <1>5 DEF Agrees
    <3>2. CASE DocOf[x] = d
      BY <2>1, <2>2, <3>2
    <3>3. CASE DocOf[x] # d
      <4>1. owner'[x] = owner[x]
        BY <2>2, <3>3
      <4> QED BY <3>1, <3>3, <4>1
    <3> QED BY <3>2, <3>3
  <2>5. \A x \in Members : DocOf'[x] = e[x]
    <3>1. Ends(Members, owner')
      BY <2>3 DEF Grounded
    <3>2. Agrees(owner', DocsBy(owner'))
      BY <2>2, <3>1, DocsByIs
    <3> HIDE DEF e
    <3>3. \A x \in Members : DocsBy(owner')[x] = e[x]
      BY <2>4, <3>1, <3>2, DocsByOnly
    <3> QED BY <3>3, DocOfWillBe
  <2>6. Flags'
    <3> SUFFICES ASSUME NEW x \in Members, base'[x] # NoBase
                 PROVE  x \in flagged' /\ (DocOf'[x] \in Files => DocOf'[x] \in flagged')
      BY DEF Flags
    <3> QED BY <1>1, <2>1, <2>5 DEF BasesInv, Flags
  <2> QED BY <2>2, <2>3, <2>6
<1>8. owner' \in Owners /\ Grounded' /\ Flags' /\ crashed' \in BOOLEAN
  <2>1. owner' = owner \/ owner' = [n \in Members |-> IF n \in within THEN Nowhere ELSE owner[n]]
    BY DEF Close
  <2>2. crashed' \in BOOLEAN
    BY DEF Close, BasesInv, BasesTypeOK
  <2> QED BY <1>6, <1>7, <2>1, <2>2
<1>9. BasesTypeOK'
  <2>1. \A x \in Files : \A key \in DOMAIN cached'[x] :
          key \in Seq(Texts) /\ cached'[x][key] \in Seq(Texts \union Addresses)
    BY <1>3 DEF BasesInv, BasesTypeOK
  <2> QED BY <1>1, <1>8, <2>1 DEF BasesInv, BasesTypeOK, Owners
<1> QED BY <1>3, <1>4, <1>8, <1>9 DEF BasesInv

LEMMA SetURIStep ==
  ASSUME BasesInv, NEW d \in Files, NEW uri \in Addresses, SetURI(d, uri)
  PROVE  BasesInv'
<1>1. /\ address' = [address EXCEPT ![d] = <<uri>>] /\ moving' = moving \union {d}
      /\ UNCHANGED <<owner, base, flagged, cached, crashed>>
  BY DEF SetURI
<1>2. Grounded' /\ Flags'
  BY <1>1, SameTree DEF BasesInv, Flags
<1>3. BasesTypeOK'
  <2>1. address' \in [Files -> {<<a>> : a \in Addresses}]
    BY <1>1 DEF BasesInv, BasesTypeOK
  <2> QED BY <1>1, <2>1 DEF BasesInv, BasesTypeOK
<1>4. ASSUME NEW x \in Files \ moving' PROVE Coherent(x)'
  <2>1. x \in Files \ moving /\ x # d
    BY <1>1
  <2>2. address'[x] = address[x]
    BY <1>1, <2>1 DEF BasesInv, BasesTypeOK
  <2> QED BY <1>1, <2>1, <2>2, SameCache DEF BasesInv
<1> QED BY <1>1, <1>2, <1>3, <1>4 DEF BasesInv

\* What Settle and RebaseNest have in common: the cache of the document is emptied.
LEMMA ForgetStep ==
  ASSUME BasesInv, NEW d \in Files, cached' = Forget(d), UNCHANGED <<owner, base, flagged, crashed>>,
         address' \in [Files -> {<<uri>> : uri \in Addresses}],
         \A x \in Files : x # d => address'[x] = address[x],
         moving' \subseteq Files, moving \ {d} \subseteq moving'
  PROVE  BasesInv'
<1>1. cached = [x \in Files |-> cached[x]]
  BY DEF BasesInv
<1>2. /\ cached' = [x \in Files |-> cached'[x]] /\ cached'[d] = <<>>
      /\ \A x \in Files : x # d => cached'[x] = cached[x]
  BY <1>1 DEF Forget
<1>3. ASSUME NEW x \in Files \ moving' PROVE Coherent(x)'
  <2>1. CASE x = d
    BY <1>2, <2>1, EmptyCache
  <2>2. CASE x # d
    BY <1>2, <2>2, SameCache DEF BasesInv
  <2> QED BY <2>1, <2>2
<1>4. BasesTypeOK'
  <2>1. \A x \in Files : \A key \in DOMAIN cached'[x] :
          key \in Seq(Texts) /\ cached'[x][key] \in Seq(Texts \union Addresses)
    BY <1>2 DEF BasesInv, BasesTypeOK
  <2> QED BY <2>1 DEF BasesInv, BasesTypeOK
<1>5. Grounded' /\ Flags'
  BY SameTree DEF BasesInv, Flags
<1> QED BY <1>2, <1>3, <1>4, <1>5 DEF BasesInv

LEMMA SettleStep == ASSUME BasesInv, NEW d \in Files, Settle(d) PROVE BasesInv'
<1>1. cached' = Forget(d) /\ moving' = moving \ {d} /\ UNCHANGED <<owner, base, flagged, address, crashed>>
  BY DEF Settle
<1>2. address' \in [Files -> {<<uri>> : uri \in Addresses}] /\ moving' \subseteq Files
  BY <1>1 DEF BasesInv, BasesTypeOK
<1> QED BY <1>1, <1>2, ForgetStep

LEMMA RebaseNestStep ==
  ASSUME BasesInv, NEW d \in Files, NEW uri \in Addresses, RebaseNest(d, uri)
  PROVE  BasesInv'
<1>1. /\ cached' = Forget(d) /\ address' = [address EXCEPT ![d] = <<uri>>]
      /\ UNCHANGED <<owner, base, flagged, moving, crashed>>
  BY DEF RebaseNest
<1>2. address' \in [Files -> {<<a>> : a \in Addresses}] /\ moving' \subseteq Files
  BY <1>1 DEF BasesInv, BasesTypeOK
<1>3. \A x \in Files : x # d => address'[x] = address[x]
  BY <1>1 DEF BasesInv, BasesTypeOK
<1> QED BY <1>1, <1>2, <1>3, ForgetStep

LEMMA BasesInitOK == BasesInit => BasesInv
<1> SUFFICES ASSUME BasesInit PROVE BasesInv
  OBVIOUS
<1>1. /\ owner = [n \in Members |-> Nowhere] /\ base = [n \in Members |-> NoBase] /\ flagged = {}
      /\ cached = [d \in Files |-> <<>>] /\ moving = {} /\ crashed = FALSE
  BY DEF BasesInit
<1>2. address \in [Files -> {<<uri>> : uri \in Addresses}]
  <2> PICK first : first = CHOOSE uri \in Addresses : TRUE
    OBVIOUS
  <2>1. first \in Addresses
    BY BasesAssumption
  <2>2. address = [d \in Files |-> <<first>>]
    BY DEF BasesInit
  <2> QED BY <2>1, <2>2
<1>3. BasesTypeOK
  <2>1. \A d \in Files : DOMAIN cached[d] = {}
    BY <1>1
  <2>2. owner \in [Members -> Members \union Files \union {Nowhere}]
    BY <1>1
  <2>3. base \in [Members -> Texts \union {NoBase}]
    BY <1>1
  <2>4. flagged \subseteq Members \union Files /\ moving \subseteq Files /\ crashed \in BOOLEAN
    BY <1>1
  <2> QED BY <1>2, <2>1, <2>2, <2>3, <2>4 DEF BasesTypeOK
<1>4. Grounded
  BY <1>1, BasesAssumption DEF Grounded, Ends
<1>5. Flags /\ \A d \in Files \ moving : Coherent(d)
  BY <1>1 DEF Flags, Coherent
<1> QED BY <1>1, <1>3, <1>4, <1>5 DEF BasesInv

LEMMA BasesStutters == ASSUME BasesInv, UNCHANGED basesVars PROVE BasesInv'
<1>1. UNCHANGED <<owner, base, flagged, address, cached, moving, crashed>>
  BY DEF basesVars
<1>2. Grounded' /\ Flags'
  BY <1>1, SameTree DEF BasesInv, Flags
<1>3. \A d \in Files \ moving : Coherent(d)'
  BY <1>1, SameCache DEF BasesInv
<1> QED BY <1>1, <1>2, <1>3 DEF BasesInv, BasesTypeOK

LEMMA BasesKeep == ASSUME BasesInv, [BasesNext]_basesVars PROVE BasesInv'
<1>1. ASSUME NEW n \in Members, GetBaseURI(n) PROVE BasesInv'
  BY <1>1, GetBaseURIStep
<1>2. ASSUME NEW n \in Members, NEW text \in Texts \union {NoBase}, SetBase(n, text) PROVE BasesInv'
  BY <1>2, SetBaseStep
<1>3. ASSUME NEW n \in Members, NEW to \in Members \union Files \union {Nowhere}, Put(n, to)
      PROVE  BasesInv'
  BY <1>3, PutStep
<1>4. ASSUME NEW d \in Files, Close(d) \/ Settle(d) PROVE BasesInv'
  BY <1>4, CloseBasesStep, SettleStep
<1>5. ASSUME NEW d \in Files, NEW uri \in Addresses, SetURI(d, uri) \/ RebaseNest(d, uri)
      PROVE  BasesInv'
  BY <1>5, SetURIStep, RebaseNestStep
<1>6. CASE UNCHANGED basesVars
  BY <1>6, BasesStutters
<1> QED BY <1>1, <1>2, <1>3, <1>4, <1>5, <1>6 DEF BasesNext

\* In every reachable state no element is above itself, what has a base is flagged along
\* with its document, and the cache of every document that is not in setURI() holds what
\* its keys resolve to.
THEOREM BasesInvariant == BasesSpec => []BasesInv
<1>1. BasesInit => BasesInv
  BY BasesInitOK
<1>2. BasesInv /\ [BasesNext]_basesVars => BasesInv'
  BY BasesKeep
<1> QED BY <1>1, <1>2, PTL DEF BasesSpec

\* daeDoc::getBaseURI() returns the base that XML Base defines, for every element of every
\* document that is not in setURI(): its flags cut nothing short that matters, and what it
\* finds in the cache is what it would have resolved.
THEOREM CachesAgree == BasesSpec => []BasesResolve
<1>1. BasesInv => BasesResolve
  BY BasesInvResolves
<1> QED BY <1>1, BasesInvariant, PTL
=============================================================================
