--------------------------- MODULE ElementsProofs ---------------------------
(***************************************************************************)
(* The two directions of the tree agree, for any number of elements and    *)
(* documents.                                                              *)
(*                                                                         *)
(* Clearing an array vacates all that is below it, and it agrees only if   *)
(* the array's own element is not below itself.  So the inductive          *)
(* invariant has, next to OneSeat, that the tree is Grounded.              *)
(***************************************************************************)
EXTENDS Elements, TLAPS

-----------------------------------------------------------------------------
(* The inductive invariant *)

\* Content is in an array, if only by its pointer.
Parented == \A e \in content : parent[e] \in Holders

\* There is no cycle (nor an endless chain) of children: of some elements and
\* documents, at least one is not the child of another.
Grounded ==
  \A S \in SUBSET Holders : S # {} => \E x \in S : \A z \in S : x \notin kids[z]

IInv == TypeOK /\ OneSeat /\ Parented /\ Grounded
-----------------------------------------------------------------------------
(* Trees *)

\* getDocument() starts from the element, and goes on from content to its parent.
LEMMA AboveIsClosed ==
  ASSUME NEW x \in Holders
  PROVE  /\ x \in Above(x)
         /\ \A z \in Above(x) \intersect content : parent[z] \in Holders => parent[z] \in Above(x)
  BY DEF Above

\* A traversal starts from the element, and goes on to the children.
LEMMA SubtreeIsClosed ==
  ASSUME NEW x \in Holders, kids \in [Holders -> SUBSET Elements]
  PROVE  /\ x \in Subtree(x)
         /\ \A z \in Subtree(x) : kids[z] \subseteq Subtree(x)
<1>1. x \in Subtree(x)
  BY DEF Subtree
<1>2. ASSUME NEW z \in Subtree(x), NEW y \in kids[z]
      PROVE  y \in Subtree(x)
  <2>1. z \in Holders /\ y \in Holders
    BY <1>2 DEF Subtree, Holders
  <2>2. ASSUME NEW S \in SUBSET Holders, x \in S, \A v \in S : kids[v] \subseteq S
        PROVE  y \in S
    <3>1. z \in S
      BY <1>2, <2>2 DEF Subtree
    <3> QED
      BY <3>1, <2>2, <1>2
  <2> QED
    BY <2>1, <2>2 DEF Subtree
<1> QED
  BY <1>1, <1>2

\* What a traversal reaches below the element is a child of something that it reaches.
LEMMA BelowIsChild ==
  ASSUME NEW x \in Holders, kids \in [Holders -> SUBSET Elements],
         NEW y \in Below(x)
  PROVE  y \in Elements /\ \E z \in Subtree(x) : y \in kids[z]
<1> DEFINE S == Subtree(x) \ {y}
<1>1. /\ y \in Subtree(x) /\ y # x
      /\ Subtree(x) \in SUBSET Holders
  BY DEF Below, Subtree
<1>2. x \in S /\ S \in SUBSET Holders /\ y \notin S
  BY <1>1, SubtreeIsClosed
<1>3. ~ \A z \in S : kids[z] \subseteq S
  <2> SUFFICES ASSUME \A z \in S : kids[z] \subseteq S
               PROVE  FALSE
    OBVIOUS
  <2>1. \A T \in SUBSET Holders : x \in T /\ (\A z \in T : kids[z] \subseteq T) => y \in T
    BY <1>1 DEF Subtree
  <2> HIDE DEF S
  <2> QED
    BY <2>1, <1>2
<1>4. PICK z \in S : ~ (kids[z] \subseteq S)
  BY <1>3
<1>5. z \in Subtree(x) /\ kids[z] \subseteq Subtree(x)
  BY <1>4, SubtreeIsClosed
<1>6. y \in kids[z]
  BY <1>4, <1>5
<1> QED
  BY <1>6, <1>5, <1>1

LEMMA SubtreeOfElement ==
  ASSUME NEW e \in Elements, kids \in [Holders -> SUBSET Elements]
  PROVE  Subtree(e) \subseteq Elements
  BY BelowIsChild DEF Below, Holders

\* In a grounded tree, nothing is below itself.
LEMMA NothingBelowItself ==
  ASSUME NEW x \in Holders, kids \in [Holders -> SUBSET Elements], Grounded,
         NEW z \in Subtree(x)
  PROVE  x \notin kids[z]
<1> SUFFICES ASSUME x \in kids[z] PROVE FALSE
  OBVIOUS
<1>1. Subtree(x) \in SUBSET Holders /\ Subtree(x) # {}
  BY DEF Subtree
<1>2. PICK y \in Subtree(x) : \A v \in Subtree(x) : y \notin kids[v]
  BY <1>1 DEF Grounded
<1>3. y \in Below(x)
  BY <1>2 DEF Below
<1> QED
  BY <1>2, <1>3, BelowIsChild
-----------------------------------------------------------------------------
(* Steps of the tree *)

\* Taking children out of arrays makes no cycle.
LEMMA FewerKidsGrounded ==
  ASSUME Grounded, \A z \in Holders : kids'[z] \subseteq kids[z]
  PROVE  Grounded'
  BY DEF Grounded

\* Seating an element does not make a cycle, as it is not above its new parent.
LEMMA SeatGrounded ==
  ASSUME IInv, NEW h \in Holders, NEW e \in Elements, e \notin Above(h),
         kids' = Reseated(h, e)
  PROVE  Grounded'
<1>1. kids \in [Holders -> SUBSET Elements] /\ Holders' = Holders
  BY DEF IInv, TypeOK, Holders
<1>2. \A z \in Holders : \A x \in kids'[z] : IF x = e THEN z = h ELSE x \in kids[z]
  BY <1>1 DEF Reseated
<1> SUFFICES ASSUME NEW S \in SUBSET Holders, S # {},
                    \A x \in S : \E z \in S : x \in kids'[z]
             PROVE  FALSE
  BY <1>1 DEF Grounded
<1>3. CASE e \notin S
  <2>1. \A x \in S : \E z \in S : x \in kids[z]
    BY <1>2, <1>3
  <2> QED
    BY <2>1 DEF IInv, Grounded
<1>4. CASE e \in S
  <2> DEFINE T == S \intersect Above(h)
  <2>1. h \in S
    BY <1>2, <1>4
  <2>2. h \in T
    BY <2>1, AboveIsClosed
  <2>3. ASSUME NEW x \in T PROVE \E z \in T : x \in kids[z]
    <3>1. PICK z \in S : x \in kids'[z]
      OBVIOUS
    <3>2. x \in kids[z] /\ z \in Holders
      BY <3>1, <1>2
    <3>3. x \in content /\ parent[x] = z
      BY <3>2 DEF IInv, OneSeat
    <3>4. z \in Above(h)
      BY <3>2, <3>3, AboveIsClosed
    <3> QED
      BY <3>1, <3>2, <3>4
  <2>4. T \in SUBSET Holders /\ T # {}
    BY <2>2
  <2> HIDE DEF T
  <2> QED
    BY <2>3, <2>4 DEF IInv, Grounded
<1> QED
  BY <1>3, <1>4

\* The tree after an element is seated.
LEMMA Seating ==
  ASSUME IInv, NEW h \in Holders, NEW e \in Elements, e \notin Above(h),
         Seat(h, e), UNCHANGED leaked
  PROVE  /\ (OneSeat /\ Parented /\ Grounded)'
         /\ parent' \in [Elements -> Holders \union {Nothing}]
         /\ content' \subseteq Elements
         /\ kids' \in [Holders -> SUBSET Elements]
         /\ vacant' \subseteq Holders
         /\ touched' \subseteq Elements
<1>1. /\ kids \in [Holders -> SUBSET Elements] /\ Holders' = Holders
      /\ parent \in [Elements -> Holders \union {Nothing}]
      /\ content \subseteq Elements /\ vacant \subseteq Holders /\ touched \subseteq Elements
  BY DEF IInv, TypeOK, Holders
<1>2. Grounded'
  BY SeatGrounded DEF Seat
<1>3. /\ parent' \in [Elements -> Holders \union {Nothing}]
      /\ parent'[e] = h /\ \A x \in Elements \ {e} : parent'[x] = parent[x]
  BY <1>1 DEF Seat
<1>4. /\ kids' \in [Holders -> SUBSET Elements]
      /\ e \in kids'[h]
      /\ \A z \in Holders : \A x \in Elements \ {e} : x \in kids'[z] <=> x \in kids[z]
      /\ \A z \in Holders : e \in kids'[z] => z = h
  BY <1>1 DEF Seat, Reseated
<1>5. content' = content \union {e}
  BY DEF Seat
<1>6. Parented'
  BY <1>1, <1>3, <1>5 DEF IInv, Parented
<1>7. OneSeat'
  <2>1. ASSUME NEW g \in Holders, NEW x \in kids'[g] PROVE x \in content' /\ parent'[x] = g
    BY <2>1, <1>1, <1>3, <1>4, <1>5 DEF IInv, OneSeat
  <2>2. ASSUME NEW x \in content' \ leaked PROVE x \in kids'[parent'[x]]
    BY <2>2, <1>1, <1>3, <1>4, <1>5 DEF IInv, OneSeat, Parented
  <2> QED
    BY <2>1, <2>2, <1>1 DEF OneSeat
<1>8. vacant' \subseteq Holders /\ touched' \subseteq Elements
  BY <1>1 DEF Seat
<1> QED
  BY <1>1, <1>2, <1>3, <1>4, <1>5, <1>6, <1>7, <1>8

\* The tree after an element and what it held has been taken out, by an operation
\* or by removeChildElement.
LEMMA Emptying ==
  ASSUME IInv, NEW e \in Elements, kids' = Emptied(e), UNCHANGED parent,
         \/ content' = content \ {e} /\ UNCHANGED leaked
         \/ UNCHANGED content /\ leaked' = leaked \union {e}
  PROVE  /\ (OneSeat /\ Parented /\ Grounded)'
         /\ content' \subseteq Elements
         /\ kids' \in [Holders -> SUBSET Elements]
<1>1. /\ kids \in [Holders -> SUBSET Elements] /\ Holders' = Holders
      /\ content \subseteq Elements
  BY DEF IInv, TypeOK, Holders
<1>2. /\ kids' \in [Holders -> SUBSET Elements]
      /\ \A z \in Holders : kids'[z] = kids[z] \ {e}
  BY <1>1 DEF Emptied
<1>3. Grounded'
  BY <1>2, FewerKidsGrounded DEF IInv
<1>4. Parented'
  BY <1>1 DEF IInv, Parented
<1>5. OneSeat'
  <2>1. ASSUME NEW g \in Holders, NEW x \in kids'[g] PROVE x \in content' /\ parent'[x] = g
    BY <2>1, <1>2 DEF IInv, OneSeat
  <2>2. ASSUME NEW x \in content' \ leaked' PROVE x \in kids'[parent'[x]]
    BY <2>2, <1>2 DEF IInv, OneSeat, Parented
  <2> QED
    BY <2>1, <2>2, <1>1 DEF OneSeat
<1> QED
  BY <1>1, <1>2, <1>3, <1>4, <1>5

\* The tree after an array and all below it has been cleared.
LEMMA Clearing ==
  ASSUME IInv, NEW h \in Holders, Cleared(h)
  PROVE  /\ (OneSeat /\ Parented /\ Grounded)'
         /\ content' \subseteq Elements
         /\ kids' \in [Holders -> SUBSET Elements]
         /\ vacant' \subseteq Holders
<1>1. /\ kids \in [Holders -> SUBSET Elements] /\ Holders' = Holders
      /\ content \subseteq Elements /\ vacant \subseteq Holders
  BY DEF IInv, TypeOK, Holders
<1>2. /\ content' = content \ Below(h) /\ vacant' = vacant \ Subtree(h)
      /\ UNCHANGED <<parent, leaked>>
  BY DEF Cleared
<1>3. /\ kids' \in [Holders -> SUBSET Elements]
      /\ \A z \in Subtree(h) : z \in Holders => kids'[z] = {}
      /\ \A z \in Holders \ Subtree(h) : kids'[z] = kids[z]
  BY <1>1 DEF Cleared
<1>4. Grounded'
  BY <1>1, <1>3, FewerKidsGrounded DEF IInv
<1>5. Parented'
  BY <1>1, <1>2 DEF IInv, Parented
<1>6. OneSeat'
  <2>1. ASSUME NEW g \in Holders, NEW x \in kids'[g] PROVE x \in content' /\ parent'[x] = g
    <3>1. g \notin Subtree(h) /\ x \in kids[g]
      BY <2>1, <1>3
    <3>2. x \in content /\ parent[x] = g
      BY <3>1 DEF IInv, OneSeat
    <3>3. x \notin Below(h)
      <4> SUFFICES ASSUME x \in Below(h) PROVE FALSE
        OBVIOUS
      <4>1. PICK z \in Subtree(h) : x \in kids[z]
        BY <1>1, BelowIsChild
      <4>2. z \in Holders
        BY DEF Subtree
      <4>3. parent[x] = z
        BY <4>1, <4>2 DEF IInv, OneSeat
      <4> QED
        BY <4>3, <3>1, <3>2
    <3> QED
      BY <3>2, <3>3, <1>2
  <2>2. ASSUME NEW x \in content' \ leaked' PROVE x \in kids'[parent'[x]]
    <3>1. x \in content /\ x \notin Below(h) /\ x \in kids[parent[x]] /\ parent[x] \in Holders
      BY <2>2, <1>2 DEF IInv, OneSeat, Parented
    <3>2. parent[x] \notin Subtree(h)
      <4> SUFFICES ASSUME parent[x] \in Subtree(h) PROVE FALSE
        OBVIOUS
      <4>1. x \in Subtree(h)
        BY <3>1, <1>1, SubtreeIsClosed
      <4>2. x = h
        BY <4>1, <3>1 DEF Below
      <4> QED
        BY <4>2, <3>1, <1>1, NothingBelowItself DEF IInv
    <3> QED
      BY <3>1, <3>2, <1>2, <1>3
  <2> QED
    BY <2>1, <2>2, <1>1 DEF OneSeat
<1> QED
  BY <1>1, <1>2, <1>3, <1>4, <1>5, <1>6
-----------------------------------------------------------------------------
(* Types of the maps *)

\* A document is a document, or null.
LEMMA DocTyping ==
  ASSUME NEW x
  PROVE  Doc(x) \in Documents \union {Nothing}
  BY DEF Doc

LEMMA HomeTyping ==
  ASSUME NEW h \in Holders
  PROVE  Home(h) \in Documents \union {Nothing}
  BY DocTyping DEF Home

\* Migration leaves maps of the elements.
LEMMA MigrationTyping ==
  ASSUME TypeOK, NEW a, NEW b, NEW S \in SUBSET Elements, Migrate(a, b, S)
  PROVE  /\ idMap' \in [Documents -> [IDs -> Elements \union {Nothing}]]
         /\ sidMap' \in [Documents -> SUBSET (SIDs \X Elements)]
         /\ b \in Documents \union {Nothing} => reported' \subseteq Documents \X IDs
<1>1. idMap' \in [Documents -> [IDs -> Elements \union {Nothing}]]
  <2>1. PICK last \in [IDs -> S \union {Nothing}] :
          idMap' = [d \in Documents |-> [i \in IDs |->
                     IF d = b /\ last[i] # Nothing THEN last[i]
                       ELSE IF ErasedFrom(a, b, d, S, i) THEN Nothing ELSE idMap[d][i]]]
    BY DEF Migrate
  <2>2. ASSUME NEW d \in Documents, NEW i \in IDs
        PROVE  /\ last[i] \in Elements \union {Nothing}
               /\ idMap[d][i] \in Elements \union {Nothing}
    BY DEF TypeOK
  <2> QED
    BY <2>1, <2>2
<1>2. sidMap' \in [Documents -> SUBSET (SIDs \X Elements)]
  <2> DEFINE Pairs == {p \in SIDs \X S : p[1] = sid[p[2]]}
  <2>1. Pairs \subseteq SIDs \X Elements
    OBVIOUS
  <2>2. sidMap' = [d \in Documents |->
           (sidMap[d] \ (IF d = a THEN Pairs ELSE {}))
             \union (IF d = b THEN Pairs ELSE {})]
    BY DEF Migrate
  <2> HIDE DEF Pairs
  <2>3. ASSUME NEW d \in Documents PROVE sidMap[d] \subseteq SIDs \X Elements
    BY DEF TypeOK
  <2>4. ASSUME NEW d \in Documents
        PROVE  (sidMap[d] \ (IF d = a THEN Pairs ELSE {})) \union (IF d = b THEN Pairs ELSE {})
                 \in SUBSET (SIDs \X Elements)
    BY <2>1, <2>3
  <2> QED
    BY <2>2, <2>4
<1>3. b \in Documents \union {Nothing} => reported' \subseteq Documents \X IDs
  <2>1. b \in Documents \union {Nothing} => Clashes(b, S) \subseteq Documents \X IDs
    BY DEF Clashes
  <2> QED
    BY <2>1 DEF Migrate, TypeOK
<1> QED
  BY <1>1, <1>2, <1>3

LEMMA DelistedTyping ==
  ASSUME TypeOK, NEW d, NEW S
  PROVE  Delisted(d, S) \in [Documents -> SUBSET Elements]
  BY DEF TypeOK, Delisted
-----------------------------------------------------------------------------
(* Steps of the program *)

\* The program stops.
LEMMA HaltPreserves ==
  ASSUME IInv, NEW fault \in Faults, Halt(fault),
         assigning' \in (Holders \X Elements) \union {Nothing}
  PROVE  IInv'
<1>1. TypeOK'
  BY DEF IInv, TypeOK, Halt, seats, maps, types, Holders
<1> QED
  BY <1>1 DEF IInv, OneSeat, Parented, Grounded, Halt, seats, Holders

\* What typing asks of the steps that seat or take out elements.
LEMMA StepTyping ==
  ASSUME TypeOK, UNCHANGED <<id, sid, entries, enabled, leaked, halted>>,
         parent' \in [Elements -> Holders \union {Nothing}],
         content' \subseteq Elements,
         kids' \in [Holders -> SUBSET Elements],
         vacant' \subseteq Holders,
         touched' \subseteq Elements,
         idMap' \in [Documents -> [IDs -> Elements \union {Nothing}]],
         sidMap' \in [Documents -> SUBSET (SIDs \X Elements)],
         reported' \subseteq Documents \X IDs,
         typeMap' \in [Documents -> SUBSET Elements],
         assigning' \in (Holders \X Elements) \union {Nothing}
  PROVE  TypeOK'
  BY DEF TypeOK, Holders

\* An insertion, of an element that is in no array.
LEMMA AttachPreserves ==
  ASSUME IInv, NEW h \in Holders, NEW e \in Elements, Attach(h, e),
         assigning' \in (Holders \X Elements) \union {Nothing}
  PROVE  IInv'
<1>1. CASE AttachFault(h, e) # Nothing /\ Halt(AttachFault(h, e))
  <2>1. AttachFault(h, e) \in Faults
    BY <1>1 DEF AttachFault, Faults
  <2> QED
    BY <2>1, <1>1, HaltPreserves
<1>2. CASE /\ AttachFault(h, e) = Nothing
           /\ Seat(h, e)
           /\ Migrate(Nothing, Home(h), Subtree(e))
           /\ UNCHANGED <<id, sid, types, leaked, halted>>
  <2>1. e \notin Above(h)
    BY <1>2, ElementsAssumption DEF AttachFault, Faults
  <2>2. UNCHANGED leaked /\ UNCHANGED <<id, sid, entries, typeMap, enabled, halted>>
    BY <1>2 DEF types
  <2>3. Seat(h, e) /\ Migrate(Nothing, Home(h), Subtree(e))
    BY <1>2
  <2>4. Subtree(e) \in SUBSET Elements /\ TypeOK
    BY SubtreeOfElement DEF IInv, TypeOK
  <2>5. TypeOK'
    BY <2>1, <2>2, <2>3, <2>4, Seating, MigrationTyping, HomeTyping, StepTyping DEF TypeOK
  <2> QED
    BY <2>1, <2>2, <2>3, <2>5, Seating DEF IInv
<1> QED
  BY <1>1, <1>2 DEF Attach

\* An element comes from another array, or another place in its array.
LEMMA MovePreserves ==
  ASSUME IInv, NEW h \in Holders, NEW e \in Elements, NEW crosses, Move(h, e, crosses),
         assigning' \in (Holders \X Elements) \union {Nothing}
  PROVE  IInv'
<1>1. CASE MoveFault(h, e, crosses) # Nothing /\ Halt(MoveFault(h, e, crosses))
  <2>1. MoveFault(h, e, crosses) \in Faults
    BY <1>1 DEF MoveFault, Faults
  <2> QED
    BY <2>1, <1>1, HaltPreserves
<1>2. CASE /\ MoveFault(h, e, crosses) = Nothing
           /\ Seat(h, e)
           /\ IF Doc(e) = Home(h) THEN UNCHANGED maps
              ELSE Migrate(Doc(e), Home(h), Subtree(e))
           /\ UNCHANGED <<id, sid, types, leaked, halted>>
  <2>1. e \notin Above(h)
    BY <1>2, ElementsAssumption DEF MoveFault, Faults
  <2>2. UNCHANGED leaked /\ UNCHANGED <<id, sid, entries, typeMap, enabled, halted>>
    BY <1>2 DEF types
  <2>3. Seat(h, e)
    BY <1>2
  <2>4. Subtree(e) \in SUBSET Elements /\ TypeOK
    BY SubtreeOfElement DEF IInv, TypeOK
  <2>5. /\ idMap' \in [Documents -> [IDs -> Elements \union {Nothing}]]
        /\ sidMap' \in [Documents -> SUBSET (SIDs \X Elements)]
        /\ reported' \subseteq Documents \X IDs
    <3>1. CASE UNCHANGED maps
      BY <3>1, <2>4 DEF maps, TypeOK
    <3>2. CASE Migrate(Doc(e), Home(h), Subtree(e))
      BY <3>2, <2>4, MigrationTyping, HomeTyping
    <3> QED
      BY <1>2, <3>1, <3>2
  <2>6. TypeOK'
    BY <2>1, <2>2, <2>3, <2>4, <2>5, Seating, StepTyping DEF TypeOK
  <2> QED
    BY <2>1, <2>2, <2>3, <2>6, Seating DEF IInv
<1> QED
  BY <1>1, <1>2 DEF Move

\* A removal, or the vacation of a slot.
LEMMA DetachPreserves ==
  ASSUME IInv, NEW e \in Elements, NEW placeholders \in SUBSET Holders,
         Detach(e, placeholders),
         assigning' \in (Holders \X Elements) \union {Nothing}
  PROVE  IInv'
<1>1. /\ kids' = Emptied(e) /\ content' = content \ {e}
      /\ vacant' = vacant \union placeholders
      /\ Migrate(Doc(e), Nothing, Subtree(e))
      /\ typeMap' = IF Watched(e) THEN Delisted(Doc(e), Subtree(e)) ELSE typeMap
      /\ UNCHANGED <<parent, touched, id, sid, entries, enabled, leaked, halted>>
  BY DEF Detach
<1>2. UNCHANGED <<parent, leaked>> /\ TypeOK
  BY <1>1 DEF IInv
<1>3. /\ (OneSeat /\ Parented /\ Grounded)'
      /\ content' \subseteq Elements
      /\ kids' \in [Holders -> SUBSET Elements]
  BY <1>1, <1>2, Emptying
<1>4. Subtree(e) \in SUBSET Elements
  BY <1>2, SubtreeOfElement DEF TypeOK
<1>5. /\ idMap' \in [Documents -> [IDs -> Elements \union {Nothing}]]
      /\ sidMap' \in [Documents -> SUBSET (SIDs \X Elements)]
      /\ reported' \subseteq Documents \X IDs
  BY <1>1, <1>2, <1>4, MigrationTyping
<1>6. typeMap' \in [Documents -> SUBSET Elements]
  BY <1>1, <1>2, DelistedTyping DEF TypeOK
<1>7. /\ UNCHANGED <<id, sid, entries, enabled, leaked, halted>>
      /\ parent' \in [Elements -> Holders \union {Nothing}]
      /\ vacant' \subseteq Holders /\ touched' \subseteq Elements
  BY <1>1, <1>2 DEF TypeOK
<1>8. TypeOK'
  BY <1>2, <1>3, <1>5, <1>6, <1>7, StepTyping
<1> QED
  BY <1>3, <1>8 DEF IInv

\* removeChildElement, of a child.
LEMMA RemoveChildPreserves ==
  ASSUME IInv, NEW e \in Elements, RemoveChild(e)
  PROVE  IInv'
<1>1. /\ kids' = Emptied(e) /\ leaked' = leaked \union {e}
      /\ UNCHANGED <<parent, content, vacant, touched, id, sid, idMap, sidMap, reported,
                     entries, typeMap, enabled, assigning, halted>>
  BY DEF RemoveChild, maps, types
<1>2. /\ (OneSeat /\ Parented /\ Grounded)'
      /\ kids' \in [Holders -> SUBSET Elements]
  BY <1>1, Emptying
<1>3. TypeOK'
  BY <1>1, <1>2 DEF IInv, TypeOK, Holders
<1> QED
  BY <1>2, <1>3 DEF IInv

\* clear(), and the end of a document's contents.
LEMMA ClearPreserves ==
  ASSUME IInv, NEW h \in Holders, Clear(h)
  PROVE  IInv'
<1> DEFINE d == Doc(h)
           listed == {x \in Below(h) : TypeOf[x] \in enabled}
<1>1. UNCHANGED assigning /\ TypeOK
  BY DEF Clear, IInv
<1>2. CASE Halt("not listed")
  BY <1>1, <1>2, HaltPreserves DEF Faults, IInv, TypeOK
<1>3. CASE /\ Cleared(h)
           /\ Migrate(Home(h), Nothing, Below(h))
           /\ typeMap' = Delisted(d, listed)
           /\ UNCHANGED entries
  <2>1. Below(h) \in SUBSET Elements
    BY <1>1, BelowIsChild DEF TypeOK
  <2>2. /\ idMap' \in [Documents -> [IDs -> Elements \union {Nothing}]]
        /\ sidMap' \in [Documents -> SUBSET (SIDs \X Elements)]
        /\ reported' \subseteq Documents \X IDs
    BY <1>1, <1>3, <2>1, MigrationTyping
  <2>3. typeMap' \in [Documents -> SUBSET Elements]
    BY <1>1, <1>3, DelistedTyping
  <2>4. UNCHANGED <<parent, touched, id, sid, entries, enabled, leaked, halted>>
    BY <1>3 DEF Cleared
  <2>5. TypeOK'
    BY <1>1, <1>3, <2>2, <2>3, <2>4, Clearing, StepTyping DEF TypeOK
  <2> QED
    BY <1>3, <2>5, Clearing DEF IInv
<1> QED
  BY <1>2, <1>3 DEF Clear

LEMMA UnloadPreserves ==
  ASSUME IInv, NEW d \in Documents, Unload(d)
  PROVE  IInv'
<1>1. d \in Holders /\ Cleared(d) /\ TypeOK
  BY DEF Unload, Holders, IInv
<1>2. /\ UNCHANGED <<parent, touched, id, sid, enabled, leaked, halted, reported, assigning>>
      /\ idMap' = [idMap EXCEPT ![d] = [i \in IDs |-> Nothing]]
      /\ sidMap' = [sidMap EXCEPT ![d] = {}]
      /\ typeMap' = [typeMap EXCEPT ![d] = {}]
      /\ entries' = [entries EXCEPT ![d] = {}]
  BY <1>1 DEF Unload, Cleared
<1>3. TypeOK'
  BY <1>1, <1>2, Clearing DEF TypeOK, Holders
<1> QED
  BY <1>1, <1>3, Clearing DEF IInv

\* The steps that leave the tree alone.
LEMMA SameTree ==
  ASSUME IInv, UNCHANGED <<parent, content, kids, leaked>>, TypeOK'
  PROVE  IInv'
  BY DEF IInv, OneSeat, Parented, Grounded, Holders

LEMMA PlaceholderPreserves ==
  ASSUME IInv, NEW h \in Holders, AddPlaceholder(h) \/ RemovePlaceholder(h)
  PROVE  IInv'
<1>1. UNCHANGED assigning /\ TypeOK
  BY DEF AddPlaceholder, RemovePlaceholder, IInv
<1>2. CASE Halt("null element")
  BY <1>1, <1>2, HaltPreserves DEF Faults, TypeOK
<1>3. CASE ~Halt("null element")
  <2>1. /\ vacant' \subseteq Holders /\ touched' \subseteq Elements
        /\ UNCHANGED <<parent, content, kids, id, sid, idMap, sidMap, reported,
                       entries, typeMap, enabled, leaked, halted>>
    BY <1>1, <1>3 DEF AddPlaceholder, RemovePlaceholder, TypeOK, maps, types
  <2>2. TypeOK'
    BY <1>1, <2>1 DEF TypeOK, Holders
  <2> QED
    BY <2>1, <2>2, SameTree
<1> QED
  BY <1>2, <1>3

LEMMA SetIdPreserves ==
  ASSUME IInv, NEW e \in Elements, NEW new \in IDs \union {Nothing}, SetId(e, new)
  PROVE  IInv'
<1>1. /\ UNCHANGED <<parent, content, kids, vacant, touched, sid, sidMap,
                     entries, typeMap, enabled, assigning, leaked, halted>>
      /\ id' = [id EXCEPT ![e] = new] /\ TypeOK
  BY DEF SetId, seats, types, IInv
<1>2. /\ idMap' \in [Documents -> [IDs -> Elements \union {Nothing}]]
      /\ reported' \subseteq Documents \X IDs
  <2>1. CASE Doc(e) = Nothing
    BY <2>1, <1>1 DEF SetId, TypeOK
  <2>2. CASE Doc(e) # Nothing
    <3> DEFINE d == Doc(e)
    <3>1. d \in Documents
      BY <2>2, DocTyping
    <3>2. /\ idMap' = [idMap EXCEPT ![d] =
                 [i \in IDs |-> IF i = new THEN e ELSE ErasedIn(d, e)[i]]]
          /\ reported' = IF Taken(d, e, new)
                         THEN reported \union {<<d, new>>} ELSE reported
      BY <2>2 DEF SetId
    <3>3. [i \in IDs |-> IF i = new THEN e ELSE ErasedIn(d, e)[i]]
            \in [IDs -> Elements \union {Nothing}]
      BY <1>1, <3>1 DEF TypeOK, ErasedIn
    <3>4. Taken(d, e, new) => new \in IDs
      BY DEF Taken
    <3> HIDE DEF d
    <3> QED
      BY <1>1, <3>1, <3>2, <3>3, <3>4 DEF TypeOK
  <2> QED
    BY <2>1, <2>2
<1>3. TypeOK'
  BY <1>1, <1>2 DEF TypeOK, Holders
<1> QED
  BY <1>1, <1>3, SameTree

LEMMA SetSidPreserves ==
  ASSUME IInv, NEW e \in Elements, NEW new \in SIDs \union {Nothing}, SetSid(e, new)
  PROVE  IInv'
<1>1. /\ UNCHANGED <<parent, content, kids, vacant, touched, id, idMap, reported,
                     entries, typeMap, enabled, assigning, leaked, halted>>
      /\ sid' = [sid EXCEPT ![e] = new] /\ TypeOK
  BY DEF SetSid, seats, types, IInv
<1>2. sidMap' \in [Documents -> SUBSET (SIDs \X Elements)]
  <2>1. ({new} \ {Nothing}) \X {e} \subseteq SIDs \X Elements
    OBVIOUS
  <2>2. ASSUME NEW d \in Documents PROVE sidMap[d] \subseteq SIDs \X Elements
    BY <1>1 DEF TypeOK
  <2> QED
    BY <2>1, <2>2 DEF SetSid
<1>3. TypeOK'
  BY <1>1, <1>2 DEF TypeOK, Holders
<1> QED
  BY <1>1, <1>3, SameTree

LEMMA TypeLookupPreserves ==
  ASSUME IInv, NEW d \in Documents, NEW T \in LookedUp, TypeLookup(d, T)
  PROVE  IInv'
<1>1. /\ UNCHANGED <<parent, content, kids, vacant, touched, id, sid, idMap, sidMap,
                     reported, assigning, leaked, halted>>
      /\ entries' = [entries EXCEPT ![d] = @ \union {T}]
      /\ typeMap' = [typeMap EXCEPT ![d] = @ \union {x \in Below(d) : TypeOf[x] = T}]
      /\ enabled' = enabled \union {T}
      /\ TypeOK
  BY DEF TypeLookup, seats, maps, IInv
<1>2. Below(d) \subseteq Elements
  BY <1>1, BelowIsChild DEF TypeOK, Holders
<1>3. TypeOK'
  BY <1>1, <1>2, ElementsAssumption DEF TypeOK, Holders
<1> QED
  BY <1>1, <1>3, SameTree

\* Every fault of a removal is one of the faults.
LEMMA DetachHaltPreserves ==
  ASSUME IInv, NEW e \in Elements, DetachFault(e) # Nothing, Halt(DetachFault(e)),
         UNCHANGED assigning
  PROVE  IInv'
<1>1. DetachFault(e) \in Faults
  BY DEF DetachFault, Faults
<1> QED
  BY <1>1, HaltPreserves DEF IInv, TypeOK

\* _setWID vacates a slot; the next child is kept for the second half.
LEMMA VacatePreserves ==
  ASSUME IInv, NEW e \in Elements, NEW next \in Elements \union {Nothing}, Vacate(e, next)
  PROVE  IInv'
<1>1. CASE DetachFault(e) # Nothing /\ Halt(DetachFault(e)) /\ UNCHANGED assigning
  BY <1>1, DetachHaltPreserves
<1>2. CASE /\ Detach(e, {parent[e]})
           /\ assigning' = IF next = Nothing THEN Nothing ELSE <<parent[e], next>>
  <2>1. parent[e] \in Holders
    BY DEF Vacate, IInv, Parented
  <2>2. assigning' \in (Holders \X Elements) \union {Nothing}
    BY <1>2, <2>1
  <2> QED
    BY <1>2, <2>1, <2>2, DetachPreserves
<1> QED
  BY <1>1, <1>2 DEF Vacate

LEMMA RemovePreserves ==
  ASSUME IInv, NEW e \in Elements, RemoveWID(e)
  PROVE  IInv'
<1>1. UNCHANGED assigning /\ assigning' \in (Holders \X Elements) \union {Nothing}
  BY DEF RemoveWID, IInv, TypeOK
<1> QED
  BY <1>1, DetachHaltPreserves, DetachPreserves DEF RemoveWID

LEMMA PlacePreserves ==
  ASSUME IInv, NEW h \in Holders, NEW e \in Elements, Place(h, e)
  PROVE  IInv'
<1>1. assigning' \in (Holders \X Elements) \union {Nothing}
  BY DEF Place, IInv, TypeOK
<1> QED
  BY <1>1, AttachPreserves, MovePreserves DEF Place, MoveElement, MoveContent

LEMMA AssignPreserves ==
  ASSUME IInv, Assign
  PROVE  IInv'
<1> DEFINE h == assigning[1]
           e == assigning[2]
<1>1. h \in Holders /\ e \in Elements /\ assigning' = Nothing /\ TypeOK
  BY DEF Assign, Idle, IInv, TypeOK
<1>2. CASE Attach(h, e) \/ MoveElement(h, e)
  BY <1>1, <1>2, AttachPreserves, MovePreserves DEF MoveElement
<1>3. CASE UNCHANGED <<seats, id, sid, maps, types, leaked, halted>>
  <2>1. TypeOK'
    BY <1>1, <1>3 DEF TypeOK, seats, maps, types, Holders
  <2> QED
    BY <1>3, <2>1, SameTree DEF seats
<1> QED
  BY <1>2, <1>3 DEF Assign
-----------------------------------------------------------------------------
(* Theorems *)

\* Nothing is in an array at first.
LEMMA Initially == Init => IInv
<1> SUFFICES ASSUME Init PROVE IInv
  OBVIOUS
<1>1. TypeOK
  BY DEF Init, TypeOK
<1>2. \A z \in Holders : kids[z] = {}
  BY DEF Init
<1>3. content = {}
  BY DEF Init
<1> QED
  BY <1>1, <1>2, <1>3 DEF IInv, OneSeat, Parented, Grounded

\* The steps of the program keep the tree as it should be.
LEMMA Stepwise == IInv /\ [Next]_vars => IInv'
<1> SUFFICES ASSUME IInv, [Next]_vars PROVE IInv'
  OBVIOUS
<1>1. CASE Change
  BY <1>1, PlacePreserves, RemovePreserves, RemoveChildPreserves, VacatePreserves,
     AssignPreserves, PlaceholderPreserves, ClearPreserves, UnloadPreserves DEF Change
<1>2. CASE Attribute
  BY <1>2, SetIdPreserves, SetSidPreserves DEF Attribute
<1>3. CASE \E d \in Documents, T \in LookedUp : TypeLookup(d, T)
  BY <1>3, TypeLookupPreserves
<1>4. CASE UNCHANGED vars
  <2>1. TypeOK'
    BY <1>4 DEF vars, seats, maps, types, IInv, TypeOK, Holders
  <2> QED
    BY <1>4, <2>1, SameTree DEF vars, seats
<1> QED
  BY <1>1, <1>2, <1>3, <1>4 DEF Next

\* Through insertions, moves, removals and clearing, the tree stays grounded and agrees.
THEOREM TreeInductive == Spec => []IInv
  BY Initially, Stepwise, PTL DEF Spec

\* The state is of its type: no map ever names a thing that is no element.
THEOREM TreeTyping == Spec => []TypeOK
<1>1. IInv => TypeOK
  BY DEF IInv
<1> QED
  BY <1>1, TreeInductive, PTL

\* Every child is in the one array of the parent that it points to, and content is in
\* its parent's array, but for what removeChildElement has left behind.
THEOREM SeatedOnce == Spec => []OneSeat
<1>1. IInv => OneSeat
  BY DEF IInv
<1> QED
  BY <1>1, TreeInductive, PTL

\* No chain of parents runs in a circle: getDocument() and the traversals of an array
\* that has no placeholders come to an end.
THEOREM NoCycles == Spec => []Grounded
<1>1. IInv => Grounded
  BY DEF IInv
<1> QED
  BY <1>1, TreeInductive, PTL
-----------------------------------------------------------------------------
(***************************************************************************)
(* The id and sid maps say what is in a document, for any number of        *)
(* elements, documents, ids and sids.                                      *)
(*                                                                         *)
(* getDocument() is determined by the tree, one step up at a time: an      *)
(* assignment of documents to elements that agrees with every such step    *)
(* is Doc itself (LEMMA Determination).  So the document of every element  *)
(* after a step is known once a formula for it is shown to agree.          *)
(***************************************************************************)
(* What getDocument() returns *)

Placements == [Elements -> Documents \union {Nothing}]

\* D agrees with the tree, one step up at a time.
Agrees(D) ==
  \A x \in Elements :
    D[x] = IF x \notin content THEN Nothing
           ELSE IF parent[x] \in Documents THEN parent[x] ELSE D[parent[x]]

Determined == \A D \in Placements : Agrees(D) => \A x \in Elements : D[x] = Doc(x)

\* What is above an element that is no content, or a document: itself.
LEMMA AboveRoot ==
  ASSUME NEW x \in Holders, x \notin content
  PROVE  Above(x) = {x}
<1>1. ASSUME NEW y \in Above(x) PROVE y = x
  <2> DEFINE S == {x}
  <2>1. S \in SUBSET Holders /\ x \in S /\ \A z \in S \intersect content : parent[z] \in S
    OBVIOUS
  <2>2. y \in S
    BY <1>1, <2>1 DEF Above
  <2> QED
    BY <2>2
<1> QED
  BY <1>1, AboveIsClosed

\* What is above content: itself, and what is above its parent.
LEMMA AboveContent ==
  ASSUME IInv, NEW x \in Elements, x \in content
  PROVE  parent[x] \in Holders /\ Above(x) = {x} \union Above(parent[x])
<1>1. x \in Holders /\ parent[x] \in Holders
  BY DEF IInv, Parented, Holders
<1>2. ASSUME NEW y \in Above(x) PROVE y \in {x} \union Above(parent[x])
  <2> DEFINE S == {x} \union Above(parent[x])
  <2>1. S \in SUBSET Holders /\ x \in S
    BY <1>1 DEF Above
  <2>2. ASSUME NEW z \in S \intersect content PROVE parent[z] \in S
    <3>1. parent[z] \in Holders
      BY <2>2 DEF IInv, Parented
    <3> QED
      BY <3>1, <1>1, AboveIsClosed
  <2> HIDE DEF S
  <2>3. y \in S
    BY <1>2, <2>1, <2>2 DEF Above
  <2> QED
    BY <2>3 DEF S
<1>3. ASSUME NEW y \in Above(parent[x]) PROVE y \in Above(x)
  <2>1. y \in Holders
    BY <1>3 DEF Above
  <2>2. ASSUME NEW T \in SUBSET Holders, x \in T, \A z \in T \intersect content : parent[z] \in T
        PROVE  y \in T
    <3>1. parent[x] \in T
      BY <2>2
    <3> QED
      BY <3>1, <2>2, <1>3 DEF Above
  <2> QED
    BY <2>1, <2>2 DEF Above
<1> QED
  BY <1>1, <1>2, <1>3, AboveIsClosed

\* getDocument() of an element: null if it is no content; else its parent, if that is a
\* document; else that of its parent.
LEMMA DocStep ==
  ASSUME IInv, NEW x \in Elements
  PROVE  Doc(x) = IF x \notin content THEN Nothing
                  ELSE IF parent[x] \in Documents THEN parent[x] ELSE Doc(parent[x])
<1>1. x \in Holders /\ x \notin Documents
  BY ElementsAssumption DEF Holders
<1>2. CASE x \notin content
  BY <1>1, <1>2, AboveRoot DEF Doc
<1>3. CASE x \in content
  <2>1. parent[x] \in Holders /\ Above(x) = {x} \union Above(parent[x])
    BY <1>3, AboveContent
  <2>2. Above(x) \intersect Documents = Above(parent[x]) \intersect Documents
    BY <2>1, <1>1
  <2>3. CASE parent[x] \in Documents
    <3>1. parent[x] \notin content
      BY <2>3, ElementsAssumption DEF IInv, TypeOK
    <3>2. Above(x) \intersect Documents = {parent[x]}
      BY <2>1, <2>2, <2>3, <3>1, AboveRoot
    <3>3. \A d \in Documents : d \in Above(x) <=> d = parent[x]
      BY <3>2
    <3>4. (CHOOSE d \in Documents : d \in Above(x)) = parent[x]
      BY <3>3, <2>3
    <3> QED
      BY <3>2, <3>4, <2>3, <1>3 DEF Doc
  <2>4. CASE parent[x] \in Elements
    <3>1. \A d \in Documents : d \in Above(x) <=> d \in Above(parent[x])
      BY <2>2
    <3>2. (CHOOSE d \in Documents : d \in Above(x))
            = (CHOOSE d \in Documents : d \in Above(parent[x]))
      BY <3>1
    <3>3. parent[x] \notin Documents
      BY <2>4, ElementsAssumption
    <3> QED
      BY <2>2, <3>2, <3>3, <2>4, <1>3 DEF Doc
  <2> QED
    BY <2>1, <2>3, <2>4 DEF Holders
<1> QED
  BY <1>2, <1>3

\* There is one assignment only that agrees with the tree, as the tree is grounded.
LEMMA Determination == IInv /\ leaked = {} => Determined
<1> SUFFICES ASSUME IInv, leaked = {}, NEW D \in Placements, Agrees(D), NEW x \in Elements
             PROVE  D[x] = Doc(x)
  BY DEF Determined
<1> DEFINE S == {y \in Elements : D[y] # Doc(y)}
<1>1. SUFFICES ASSUME S # {} PROVE FALSE
  BY <1>1
<1>2. S \in SUBSET Holders
  BY DEF Holders
<1>3. PICK y \in S : \A z \in S : y \notin kids[z]
  BY <1>1, <1>2 DEF IInv, Grounded
<1>4. y \in content
  <2> SUFFICES ASSUME y \notin content PROVE FALSE
    OBVIOUS
  <2>1. Doc(y) = Nothing
    BY DocStep
  <2>2. D[y] = Nothing
    BY DEF Agrees
  <2> QED
    BY <2>1, <2>2
<1>5. parent[y] \in Holders /\ y \in kids[parent[y]]
  BY <1>4 DEF IInv, OneSeat, Parented
<1>6. parent[y] \notin Documents
  BY <1>4, DocStep DEF Agrees
<1>7. parent[y] \in Elements /\ D[parent[y]] = Doc(parent[y])
  BY <1>3, <1>5, <1>6 DEF Holders
<1>8. D[y] = D[parent[y]]
  BY <1>4, <1>6 DEF Agrees
<1>9. Doc(y) = Doc(parent[y])
  BY <1>4, <1>6, DocStep
<1> QED
  BY <1>3, <1>7, <1>8, <1>9

\* The same, after a step.
LEMMA DeterminationAfter ==
  ASSUME IInv', leaked' = {}, NEW D \in Placements, Agrees(D)', NEW x \in Elements
  PROVE  Doc(x)' = D[x]
<1>1. (IInv /\ leaked = {} => Determined)'
  BY Determination, PTL
<1>2. Determined'
  BY <1>1
<1> QED
  BY <1>2 DEF Determined, Placements

\* The document of what is in a subtree is that of its top.
LEMMA DocOfSubtree ==
  ASSUME IInv, leaked = {}, NEW h \in Holders, NEW x \in Below(h)
  PROVE  Doc(x) = Home(h)
<1> DEFINE S == {y \in Subtree(h) : y = h \/ Doc(y) = Home(h)}
<1>1. kids \in [Holders -> SUBSET Elements]
  BY DEF IInv, TypeOK
<1>2. S \in SUBSET Holders /\ h \in S
  BY <1>1, SubtreeIsClosed DEF Subtree
<1>3. ASSUME NEW z \in S, NEW y \in kids[z] PROVE y \in S
  <2>1. z \in Holders /\ y \in Subtree(h) /\ y \in Elements
    BY <1>1, <1>2, <1>3, SubtreeIsClosed DEF Subtree
  <2>2. y \in content /\ parent[y] = z
    BY <2>1, <1>3 DEF IInv, OneSeat
  <2>3. Doc(y) = IF z \in Documents THEN z ELSE Doc(z)
    BY <2>1, <2>2, DocStep
  <2>4. CASE z = h
    BY <2>1, <2>3, <2>4 DEF Home
  <2>5. CASE z # h
    <3>1. Doc(z) = Home(h) /\ z \in Below(h)
      BY <2>5, <1>3 DEF Below
    <3>2. z \in Elements
      BY <3>1, <1>1, BelowIsChild
    <3> QED
      BY <3>1, <3>2, <2>1, <2>3, ElementsAssumption
  <2> QED
    BY <2>4, <2>5
<1>4. x \in Subtree(h) /\ x # h
  BY DEF Below
<1> HIDE DEF S
<1>5. x \in S
  BY <1>2, <1>3, <1>4 DEF Subtree
<1> QED
  BY <1>4, <1>5 DEF S

LEMMA DocInSubtree ==
  ASSUME IInv, leaked = {}, NEW e \in Elements, NEW x \in Subtree(e)
  PROVE  Doc(x) = Doc(e)
<1>1. e \in Holders /\ Home(e) = Doc(e)
  BY ElementsAssumption DEF Home, Holders
<1> QED
  BY <1>1, DocOfSubtree DEF Below

\* What has a document is below it.
LEMMA InDocument ==
  ASSUME IInv, leaked = {}, NEW d \in Documents, NEW x \in Elements, Doc(x) = d
  PROVE  x \in Below(d)
<1> DEFINE S == {y \in Elements : Doc(y) = d /\ y \notin Subtree(d)}
<1>1. kids \in [Holders -> SUBSET Elements] /\ d \in Holders
  BY DEF IInv, TypeOK, Holders
<1>2. SUFFICES S = {}
  <2>1. x \in Subtree(d) /\ x # d
    BY <1>2, ElementsAssumption
  <2> QED
    BY <2>1 DEF Below
<1>3. SUFFICES ASSUME S # {} PROVE FALSE
  BY <1>3
<1>4. S \in SUBSET Holders
  BY DEF Holders
<1>5. PICK y \in S : \A z \in S : y \notin kids[z]
  BY <1>3, <1>4 DEF IInv, Grounded
<1>6. y \in content /\ Doc(y) = IF parent[y] \in Documents THEN parent[y] ELSE Doc(parent[y])
  BY <1>5, DocStep, ElementsAssumption DEF Holders
<1>7. parent[y] \in Holders /\ y \in kids[parent[y]]
  BY <1>6 DEF IInv, OneSeat, Parented
<1>8. parent[y] \notin Subtree(d)
  BY <1>1, <1>5, <1>7, SubtreeIsClosed
<1>9. parent[y] # d
  BY <1>1, <1>8, SubtreeIsClosed
<1>10. parent[y] \in Elements /\ Doc(parent[y]) = d
  BY <1>5, <1>6, <1>7, <1>9 DEF Holders
<1> QED
  BY <1>5, <1>7, <1>8, <1>10

\* What is below an element has it above.
LEMMA SubtreeIsBelow ==
  ASSUME IInv, NEW e \in Holders, NEW x \in Subtree(e)
  PROVE  e \in Above(x)
<1> DEFINE S == {y \in Subtree(e) : e \in Above(y)}
<1>1. kids \in [Holders -> SUBSET Elements]
  BY DEF IInv, TypeOK
<1>2. S \in SUBSET Holders /\ e \in S
  BY <1>1, SubtreeIsClosed, AboveIsClosed DEF Subtree
<1>3. ASSUME NEW z \in S, NEW y \in kids[z] PROVE y \in S
  <2>1. z \in Holders /\ y \in Subtree(e) /\ y \in Elements
    BY <1>1, <1>2, <1>3, SubtreeIsClosed DEF Subtree
  <2>2. y \in content /\ parent[y] = z
    BY <2>1, <1>3 DEF IInv, OneSeat
  <2> QED
    BY <2>1, <2>2, <1>3, AboveContent
<1> HIDE DEF S
<1>4. x \in S
  BY <1>2, <1>3 DEF Subtree
<1> QED
  BY <1>4 DEF S
-----------------------------------------------------------------------------
(* What getDocument() returns after a step *)

\* The elements of S go to document b, all others stay where they are.
Transferred(S, b) == [x \in Elements |-> IF x \in S THEN b ELSE Doc(x)]

LEMMA TransferTyping ==
  ASSUME NEW S, NEW b \in Documents \union {Nothing}
  PROVE  Transferred(S, b) \in Placements
  BY DocTyping DEF Transferred, Placements

\* A seated subtree is in the document of its new place.
LEMMA DocAfterSeat ==
  ASSUME IInv, IInv', leaked = {}, UNCHANGED leaked,
         NEW h \in Holders, NEW e \in Elements, e \notin Above(h), Seat(h, e),
         NEW x \in Elements
  PROVE  Doc(x)' = IF x \in Subtree(e) THEN Home(h) ELSE Doc(x)
<1>1. PICK D \in Placements : D = Transferred(Subtree(e), Home(h))
  BY HomeTyping, TransferTyping
<1>2. /\ kids \in [Holders -> SUBSET Elements] /\ e \in Holders
      /\ parent \in [Elements -> Holders \union {Nothing}]
  BY DEF IInv, TypeOK, Holders
<1>3. /\ content' = content \union {e}
      /\ parent'[e] = h /\ \A y \in Elements \ {e} : parent'[y] = parent[y]
  BY <1>2 DEF Seat
<1>4. h \notin Subtree(e)
  BY <1>2, SubtreeIsBelow
<1>5. ASSUME NEW y \in Elements
      PROVE  D[y] = IF y \notin content' THEN Nothing
                    ELSE IF parent'[y] \in Documents THEN parent'[y] ELSE D[parent'[y]]
  <2>1. CASE y = e
    <3>1. e \in Subtree(e) /\ D[y] = Home(h)
      BY <1>2, <2>1, <1>1, SubtreeIsClosed DEF Transferred
    <3>2. h \notin Documents => h \in Elements /\ D[h] = Doc(h)
      BY <1>1, <1>4 DEF Transferred, Holders
    <3> QED
      BY <3>1, <3>2, <1>3, <2>1 DEF Home
  <2>2. CASE y # e /\ y \in Subtree(e)
    <3>1. PICK z \in Subtree(e) : y \in kids[z]
      BY <1>2, <2>2, BelowIsChild DEF Below
    <3>2. z \in Elements /\ z \in Holders
      BY <1>2, SubtreeOfElement DEF Holders
    <3>3. y \in content /\ parent[y] = z
      BY <3>1, <3>2 DEF IInv, OneSeat
    <3> QED
      BY <3>2, <3>3, <2>2, <1>1, <1>3, ElementsAssumption DEF Transferred
  <2>3. CASE y \notin Subtree(e)
    <3>1. y # e
      BY <1>2, <2>3, SubtreeIsClosed
    <3>2. D[y] = Doc(y)
      BY <1>1, <2>3 DEF Transferred
    <3>3. CASE y \notin content
      BY <3>1, <3>2, <3>3, <1>3, DocStep
    <3>4. CASE y \in content
      <4>1. parent[y] \in Holders /\ y \in kids[parent[y]]
        BY <3>4 DEF IInv, OneSeat, Parented
      <4>2. parent[y] \notin Subtree(e)
        BY <4>1, <1>2, <2>3, SubtreeIsClosed
      <4>3. parent[y] \notin Documents => D[parent[y]] = Doc(parent[y])
        BY <1>1, <4>1, <4>2 DEF Transferred, Holders
      <4> QED
        BY <4>3, <3>1, <3>2, <3>4, <1>3, DocStep
    <3> QED
      BY <3>3, <3>4
  <2> QED
    BY <2>1, <2>2, <2>3
<1>6. Agrees(D)'
  BY <1>5 DEF Agrees
<1>7. Doc(x)' = D[x]
  BY <1>1, <1>6, DeterminationAfter
<1> QED
  BY <1>1, <1>7 DEF Transferred

\* A subtree that was taken out has no document.
LEMMA DocAfterDetach ==
  ASSUME IInv, IInv', leaked = {}, UNCHANGED <<parent, leaked>>,
         NEW e \in Elements, content' = content \ {e},
         NEW x \in Elements
  PROVE  Doc(x)' = IF x \in Subtree(e) THEN Nothing ELSE Doc(x)
<1>1. PICK D \in Placements : D = Transferred(Subtree(e), Nothing)
  BY TransferTyping
<1>2. kids \in [Holders -> SUBSET Elements] /\ e \in Holders
  BY DEF IInv, TypeOK, Holders
<1>3. ASSUME NEW y \in Elements
      PROVE  D[y] = IF y \notin content' THEN Nothing
                    ELSE IF parent'[y] \in Documents THEN parent'[y] ELSE D[parent'[y]]
  <2>1. CASE y = e
    BY <1>1, <1>2, <2>1, SubtreeIsClosed DEF Transferred
  <2>2. CASE y # e /\ y \in Subtree(e)
    <3>1. PICK z \in Subtree(e) : y \in kids[z]
      BY <1>2, <2>2, BelowIsChild DEF Below
    <3>2. z \in Elements /\ z \in Holders
      BY <1>2, SubtreeOfElement DEF Holders
    <3>3. y \in content /\ parent[y] = z
      BY <3>1, <3>2 DEF IInv, OneSeat
    <3> QED
      BY <3>2, <3>3, <2>2, <1>1, ElementsAssumption DEF Transferred
  <2>3. CASE y \notin Subtree(e)
    <3>1. y # e
      BY <1>2, <2>3, SubtreeIsClosed
    <3>2. D[y] = Doc(y)
      BY <1>1, <2>3 DEF Transferred
    <3>3. CASE y \notin content
      BY <3>1, <3>2, <3>3, DocStep
    <3>4. CASE y \in content
      <4>1. parent[y] \in Holders /\ y \in kids[parent[y]]
        BY <3>4 DEF IInv, OneSeat, Parented
      <4>2. parent[y] \notin Subtree(e)
        BY <4>1, <1>2, <2>3, SubtreeIsClosed
      <4>3. parent[y] \notin Documents => D[parent[y]] = Doc(parent[y])
        BY <1>1, <4>1, <4>2 DEF Transferred, Holders
      <4> QED
        BY <4>3, <3>1, <3>2, <3>4, DocStep
    <3> QED
      BY <3>3, <3>4
  <2> QED
    BY <2>1, <2>2, <2>3
<1>4. Agrees(D)'
  BY <1>3 DEF Agrees
<1>5. Doc(x)' = D[x]
  BY <1>4, DeterminationAfter
<1> QED
  BY <1>1, <1>5 DEF Transferred

\* What was below an array that has been cleared has no document.
LEMMA DocAfterClear ==
  ASSUME IInv, IInv', leaked = {}, NEW h \in Holders, Cleared(h), NEW x \in Elements
  PROVE  Doc(x)' = IF x \in Below(h) THEN Nothing ELSE Doc(x)
<1>1. PICK D \in Placements : D = Transferred(Below(h), Nothing)
  BY TransferTyping
<1>2. /\ kids \in [Holders -> SUBSET Elements]
      /\ content' = content \ Below(h) /\ UNCHANGED <<parent, leaked>>
  BY DEF IInv, TypeOK, Cleared
<1>3. ASSUME NEW y \in Elements
      PROVE  D[y] = IF y \notin content' THEN Nothing
                    ELSE IF parent'[y] \in Documents THEN parent'[y] ELSE D[parent'[y]]
  <2>1. CASE y \in Below(h)
    BY <1>1, <1>2, <2>1 DEF Transferred
  <2>2. CASE y \notin Below(h)
    <3>1. D[y] = Doc(y)
      BY <1>1, <2>2 DEF Transferred
    <3>2. CASE y \notin content
      BY <3>1, <3>2, <1>2, DocStep
    <3>3. CASE y \in content
      <4>1. parent[y] \in Holders /\ y \in kids[parent[y]]
        BY <3>3 DEF IInv, OneSeat, Parented
      <4>2. ASSUME parent[y] \in Subtree(h) PROVE FALSE
        <5>1. y \in Subtree(h)
          BY <4>1, <4>2, <1>2, SubtreeIsClosed
        <5>2. y = h
          BY <5>1, <2>2 DEF Below
        <5> QED
          BY <5>2, <4>1, <4>2, <1>2, NothingBelowItself DEF IInv
      <4>3. parent[y] \notin Documents => D[parent[y]] = Doc(parent[y])
        BY <1>1, <4>1, <4>2 DEF Transferred, Holders, Below
      <4> QED
        BY <4>3, <3>1, <3>3, <2>2, <1>2, DocStep
    <3> QED
      BY <3>2, <3>3
  <2> QED
    BY <2>1, <2>2
<1>4. Agrees(D)'
  BY <1>3 DEF Agrees
<1>5. Doc(x)' = D[x]
  BY <1>2, <1>4, DeterminationAfter
<1> QED
  BY <1>1, <1>5 DEF Transferred
-----------------------------------------------------------------------------
(* Migration *)

\* The maps of a document, as long as removeChildElement has not been used.
SidsOf == \A d \in Documents :
  sidMap[d] = {p \in SIDs \X Elements : sid[p[2]] = p[1] /\ Doc(p[2]) = d}

IdsOf == \A d \in Documents, i \in IDs :
  idMap[d][i] # Nothing => Doc(idMap[d][i]) = d /\ id[idMap[d][i]] = i

FoundOf == \A e \in Elements :
  Doc(e) # Nothing /\ id[e] # Nothing /\ <<Doc(e), id[e]>> \notin reported =>
    idMap[Doc(e)][id[e]] = e

MapsOf == SidsOf /\ IdsOf /\ FoundOf

\* The sids of what moves from one document to another follow it.
LEMMA SidsFollow ==
  ASSUME TypeOK, SidsOf, NEW S \in SUBSET Elements,
         NEW a \in Documents \union {Nothing}, NEW b \in Documents \union {Nothing},
         Migrate(a, b, S), UNCHANGED sid,
         \A x \in S : Doc(x) = a,
         \A x \in Elements : Doc(x)' = IF x \in S THEN b ELSE Doc(x)
  PROVE  SidsOf'
<1> DEFINE Pairs == {p \in SIDs \X S : p[1] = sid[p[2]]}
<1>1. \A d \in Documents : sidMap'[d] =
           (sidMap[d] \ (IF d = a THEN Pairs ELSE {}))
             \union (IF d = b THEN Pairs ELSE {})
  BY DEF Migrate
<1>2. SUFFICES ASSUME NEW d \in Documents
               PROVE  sidMap'[d] =
                 {p \in SIDs \X Elements : sid[p[2]] = p[1] /\ Doc(p[2])' = d}
  BY <1>2 DEF SidsOf
<1>3. sidMap[d] = {p \in SIDs \X Elements : sid[p[2]] = p[1] /\ Doc(p[2]) = d}
  BY DEF SidsOf
<1>4. sidMap'[d] =
           (sidMap[d] \ (IF d = a THEN Pairs ELSE {}))
             \union (IF d = b THEN Pairs ELSE {})
  BY <1>1
<1>5. sidMap'[d] \subseteq SIDs \X Elements
  BY <1>3, <1>4
<1>6. ASSUME NEW s \in SIDs, NEW x \in Elements
      PROVE  <<s, x>> \in sidMap'[d] <=> sid[x] = s /\ Doc(x)' = d
  <2>1. <<s, x>> \in sidMap[d] <=> sid[x] = s /\ Doc(x) = d
    BY <1>3
  <2>2. <<s, x>> \in Pairs <=> x \in S /\ sid[x] = s
    OBVIOUS
  <2> HIDE DEF Pairs
  <2> QED
    BY <2>1, <2>2, <1>4
<1> QED
  BY <1>5, <1>6

\* The ids follow too, and no entry stays behind: erasing by key may take the entry of
\* another element away, but it does not leave one.
LEMMA IdsFollow ==
  ASSUME TypeOK, IdsOf, NEW S \in SUBSET Elements,
         NEW a \in Documents \union {Nothing}, NEW b \in Documents \union {Nothing},
         Migrate(a, b, S), UNCHANGED id,
         \A x \in S : Doc(x) = a,
         \A x \in Elements : Doc(x)' = IF x \in S THEN b ELSE Doc(x)
  PROVE  IdsOf'
<1>1. PICK last \in [IDs -> S \union {Nothing}] :
        /\ \A i \in IDs : last[i] \in LastEntered(S, i)
        /\ idMap' = [d \in Documents |-> [i \in IDs |->
             IF d = b /\ last[i] # Nothing THEN last[i]
               ELSE IF ErasedFrom(a, b, d, S, i) THEN Nothing ELSE idMap[d][i]]]
  BY DEF Migrate
<1>2. SUFFICES ASSUME NEW d \in Documents, NEW i \in IDs, idMap'[d][i] # Nothing
               PROVE  \E e \in Elements : e = idMap'[d][i] /\ Doc(e)' = d /\ id[e] = i
  BY <1>2 DEF IdsOf
<1>3. CASE d = b /\ last[i] # Nothing
  <2>1. last[i] \in S /\ id[last[i]] = i
    BY <1>1, <1>3, ElementsAssumption DEF LastEntered, WithID
  <2>2. idMap'[d][i] = last[i]
    BY <1>1, <1>3
  <2> QED
    BY <2>1, <2>2, <1>3
<1>4. CASE ~(d = b /\ last[i] # Nothing)
  <2>1. ~ErasedFrom(a, b, d, S, i) /\ idMap'[d][i] = idMap[d][i]
    BY <1>1, <1>2, <1>4
  <2>2. PICK e \in Elements : e = idMap[d][i]
    BY <1>2, <2>1 DEF TypeOK
  <2>3. Doc(e) = d /\ id[e] = i
    BY <1>2, <2>1, <2>2 DEF IdsOf
  <2>4. e \notin S
    BY <2>1, <2>3 DEF ErasedFrom, WithID
  <2> QED
    BY <2>1, <2>2, <2>3, <2>4
<1> QED
  BY <1>3, <1>4

\* What is not found is what the destination reported.
LEMMA FoundFollows ==
  ASSUME TypeOK, FoundOf, NEW S \in SUBSET Elements,
         NEW a \in Documents \union {Nothing}, NEW b \in Documents \union {Nothing},
         Migrate(a, b, S), UNCHANGED id,
         \A x \in S : Doc(x) = a,
         \A x \in Elements : Doc(x)' = IF x \in S THEN b ELSE Doc(x)
  PROVE  FoundOf'
<1>1. PICK last \in [IDs -> S \union {Nothing}] :
        /\ \A i \in IDs : last[i] \in LastEntered(S, i)
        /\ idMap' = [d \in Documents |-> [i \in IDs |->
             IF d = b /\ last[i] # Nothing THEN last[i]
               ELSE IF ErasedFrom(a, b, d, S, i) THEN Nothing ELSE idMap[d][i]]]
  BY DEF Migrate
<1>2. reported' = reported \union Clashes(b, S)
  BY DEF Migrate
<1>3. SUFFICES ASSUME NEW e \in Elements, NEW d \in Documents, NEW i \in IDs,
                      Doc(e)' = d, id[e] = i, <<d, i>> \notin reported'
               PROVE  idMap'[d][i] = e
  <2>1. ASSUME NEW e \in Elements, Doc(e)' # Nothing, id[e] # Nothing
        PROVE  Doc(e)' \in Documents /\ id[e] \in IDs
    BY <2>1, DocTyping DEF TypeOK
  <2> QED
    BY <1>3, <2>1 DEF FoundOf
<1>4. <<d, i>> \notin reported /\ <<d, i>> \notin Clashes(b, S)
  BY <1>2, <1>3
<1>5. d = b => \A x \in WithID(S, i) : idMap[d][i] = Nothing /\ \A y \in WithID(S, i) : y = x
  BY <1>4, ElementsAssumption DEF Clashes, Holders
<1>6. last[i] # Nothing => last[i] \in WithID(S, i)
  BY <1>1 DEF LastEntered
<1>7. CASE e \in S
  <2>1. d = b /\ e \in WithID(S, i)
    BY <1>3, <1>7 DEF WithID
  <2>2. last[i] # Nothing
    <3>1. last[i] \in WithID(S, i)
      BY <1>1, <2>1 DEF LastEntered
    <3> QED
      BY <3>1, ElementsAssumption DEF WithID, Holders
  <2>3. last[i] = e
    BY <1>5, <1>6, <2>1, <2>2
  <2> QED
    BY <1>1, <2>1, <2>2, <2>3
<1>8. CASE e \notin S
  <2>1. Doc(e) = d
    BY <1>3, <1>8
  <2>2. idMap[d][i] = e /\ e # Nothing
    BY <1>3, <1>4, <2>1, ElementsAssumption DEF FoundOf, Holders
  <2>3. ~(d = b /\ last[i] # Nothing)
    BY <1>5, <1>6, <2>2
  <2>4. ~ErasedFrom(a, b, d, S, i)
    <3> SUFFICES ASSUME d = a, NEW x \in WithID(S, i) PROVE FALSE
      BY DEF ErasedFrom
    <3>1. x \in Elements /\ Doc(x) = d /\ id[x] = i
      BY DEF WithID
    <3>2. idMap[d][i] = x
      BY <3>1, <1>4, ElementsAssumption DEF FoundOf, Holders
    <3> QED
      BY <3>2, <2>2, <1>8 DEF WithID
  <2> QED
    BY <1>1, <2>2, <2>3, <2>4
<1> QED
  BY <1>7, <1>8

\* All three, for a migration from where the elements are to where they go.
LEMMA MapsFollow ==
  ASSUME IInv, MapsOf, NEW S \in SUBSET Elements,
         NEW a \in Documents \union {Nothing}, NEW b \in Documents \union {Nothing},
         Migrate(a, b, S), UNCHANGED <<id, sid>>,
         \A x \in S : Doc(x) = a,
         \A x \in Elements : Doc(x)' = IF x \in S THEN b ELSE Doc(x)
  PROVE  MapsOf'
  BY SidsFollow, IdsFollow, FoundFollows DEF MapsOf, IInv
-----------------------------------------------------------------------------
(* Steps of the program *)

LEMMA SameDoc ==
  ASSUME UNCHANGED <<parent, content>>, NEW x \in Elements
  PROVE  Doc(x)' = Doc(x)
  BY DEF Doc, Above, Holders

\* Nothing moves, and the maps are left alone.
LEMMA SameMaps ==
  ASSUME TypeOK, MapsOf, UNCHANGED <<id, sid, idMap, sidMap, reported>>,
         \A x \in Elements : Doc(x)' = Doc(x)
  PROVE  MapsOf'
<1>1. SidsOf'
  BY DEF MapsOf, SidsOf
<1>2. IdsOf'
  <2>1. \A d \in Documents, i \in IDs : idMap[d][i] \in Elements \union {Nothing}
    BY DEF TypeOK
  <2> QED
    BY <2>1 DEF MapsOf, IdsOf
<1>3. FoundOf'
  BY DEF MapsOf, FoundOf
<1> QED
  BY <1>1, <1>2, <1>3 DEF MapsOf

LEMMA SameTreeSameMaps ==
  ASSUME IInv, MapsOf, UNCHANGED <<parent, content, id, sid, idMap, sidMap, reported>>
  PROVE  MapsOf'
  BY SameDoc, SameMaps DEF IInv

LEMMA HaltMaps ==
  ASSUME IInv, MapsOf, NEW fault, Halt(fault)
  PROVE  MapsOf'
  BY SameTreeSameMaps DEF Halt, seats, maps

LEMMA AttachMaps ==
  ASSUME IInv, IInv', leaked = {}, MapsOf, NEW h \in Holders, NEW e \in Elements, Attach(h, e)
  PROVE  MapsOf'
<1>1. CASE Halt(AttachFault(h, e))
  BY <1>1, HaltMaps
<1>2. CASE /\ AttachFault(h, e) = Nothing
           /\ Seat(h, e)
           /\ Migrate(Nothing, Home(h), Subtree(e))
           /\ UNCHANGED <<id, sid, types, leaked, halted>>
  <2>1. e \notin Above(h)
    BY <1>2, ElementsAssumption DEF AttachFault, Faults
  <2>2. Subtree(e) \in SUBSET Elements
    BY SubtreeOfElement DEF IInv, TypeOK
  <2>3. Doc(e) = Nothing
    BY DocStep DEF Attach
  <2>4. \A x \in Subtree(e) : Doc(x) = Nothing
    BY <2>3, DocInSubtree
  <2>5. \A x \in Elements : Doc(x)' = IF x \in Subtree(e) THEN Home(h) ELSE Doc(x)
    BY <1>2, <2>1, DocAfterSeat
  <2> QED
    BY <1>2, <2>2, <2>4, <2>5, HomeTyping, MapsFollow
<1> QED
  BY <1>1, <1>2 DEF Attach

LEMMA MoveMaps ==
  ASSUME IInv, IInv', leaked = {}, MapsOf,
         NEW h \in Holders, NEW e \in Elements, NEW crosses, Move(h, e, crosses)
  PROVE  MapsOf'
<1>1. CASE Halt(MoveFault(h, e, crosses))
  BY <1>1, HaltMaps
<1>2. CASE /\ MoveFault(h, e, crosses) = Nothing
           /\ Seat(h, e)
           /\ IF Doc(e) = Home(h) THEN UNCHANGED maps
              ELSE Migrate(Doc(e), Home(h), Subtree(e))
           /\ UNCHANGED <<id, sid, types, leaked, halted>>
  <2>1. e \notin Above(h)
    BY <1>2, ElementsAssumption DEF MoveFault, Faults
  <2>2. Subtree(e) \in SUBSET Elements
    BY SubtreeOfElement DEF IInv, TypeOK
  <2>3. \A x \in Subtree(e) : Doc(x) = Doc(e)
    BY DocInSubtree
  <2>4. \A x \in Elements : Doc(x)' = IF x \in Subtree(e) THEN Home(h) ELSE Doc(x)
    BY <1>2, <2>1, DocAfterSeat
  <2>5. CASE Doc(e) = Home(h)
    <3>1. \A x \in Elements : Doc(x)' = Doc(x)
      BY <2>3, <2>4, <2>5
    <3> QED
      BY <1>2, <2>5, <3>1, SameMaps DEF maps, IInv
  <2>6. CASE Doc(e) # Home(h)
    BY <1>2, <2>2, <2>3, <2>4, <2>6, HomeTyping, DocTyping, MapsFollow
  <2> QED
    BY <2>5, <2>6
<1> QED
  BY <1>1, <1>2 DEF Move

LEMMA DetachMaps ==
  ASSUME IInv, IInv', leaked = {}, MapsOf,
         NEW e \in Elements, NEW placeholders, Detach(e, placeholders)
  PROVE  MapsOf'
<1>1. /\ content' = content \ {e} /\ UNCHANGED <<parent, leaked>>
      /\ Migrate(Doc(e), Nothing, Subtree(e)) /\ UNCHANGED <<id, sid>>
  BY DEF Detach
<1>2. Subtree(e) \in SUBSET Elements
  BY SubtreeOfElement DEF IInv, TypeOK
<1>3. \A x \in Subtree(e) : Doc(x) = Doc(e)
  BY DocInSubtree
<1>4. \A x \in Elements : Doc(x)' = IF x \in Subtree(e) THEN Nothing ELSE Doc(x)
  BY <1>1, DocAfterDetach
<1> QED
  BY <1>1, <1>2, <1>3, <1>4, DocTyping, MapsFollow

LEMMA ClearMaps ==
  ASSUME IInv, IInv', leaked = {}, MapsOf, NEW h \in Holders, Clear(h)
  PROVE  MapsOf'
<1>1. CASE Halt("not listed")
  BY <1>1, HaltMaps
<1>2. CASE Cleared(h) /\ Migrate(Home(h), Nothing, Below(h))
  <2>1. Below(h) \in SUBSET Elements
    BY BelowIsChild DEF IInv, TypeOK
  <2>2. \A x \in Below(h) : Doc(x) = Home(h)
    BY DocOfSubtree
  <2>3. \A x \in Elements : Doc(x)' = IF x \in Below(h) THEN Nothing ELSE Doc(x)
    BY <1>2, DocAfterClear
  <2>4. UNCHANGED <<id, sid>>
    BY <1>2 DEF Cleared
  <2> QED
    BY <1>2, <2>1, <2>2, <2>3, <2>4, HomeTyping, MapsFollow
<1> QED
  BY <1>1, <1>2 DEF Clear

LEMMA UnloadMaps ==
  ASSUME IInv, IInv', leaked = {}, MapsOf, NEW d \in Documents, Unload(d)
  PROVE  MapsOf'
<1>1. /\ d \in Holders /\ Cleared(d) /\ TypeOK /\ UNCHANGED <<id, sid, reported>>
      /\ idMap' = [idMap EXCEPT ![d] = [i \in IDs |-> Nothing]]
      /\ sidMap' = [sidMap EXCEPT ![d] = {}]
  BY DEF Unload, Cleared, Holders, IInv
<1>2. \A x \in Elements : Doc(x)' = IF Doc(x) = d THEN Nothing ELSE Doc(x)
  <2>1. \A x \in Below(d) : Doc(x) = d
    BY <1>1, DocOfSubtree DEF Home
  <2> QED
    BY <1>1, <2>1, InDocument, DocAfterClear
<1>3. d # Nothing
  BY <1>1, ElementsAssumption
<1>4. /\ sidMap'[d] = {} /\ \A c \in Documents \ {d} : sidMap'[c] = sidMap[c]
      /\ \A i \in IDs : idMap'[d][i] = Nothing
      /\ \A c \in Documents \ {d} : idMap'[c] = idMap[c]
  BY <1>1 DEF TypeOK
<1>5. SidsOf'
  <2> SUFFICES ASSUME NEW c \in Documents
               PROVE  sidMap'[c] =
                 {p \in SIDs \X Elements : sid[p[2]] = p[1] /\ Doc(p[2])' = c}
    BY <1>1 DEF SidsOf
  <2>1. \A x \in Elements : Doc(x)' = c <=> c # d /\ Doc(x) = c
    BY <1>2, ElementsAssumption DEF Holders
  <2> QED
    BY <1>4, <2>1 DEF MapsOf, SidsOf
<1>6. IdsOf'
  <2> SUFFICES ASSUME NEW c \in Documents, NEW i \in IDs, idMap'[c][i] # Nothing
               PROVE  \E e \in Elements : e = idMap'[c][i] /\ Doc(e)' = c /\ id[e] = i
    BY <1>1 DEF IdsOf
  <2>1. c # d /\ idMap'[c][i] = idMap[c][i]
    BY <1>4
  <2>2. PICK e \in Elements : e = idMap[c][i]
    BY <1>1, <2>1 DEF TypeOK
  <2>3. Doc(e) = c /\ id[e] = i
    BY <2>1, <2>2 DEF MapsOf, IdsOf
  <2> QED
    BY <1>2, <2>1, <2>2, <2>3
<1>7. FoundOf'
  <2> SUFFICES ASSUME NEW e \in Elements, Doc(e)' # Nothing, id[e] # Nothing,
                      <<Doc(e)', id[e]>> \notin reported
               PROVE  idMap'[Doc(e)'][id[e]] = e
    BY <1>1 DEF FoundOf
  <2>1. Doc(e)' = Doc(e) /\ Doc(e) # d /\ Doc(e) \in Documents
    BY <1>2, DocTyping
  <2> QED
    BY <1>4, <2>1 DEF MapsOf, FoundOf
<1> QED
  BY <1>5, <1>6, <1>7 DEF MapsOf

\* An attribute change: the entry of the old id is erased by key.
LEMMA SetIdMaps ==
  ASSUME IInv, MapsOf, NEW e \in Elements, NEW new \in IDs \union {Nothing}, SetId(e, new)
  PROVE  MapsOf'
<1>1. /\ UNCHANGED <<parent, content, sid, sidMap>> /\ TypeOK
      /\ id' = [id EXCEPT ![e] = new]
  BY DEF SetId, seats, IInv
<1>2. \A x \in Elements : Doc(x)' = Doc(x)
  BY <1>1, SameDoc
<1>3. id'[e] = new /\ \A x \in Elements \ {e} : id'[x] = id[x]
  BY <1>1 DEF TypeOK
<1>4. SidsOf'
  BY <1>1, <1>2 DEF MapsOf, SidsOf
<1>5. CASE Doc(e) = Nothing
  <2>1. UNCHANGED <<idMap, reported>>
    BY <1>5 DEF SetId
  <2>2. IdsOf'
    <3> SUFFICES ASSUME NEW c \in Documents, NEW i \in IDs, idMap[c][i] # Nothing
                 PROVE  \E x \in Elements : x = idMap[c][i] /\ Doc(x)' = c /\ id'[x] = i
      BY <2>1 DEF IdsOf
    <3>1. PICK x \in Elements : x = idMap[c][i]
      BY <1>1 DEF TypeOK
    <3>2. Doc(x) = c /\ id[x] = i
      BY <3>1 DEF MapsOf, IdsOf
    <3>3. x # e
      BY <3>2, <1>5, ElementsAssumption DEF Holders
    <3> QED
      BY <3>1, <3>2, <3>3, <1>2, <1>3
  <2>3. FoundOf'
    <3> SUFFICES ASSUME NEW x \in Elements, Doc(x)' # Nothing, id'[x] # Nothing,
                        <<Doc(x)', id'[x]>> \notin reported
                 PROVE  idMap[Doc(x)'][id'[x]] = x
      BY <2>1 DEF FoundOf
    <3>1. x # e /\ Doc(x)' = Doc(x)
      BY <1>2, <1>5
    <3> QED
      BY <3>1, <1>3 DEF MapsOf, FoundOf
  <2> QED
    BY <1>4, <2>2, <2>3 DEF MapsOf
<1>6. CASE Doc(e) # Nothing
  <2>1. PICK d \in Documents : d = Doc(e)
    BY <1>6, DocTyping
  <2>2. /\ idMap' = [idMap EXCEPT ![d] =
             [i \in IDs |-> IF i = new THEN e ELSE ErasedIn(d, e)[i]]]
        /\ reported' = IF Taken(d, e, new) THEN reported \union {<<d, new>>} ELSE reported
    BY <1>6, <2>1 DEF SetId
  <2>3. /\ \A c \in Documents \ {d} : idMap'[c] = idMap[c]
        /\ \A i \in IDs : idMap'[d][i] = IF i = new THEN e
                                         ELSE IF i = id[e] THEN Nothing ELSE idMap[d][i]
    BY <2>2, <1>1 DEF TypeOK, ErasedIn
  <2>4. IdsOf'
    <3> SUFFICES ASSUME NEW c \in Documents, NEW i \in IDs, idMap'[c][i] # Nothing
                 PROVE  \E x \in Elements : x = idMap'[c][i] /\ Doc(x)' = c /\ id'[x] = i
      BY DEF IdsOf
    <3>1. CASE c = d /\ i = new
      BY <3>1, <2>1, <2>3, <1>2, <1>3
    <3>2. CASE ~(c = d /\ i = new)
      <4>1. idMap'[c][i] = idMap[c][i] /\ ~(c = d /\ i = id[e])
        BY <3>2, <2>3
      <4>2. PICK x \in Elements : x = idMap[c][i]
        BY <4>1, <1>1 DEF TypeOK
      <4>3. Doc(x) = c /\ id[x] = i
        BY <4>1, <4>2 DEF MapsOf, IdsOf
      <4>4. x # e
        BY <4>1, <4>3, <2>1
      <4> QED
        BY <4>1, <4>2, <4>3, <4>4, <1>2, <1>3
    <3> QED
      BY <3>1, <3>2
  <2>5. FoundOf'
    <3> SUFFICES ASSUME NEW x \in Elements, Doc(x)' # Nothing, id'[x] # Nothing,
                        <<Doc(x)', id'[x]>> \notin reported'
                 PROVE  idMap'[Doc(x)'][id'[x]] = x
      BY DEF FoundOf
    <3>1. PICK c \in Documents, i \in IDs : c = Doc(x)' /\ i = id'[x]
      <4>1. Doc(x)' \in Documents
        BY <1>2, DocTyping
      <4>2. id'[x] \in IDs
        BY <1>1, <1>3 DEF TypeOK
      <4> QED
        BY <4>1, <4>2
    <3>2. Doc(x) = c /\ <<c, i>> \notin reported
      BY <3>1, <1>2, <2>2
    <3>3. CASE x = e
      BY <3>1, <3>2, <3>3, <2>1, <2>3, <1>3
    <3>4. CASE x # e
      <4>1. id[x] = i
        BY <3>1, <3>4, <1>3
      <4>2. idMap[c][i] = x
        BY <3>1, <3>2, <4>1, ElementsAssumption DEF MapsOf, FoundOf, Holders
      <4>3. ASSUME c = d, i = id[e] PROVE FALSE
        <5>1. idMap[c][i] = e
          BY <4>3, <3>2, <2>1, ElementsAssumption DEF MapsOf, FoundOf, Holders
        <5> QED
          BY <5>1, <4>2, <3>4
      <4>4. ASSUME c = d, i = new PROVE FALSE
        <5>1. ErasedIn(d, e)[new] = x
          BY <4>2, <4>3, <4>4 DEF ErasedIn
        <5>2. Taken(d, e, new)
          BY <5>1, <4>4, ElementsAssumption DEF Taken, Holders
        <5> QED
          BY <5>2, <2>2, <3>1, <4>4
      <4> QED
        BY <4>2, <4>3, <4>4, <3>1, <2>3
    <3> QED
      BY <3>3, <3>4
  <2> QED
    BY <1>4, <2>4, <2>5 DEF MapsOf
<1> QED
  BY <1>5, <1>6

LEMMA SetSidMaps ==
  ASSUME IInv, MapsOf, NEW e \in Elements, NEW new \in SIDs \union {Nothing}, SetSid(e, new)
  PROVE  MapsOf'
<1>1. /\ UNCHANGED <<parent, content, id, idMap, reported>> /\ TypeOK
      /\ sid' = [sid EXCEPT ![e] = new]
      /\ \A d \in Documents : sidMap'[d] =
           IF d = Doc(e)
           THEN (sidMap[d] \ {<<sid[e], e>>}) \union ({new} \ {Nothing}) \X {e}
           ELSE sidMap[d]
  BY DEF SetSid, seats, IInv
<1>2. \A x \in Elements : Doc(x)' = Doc(x)
  BY <1>1, SameDoc
<1>3. sid'[e] = new /\ \A x \in Elements \ {e} : sid'[x] = sid[x]
  BY <1>1 DEF TypeOK
<1>4. IdsOf'
  <2>1. \A d \in Documents, i \in IDs : idMap[d][i] \in Elements \union {Nothing}
    BY <1>1 DEF TypeOK
  <2> QED
    BY <1>1, <1>2, <2>1 DEF MapsOf, IdsOf
<1>5. FoundOf'
  BY <1>1, <1>2 DEF MapsOf, FoundOf
<1>6. SidsOf'
  <2> SUFFICES ASSUME NEW d \in Documents
               PROVE  sidMap'[d] =
                 {p \in SIDs \X Elements : sid'[p[2]] = p[1] /\ Doc(p[2])' = d}
    BY DEF SidsOf
  <2>1. sidMap[d] = {p \in SIDs \X Elements : sid[p[2]] = p[1] /\ Doc(p[2]) = d}
    BY DEF MapsOf, SidsOf
  <2> DEFINE Entered == ({new} \ {Nothing}) \X {e}
  <2>2. /\ Entered \subseteq SIDs \X Elements
        /\ \A t, x : <<t, x>> \in Entered <=> t = new /\ new # Nothing /\ x = e
    OBVIOUS
  <2>3. sidMap'[d] = IF d = Doc(e) THEN (sidMap[d] \ {<<sid[e], e>>}) \union Entered
                     ELSE sidMap[d]
    BY <1>1
  <2> HIDE DEF Entered
  <2>4. sidMap'[d] \subseteq SIDs \X Elements
    BY <2>1, <2>2, <2>3
  <2>5. ASSUME NEW s \in SIDs, NEW x \in Elements
        PROVE  <<s, x>> \in sidMap'[d] <=> sid'[x] = s /\ Doc(x)' = d
    <3>1. <<s, x>> \in sidMap[d] <=> sid[x] = s /\ Doc(x) = d
      BY <2>1
    <3>2. s # Nothing
      BY ElementsAssumption
    <3>3. <<s, x>> = <<sid[e], e>> <=> s = sid[e] /\ x = e
      OBVIOUS
    <3>4. CASE x = e
      BY <3>1, <3>2, <3>3, <3>4, <2>2, <2>3, <1>2, <1>3
    <3>5. CASE x # e
      BY <3>1, <3>3, <3>5, <2>2, <2>3, <1>2, <1>3
    <3> QED
      BY <3>4, <3>5
  <2> QED
    BY <2>4, <2>5
<1> QED
  BY <1>4, <1>5, <1>6 DEF MapsOf
-----------------------------------------------------------------------------
(* Theorems *)

\* A step that leaves the tree and the maps alone, or one of those above.
LEMMA MapsStep ==
  ASSUME IInv, IInv', leaked = {}, leaked' = {}, MapsOf, [Next]_vars
  PROVE  MapsOf'
<1>1. ASSUME NEW h \in Holders, NEW e \in Elements, Place(h, e) PROVE MapsOf'
  BY <1>1, AttachMaps, MoveMaps DEF Place, MoveElement, MoveContent
<1>2. ASSUME NEW e \in Elements, RemoveWID(e) PROVE MapsOf'
  BY <1>2, HaltMaps, DetachMaps DEF RemoveWID
<1>3. ASSUME NEW e \in Elements, RemoveChild(e) PROVE MapsOf'
  BY <1>3 DEF RemoveChild
<1>4. ASSUME NEW e \in Elements, NEW next \in Elements \union {Nothing}, Vacate(e, next)
      PROVE  MapsOf'
  BY <1>4, HaltMaps, DetachMaps DEF Vacate
<1>5. ASSUME Assign PROVE MapsOf'
  <2>1. assigning[1] \in Holders /\ assigning[2] \in Elements
    BY <1>5 DEF Assign, Idle, IInv, TypeOK
  <2>2. CASE UNCHANGED <<seats, id, sid, maps, types, leaked, halted>>
    BY <2>2, SameTreeSameMaps DEF seats, maps
  <2> QED
    BY <1>5, <2>1, <2>2, AttachMaps, MoveMaps DEF Assign, MoveElement
<1>6. ASSUME NEW h \in Holders, AddPlaceholder(h) \/ RemovePlaceholder(h) PROVE MapsOf'
  BY <1>6, SameTreeSameMaps, HaltMaps DEF AddPlaceholder, RemovePlaceholder, maps
<1>7. ASSUME NEW d \in Documents, NEW T \in LookedUp, TypeLookup(d, T) PROVE MapsOf'
  BY <1>7, SameTreeSameMaps DEF TypeLookup, seats, maps
<1>8. CASE Change
  BY <1>1, <1>2, <1>3, <1>4, <1>5, <1>6, <1>8, ClearMaps, UnloadMaps DEF Change
<1>9. CASE Attribute
  BY <1>9, SetIdMaps, SetSidMaps DEF Attribute
<1>10. CASE UNCHANGED vars
  BY <1>10, SameTreeSameMaps DEF vars, seats, maps
<1> QED
  BY <1>7, <1>8, <1>9, <1>10 DEF Next

\* No step undoes a use of removeChildElement.
LEMMA LeaksStay ==
  ASSUME [Next]_vars
  PROVE  leaked \subseteq leaked'
<1>1. CASE Next
  BY <1>1 DEF Next, Change, Attribute, Place, Attach, MoveElement, MoveContent, Move, RemoveWID,
     RemoveChild, Vacate, Detach, Assign, AddPlaceholder, RemovePlaceholder, Clear, Cleared,
     Unload, SetId, SetSid, TypeLookup, Halt
<1>2. CASE UNCHANGED vars
  BY <1>2 DEF vars
<1> QED
  BY <1>1, <1>2

MapsInv == IInv /\ (leaked = {} => MapsOf)

\* The maps are right, with the tree, in every reachable state.
THEOREM MapsInductive == Spec => []MapsInv
<1>1. Init => MapsInv
  <2> SUFFICES ASSUME Init PROVE MapsOf
    BY Initially DEF MapsInv
  <2>1. \A x \in Elements : Doc(x) = Nothing
    BY Initially, DocStep DEF Init
  <2> QED
    BY <2>1, ElementsAssumption DEF Init, MapsOf, SidsOf, IdsOf, FoundOf, Holders
<1>2. MapsInv /\ [Next]_vars => MapsInv'
  BY Stepwise, MapsStep, LeaksStay DEF MapsInv
<1> QED
  BY <1>1, <1>2, PTL DEF Spec

\* The sid map of a document lists exactly its elements' sids, through any sequence of
\* insertions, moves, removals and attribute changes, unless removeChildElement is used.
THEOREM SidsAreExact == Spec => []SidsExact
<1>1. MapsInv => SidsExact
  BY DEF MapsInv, MapsOf, SidsOf, SidsExact
<1> QED
  BY <1>1, MapsInductive, PTL

\* What idLookup() finds is in the document and has the id that was looked up.
THEOREM IdsAreSound == Spec => []IdsSound
<1>1. MapsInv => IdsSound
  BY DEF MapsInv, MapsOf, IdsOf, IdsSound
<1> QED
  BY <1>1, MapsInductive, PTL

\* idLookup() finds what has the id, unless the document has reported that id as not unique.
THEOREM IdsAreFound == Spec => []IdsFound
<1>1. MapsInv => IdsFound
  BY DEF MapsInv, MapsOf, FoundOf, IdsFound
<1> QED
  BY <1>1, MapsInductive, PTL
-----------------------------------------------------------------------------
(***************************************************************************)
(* Elements implements Catalog.  What is in which document before and      *)
(* after a step, and that the maps are right, is known from above; what is *)
(* new here is that a step changes no other entries, and that it reports   *)
(* nothing that is not so.                                                 *)
(***************************************************************************)

(* One step of the catalog, in terms of Doc *)

\* The entries of ids that may change: those of the documents D and the ids I.
EntriesBut(D, I) ==
  \A d \in Documents, i \in IDs : idMap'[d][i] # idMap[d][i] => d \in D /\ i \in I

Justified ==
  \A p \in reported' \ reported :
    \E x, y \in Elements : x # y /\ Doc(x)' = p[1] /\ Doc(y)' = p[1]
                                 /\ id'[x] = p[2] /\ id'[y] = p[2]

\* The elements of S go from document a to b, and take their entries with them.
Goes(S, a, b) ==
  /\ UNCHANGED <<id, sid>>
  /\ \A x \in S : Doc(x) = a
  /\ \A x \in Elements : Doc(x)' = IF x \in S THEN b ELSE Doc(x)
  /\ a # b => EntriesBut({a, b}, {id[x] : x \in S})
  /\ a = b => UNCHANGED <<idMap, sidMap, reported>>
  /\ Justified /\ reported \subseteq reported'

\* Null is the key of no entry.
LEMMA NullIsNoKey == Nothing \notin IDs /\ Nothing \notin Elements /\ Nothing \notin Documents
  BY ElementsAssumption DEF Holders

\* Migration changes the entries of what it migrates, and reports clashes only.
LEMMA MigrationGoes ==
  ASSUME IInv, MapsOf, NEW S \in SUBSET Elements,
         NEW a \in Documents \union {Nothing}, NEW b \in Documents \union {Nothing},
         a # b, Migrate(a, b, S), UNCHANGED <<id, sid>>,
         \A x \in S : Doc(x) = a,
         \A x \in Elements : Doc(x)' = IF x \in S THEN b ELSE Doc(x)
  PROVE  Goes(S, a, b)
<1>1. PICK last \in [IDs -> S \union {Nothing}] :
        /\ \A i \in IDs : last[i] \in LastEntered(S, i)
        /\ idMap' = [d \in Documents |-> [i \in IDs |->
             IF d = b /\ last[i] # Nothing THEN last[i]
               ELSE IF ErasedFrom(a, b, d, S, i) THEN Nothing ELSE idMap[d][i]]]
  BY DEF Migrate
<1>2. reported' = reported \union Clashes(b, S)
  BY DEF Migrate
<1>3. ASSUME NEW i \in IDs, WithID(S, i) = {} PROVE last[i] = Nothing
  BY <1>1, <1>3 DEF LastEntered
<1>4. ASSUME NEW d \in Documents, NEW i \in IDs, idMap'[d][i] # idMap[d][i]
      PROVE  d \in {a, b} /\ WithID(S, i) # {}
  <2>1. idMap'[d][i] = IF d = b /\ last[i] # Nothing THEN last[i]
                       ELSE IF ErasedFrom(a, b, d, S, i) THEN Nothing ELSE idMap[d][i]
    BY <1>1
  <2> QED
    BY <2>1, <1>3, <1>4 DEF ErasedFrom
<1>5. EntriesBut({a, b}, {id[x] : x \in S})
  BY <1>4 DEF EntriesBut, WithID
<1>6. Justified
  <2> SUFFICES ASSUME NEW p \in Clashes(b, S), p \notin reported
               PROVE  \E x, y \in Elements : x # y /\ Doc(x)' = p[1] /\ Doc(y)' = p[1]
                                             /\ id'[x] = p[2] /\ id'[y] = p[2]
    BY <1>2 DEF Justified
  <2>1. p[1] = b /\ p[2] \in IDs /\ b # Nothing
    BY DEF Clashes
  <2>2. PICK x \in WithID(S, p[2]) :
          idMap[b][p[2]] # Nothing \/ \E y \in WithID(S, p[2]) : y # x
    BY DEF Clashes
  <2>3. x \in Elements /\ Doc(x)' = b /\ id'[x] = p[2]
    BY <2>2 DEF WithID
  <2>4. CASE \E y \in WithID(S, p[2]) : y # x
    BY <2>1, <2>3, <2>4 DEF WithID
  <2>5. CASE idMap[b][p[2]] # Nothing
    <3>1. b \in Documents
      BY <2>1
    <3>2. PICK y \in Elements : y = idMap[b][p[2]]
      BY <2>1, <2>5, <3>1 DEF IInv, TypeOK
    <3>3. Doc(y) = b /\ id[y] = p[2]
      BY <2>1, <2>5, <3>1, <3>2 DEF MapsOf, IdsOf
    <3>4. y \notin S /\ Doc(y)' = b
      BY <3>3
    <3>5. x # y
      BY <2>2, <3>4 DEF WithID
    <3> QED
      BY <2>1, <2>3, <3>3, <3>4, <3>5
  <2> QED
    BY <2>2, <2>4, <2>5
<1> QED
  BY <1>2, <1>5, <1>6 DEF Goes

\* Nothing moves, and nothing is said.
LEMMA NothingGoes ==
  ASSUME UNCHANGED <<id, sid, idMap, sidMap, reported>>,
         \A x \in Elements : Doc(x)' = Doc(x)
  PROVE  Goes({}, Nothing, Nothing)
  BY DEF Goes, Justified

LEMMA SameTreeGoes ==
  ASSUME UNCHANGED <<parent, content, id, sid, idMap, sidMap, reported>>
  PROVE  Goes({}, Nothing, Nothing)
  BY SameDoc, NothingGoes

LEMMA HaltGoes ==
  ASSUME NEW fault, Halt(fault)
  PROVE  Goes({}, Nothing, Nothing)
  BY SameTreeGoes DEF Halt, seats, maps

\* A migration from nowhere to nowhere leaves the maps as they are.
LEMMA NoMigration ==
  ASSUME IInv, NEW S \in SUBSET Elements, Migrate(Nothing, Nothing, S)
  PROVE  UNCHANGED <<idMap, sidMap, reported>>
<1>1. PICK last \in [IDs -> S \union {Nothing}] :
        idMap' = [d \in Documents |-> [i \in IDs |->
             IF d = Nothing /\ last[i] # Nothing THEN last[i]
               ELSE IF ErasedFrom(Nothing, Nothing, d, S, i) THEN Nothing ELSE idMap[d][i]]]
  BY DEF Migrate
<1>2. idMap' = [d \in Documents |-> [i \in IDs |-> idMap[d][i]]]
  BY <1>1, NullIsNoKey DEF ErasedFrom
<1>3. idMap \in [Documents -> [IDs -> Elements \union {Nothing}]]
      /\ sidMap \in [Documents -> SUBSET (SIDs \X Elements)]
  BY DEF IInv, TypeOK
<1>4. idMap' = idMap
  BY <1>2, <1>3
<1>5. sidMap' = [d \in Documents |-> sidMap[d]]
  <2> DEFINE Pairs == {p \in SIDs \X S : p[1] = sid[p[2]]}
  <2>1. sidMap' = [d \in Documents |->
           (sidMap[d] \ (IF d = Nothing THEN Pairs ELSE {}))
             \union (IF d = Nothing THEN Pairs ELSE {})]
    BY DEF Migrate
  <2>2. \A d \in Documents : d # Nothing
    BY NullIsNoKey
  <2> HIDE DEF Pairs
  <2> QED
    BY <2>1, <2>2
<1>6. reported' = reported
  BY DEF Migrate, Clashes
<1> QED
  BY <1>3, <1>4, <1>5, <1>6

\* From where the elements are to where they go, be it the same document.
LEMMA MigrationOrNot ==
  ASSUME IInv, MapsOf, NEW S \in SUBSET Elements,
         NEW a \in Documents \union {Nothing}, NEW b \in Documents \union {Nothing},
         Migrate(a, b, S), a = b => a = Nothing, UNCHANGED <<id, sid>>,
         \A x \in S : Doc(x) = a,
         \A x \in Elements : Doc(x)' = IF x \in S THEN b ELSE Doc(x)
  PROVE  Goes(S, a, b)
<1>1. CASE a # b
  BY <1>1, MigrationGoes
<1>2. CASE a = b
  BY <1>2, NoMigration DEF Goes, Justified
<1> QED
  BY <1>1, <1>2
-----------------------------------------------------------------------------
(* Steps of the program *)

Going == \E S \in SUBSET Elements, a, b \in Documents \union {Nothing} : Goes(S, a, b)

LEMMA RestGoes ==
  ASSUME Goes({}, Nothing, Nothing)
  PROVE  Going
<1>1. PICK S \in SUBSET Elements, a \in Documents \union {Nothing} : S = {} /\ a = Nothing
  OBVIOUS
<1>2. Goes(S, a, a)
  BY <1>1 DEF Goes
<1> QED
  BY <1>1, <1>2 DEF Going, Goes

LEMMA AttachGoes ==
  ASSUME IInv, IInv', leaked = {}, MapsOf, NEW h \in Holders, NEW e \in Elements, Attach(h, e)
  PROVE  Going
<1>1. CASE Halt(AttachFault(h, e))
  BY <1>1, HaltGoes, RestGoes
<1>2. CASE /\ AttachFault(h, e) = Nothing
           /\ Seat(h, e)
           /\ Migrate(Nothing, Home(h), Subtree(e))
           /\ UNCHANGED <<id, sid, types, leaked, halted>>
  <2>1. e \notin Above(h)
    BY <1>2, ElementsAssumption DEF AttachFault, Faults
  <2>2. Subtree(e) \in SUBSET Elements
    BY SubtreeOfElement DEF IInv, TypeOK
  <2>3. Doc(e) = Nothing
    BY DocStep DEF Attach
  <2>4. \A x \in Subtree(e) : Doc(x) = Nothing
    BY <2>3, DocInSubtree
  <2>5. \A x \in Elements : Doc(x)' = IF x \in Subtree(e) THEN Home(h) ELSE Doc(x)
    BY <1>2, <2>1, DocAfterSeat
  <2>6. Goes(Subtree(e), Nothing, Home(h))
    BY <1>2, <2>2, <2>4, <2>5, HomeTyping, MigrationOrNot
  <2> QED
    BY <2>2, <2>6, HomeTyping DEF Going, Goes
<1> QED
  BY <1>1, <1>2 DEF Attach

LEMMA MoveGoes ==
  ASSUME IInv, IInv', leaked = {}, MapsOf,
         NEW h \in Holders, NEW e \in Elements, NEW crosses, Move(h, e, crosses)
  PROVE  Going
<1>1. CASE Halt(MoveFault(h, e, crosses))
  BY <1>1, HaltGoes, RestGoes
<1>2. CASE /\ MoveFault(h, e, crosses) = Nothing
           /\ Seat(h, e)
           /\ IF Doc(e) = Home(h) THEN UNCHANGED maps
              ELSE Migrate(Doc(e), Home(h), Subtree(e))
           /\ UNCHANGED <<id, sid, types, leaked, halted>>
  <2>1. e \notin Above(h)
    BY <1>2, ElementsAssumption DEF MoveFault, Faults
  <2>2. Subtree(e) \in SUBSET Elements
    BY SubtreeOfElement DEF IInv, TypeOK
  <2>3. \A x \in Subtree(e) : Doc(x) = Doc(e)
    BY DocInSubtree
  <2>4. \A x \in Elements : Doc(x)' = IF x \in Subtree(e) THEN Home(h) ELSE Doc(x)
    BY <1>2, <2>1, DocAfterSeat
  <2>5. CASE Doc(e) = Home(h)
    <3>1. \A x \in Elements : Doc(x)' = Doc(x)
      BY <2>3, <2>4, <2>5
    <3> QED
      BY <1>2, <2>5, <3>1, NothingGoes, RestGoes DEF maps
  <2>6. CASE Doc(e) # Home(h)
    <3>1. Goes(Subtree(e), Doc(e), Home(h))
      BY <1>2, <2>2, <2>3, <2>4, <2>6, HomeTyping, DocTyping, MigrationGoes
    <3> QED
      BY <2>2, <3>1, HomeTyping, DocTyping DEF Going, Goes
  <2> QED
    BY <2>5, <2>6
<1> QED
  BY <1>1, <1>2 DEF Move

LEMMA DetachGoes ==
  ASSUME IInv, IInv', leaked = {}, MapsOf,
         NEW e \in Elements, NEW placeholders, Detach(e, placeholders)
  PROVE  Going
<1>1. /\ content' = content \ {e} /\ UNCHANGED <<parent, leaked>>
      /\ Migrate(Doc(e), Nothing, Subtree(e)) /\ UNCHANGED <<id, sid>>
  BY DEF Detach
<1>2. Subtree(e) \in SUBSET Elements
  BY SubtreeOfElement DEF IInv, TypeOK
<1>3. \A x \in Subtree(e) : Doc(x) = Doc(e)
  BY DocInSubtree
<1>4. \A x \in Elements : Doc(x)' = IF x \in Subtree(e) THEN Nothing ELSE Doc(x)
  BY <1>1, DocAfterDetach
<1>5. Goes(Subtree(e), Doc(e), Nothing)
  BY <1>1, <1>2, <1>3, <1>4, DocTyping, MigrationOrNot
<1> QED
  BY <1>2, <1>5, DocTyping DEF Going, Goes

LEMMA ClearGoes ==
  ASSUME IInv, IInv', leaked = {}, MapsOf, NEW h \in Holders, Clear(h)
  PROVE  Going
<1>1. CASE Halt("not listed")
  BY <1>1, HaltGoes, RestGoes
<1>2. CASE Cleared(h) /\ Migrate(Home(h), Nothing, Below(h))
  <2>1. Below(h) \in SUBSET Elements
    BY BelowIsChild DEF IInv, TypeOK
  <2>2. \A x \in Below(h) : Doc(x) = Home(h)
    BY DocOfSubtree
  <2>3. \A x \in Elements : Doc(x)' = IF x \in Below(h) THEN Nothing ELSE Doc(x)
    BY <1>2, DocAfterClear
  <2>4. UNCHANGED <<id, sid>>
    BY <1>2 DEF Cleared
  <2>5. Goes(Below(h), Home(h), Nothing)
    BY <1>2, <2>1, <2>2, <2>3, <2>4, HomeTyping, MigrationOrNot
  <2> QED
    BY <2>1, <2>5, HomeTyping DEF Going, Goes
<1> QED
  BY <1>1, <1>2 DEF Clear

LEMMA UnloadGoes ==
  ASSUME IInv, IInv', leaked = {}, MapsOf, NEW d \in Documents, Unload(d)
  PROVE  Going
<1> DEFINE S == {x \in Elements : Doc(x) = d}
<1>1. /\ d \in Holders /\ Cleared(d) /\ TypeOK /\ UNCHANGED <<id, sid, reported>>
      /\ idMap' = [idMap EXCEPT ![d] = [i \in IDs |-> Nothing]]
  BY DEF Unload, Cleared, Holders, IInv
<1>2. \A x \in Elements : Doc(x)' = IF x \in S THEN Nothing ELSE Doc(x)
  <2>1. \A x \in Below(d) : Doc(x) = d
    BY <1>1, DocOfSubtree DEF Home
  <2> QED
    BY <1>1, <2>1, InDocument, DocAfterClear
<1>3. EntriesBut({d, Nothing}, {id[x] : x \in S})
  <2> SUFFICES ASSUME NEW c \in Documents, NEW i \in IDs, idMap'[c][i] # idMap[c][i]
               PROVE  c = d /\ \E x \in S : id[x] = i
    BY DEF EntriesBut
  <2>1. c = d /\ idMap[d][i] # Nothing
    BY <1>1 DEF TypeOK
  <2>2. idMap[d][i] \in Elements
    BY <1>1, <2>1 DEF TypeOK
  <2> QED
    BY <2>1, <2>2 DEF MapsOf, IdsOf
<1>4. d # Nothing
  BY NullIsNoKey
<1>5. Goes(S, d, Nothing) /\ S \in SUBSET Elements
  BY <1>1, <1>2, <1>3, <1>4 DEF Goes, Justified
<1> HIDE DEF S
<1> QED
  BY <1>5 DEF Going, Goes

\* An attribute change: only the entries of the old and the new id.
LEMMA SetIdLocal ==
  ASSUME IInv, MapsOf, NEW e \in Elements, NEW new \in IDs \union {Nothing}, SetId(e, new)
  PROVE  /\ \A x \in Elements : Doc(x)' = Doc(x)
         /\ \A x \in Elements \ {e} : id'[x] = id[x]
         /\ id'[e] = new /\ UNCHANGED sid
         /\ EntriesBut({Doc(e)}, {id[e], id'[e]})
         /\ Justified /\ reported \subseteq reported'
<1>1. /\ UNCHANGED <<parent, content, sid, sidMap>> /\ TypeOK
      /\ id' = [id EXCEPT ![e] = new]
  BY DEF SetId, seats, IInv
<1>2. \A x \in Elements : Doc(x)' = Doc(x)
  BY <1>1, SameDoc
<1>3. id'[e] = new /\ \A x \in Elements \ {e} : id'[x] = id[x]
  BY <1>1 DEF TypeOK
<1>4. CASE UNCHANGED <<idMap, reported>>
  BY <1>1, <1>2, <1>3, <1>4 DEF EntriesBut, Justified
<1>5. CASE /\ Doc(e) # Nothing
           /\ idMap' = [idMap EXCEPT ![Doc(e)] =
                   [i \in IDs |-> IF i = new THEN e ELSE ErasedIn(Doc(e), e)[i]]]
           /\ reported' = IF Taken(Doc(e), e, new)
                          THEN reported \union {<<Doc(e), new>>} ELSE reported
  <2>1. PICK d \in Documents : d = Doc(e)
    BY <1>5, DocTyping
  <2>2. ASSUME NEW c \in Documents, NEW i \in IDs
        PROVE  idMap'[c][i] = IF c # d THEN idMap[c][i] ELSE IF i = new THEN e
                              ELSE IF i = id[e] THEN Nothing ELSE idMap[c][i]
    BY <1>1, <1>5, <2>1 DEF TypeOK, ErasedIn
  <2>3. EntriesBut({Doc(e)}, {id[e], id'[e]})
    BY <1>3, <2>1, <2>2 DEF EntriesBut
  <2>4. Justified
    <3> SUFFICES ASSUME Taken(d, e, new)
                 PROVE  \E x, y \in Elements : x # y /\ Doc(x)' = d /\ Doc(y)' = d
                                               /\ id'[x] = new /\ id'[y] = new
      BY <1>5, <2>1 DEF Justified
    <3>1. new \in IDs /\ new # id[e] /\ idMap[d][new] # Nothing
      BY DEF Taken, ErasedIn
    <3>2. PICK y \in Elements : y = idMap[d][new]
      BY <1>1, <3>1 DEF TypeOK
    <3>3. Doc(y) = d /\ id[y] = new
      BY <3>1, <3>2 DEF MapsOf, IdsOf
    <3> QED
      BY <1>2, <1>3, <2>1, <3>1, <3>3
  <2> QED
    BY <1>1, <1>2, <1>3, <1>5, <2>3, <2>4
<1> QED
  BY <1>4, <1>5 DEF SetId
-----------------------------------------------------------------------------
(* The catalog's steps *)

DocMap == [x \in Elements |-> Doc(x)]

LEMMA DocMapTyping == DocMap \in Promise!Placements /\ DocMap' \in Promise!Placements
<1>1. \A x \in Elements : Doc(x) \in Documents \union {Nothing}
  BY DocTyping
<1>2. \A x \in Elements : Doc(x)' \in Documents \union {Nothing}
  BY DEF Doc
<1> QED
  BY <1>1, <1>2 DEF DocMap, Promise!Placements

\* The answers of lookups are right after a step, as the maps are.
LEMMA AnswersFollow ==
  ASSUME IInv', MapsOf', Justified, reported \subseteq reported',
         NEW at, \A x \in Elements : at[x] = Doc(x)'
  PROVE  Promise!Answers(at)
<1>1. Promise!SidsAnswer(at)
  BY DEF MapsOf, SidsOf, Promise!SidsAnswer
<1>2. Promise!IdsAnswer(at)
  <2>1. \A d \in Documents, i \in IDs : idMap'[d][i] \in Elements \union {Nothing}
    BY DEF IInv, TypeOK
  <2> QED
    BY <2>1 DEF MapsOf, IdsOf, FoundOf, Promise!IdsAnswer
<1>3. Promise!ReportsAreTrue(at)
  BY DEF Justified, Promise!ReportsAreTrue
<1> QED
  BY <1>1, <1>2, <1>3 DEF Promise!Answers

\* A step of the catalog, from DocMap to DocMap'.
LEMMA CatalogStep ==
  ASSUME IInv', MapsOf', leaked' = {}, Justified, reported \subseteq reported',
         \/ Promise!Transfer(DocMap, DocMap')
         \/ DocMap = DocMap' /\ \E e \in Elements : Promise!SetId(e, DocMap) \/ Promise!SetSid(e)
  PROVE  Promise!Next
<1>1. PICK D, E : D = DocMap /\ E = DocMap'
  OBVIOUS
<1>2. \A x \in Elements : E[x] = Doc(x)'
  BY <1>1 DEF DocMap
<1>3. Promise!Answers(E)
  BY <1>2, AnswersFollow
<1>4. D \in Promise!Placements /\ E \in Promise!Placements
  BY <1>1, DocMapTyping
<1>5. \/ Promise!Transfer(D, E)
      \/ D = E /\ \E e \in Elements : Promise!SetId(e, D) \/ Promise!SetSid(e)
  BY <1>1
<1>6. D = [x \in Elements |-> Doc(x)] /\ E = [x \in Elements |-> Doc(x)]'
  BY <1>1 DEF DocMap
<1> QED
  BY <1>3, <1>4, <1>5, <1>6 DEF Promise!Next

LEMMA GoingIsTransfer ==
  ASSUME Going
  PROVE  Promise!Transfer(DocMap, DocMap')
<1>1. PICK S \in SUBSET Elements, a, b \in Documents \union {Nothing} : Goes(S, a, b)
  BY DEF Going
<1>2. PICK D, E : D = DocMap /\ E = DocMap'
  OBVIOUS
<1>3. \A x \in Elements : D[x] = Doc(x) /\ E[x] = IF x \in S THEN b ELSE D[x]
  BY <1>1, <1>2 DEF DocMap, Goes
<1>4. \A x \in S : D[x] = a
  BY <1>1, <1>3 DEF Goes
<1> DEFINE Moved == {x \in Elements : E[x] # D[x]}
<1>5. a = b => Moved = {}
  BY <1>3, <1>4
<1>6. a # b => Moved = S
  BY <1>3, <1>4
<1>7. \A x, y \in Moved : D[x] = D[y] /\ E[x] = E[y]
  BY <1>3, <1>4
<1>8. EntriesBut({D[x] : x \in Moved} \union {E[x] : x \in Moved}, {id[x] : x \in Moved})
  <2>1. CASE a = b
    BY <2>1, <1>1 DEF Goes, EntriesBut
  <2>2. CASE a # b
    <3>1. ASSUME NEW d \in Documents, NEW i \in IDs, idMap'[d][i] # idMap[d][i]
          PROVE  d \in {D[x] : x \in Moved} \union {E[x] : x \in Moved} /\ i \in {id[x] : x \in Moved}
      <4>1. d \in {a, b} /\ \E x \in S : id[x] = i
        BY <1>1, <2>2, <3>1 DEF Goes, EntriesBut
      <4> QED
        BY <4>1, <2>2, <1>3, <1>4, <1>6
    <3> QED
      BY <3>1 DEF EntriesBut
  <2> QED
    BY <2>1, <2>2
<1> HIDE DEF Moved
<1> QED
  BY <1>1, <1>2, <1>7, <1>8 DEF Moved, Goes, EntriesBut, Promise!Transfer, Promise!FoundBut

\* Attribute changes are those of the catalog.
LEMMA SetIdRefines ==
  ASSUME IInv, IInv', MapsOf, MapsOf', leaked' = {},
         NEW e \in Elements, NEW new \in IDs \union {Nothing}, SetId(e, new)
  PROVE  Promise!Next
<1>1. DocMap = DocMap' /\ DocMap[e] = Doc(e)
  BY SetIdLocal DEF DocMap
<1>2. Promise!SetId(e, DocMap)
  BY <1>1, SetIdLocal DEF EntriesBut, Promise!SetId, Promise!FoundBut
<1> QED
  BY <1>1, <1>2, SetIdLocal, CatalogStep

LEMMA SetSidRefines ==
  ASSUME IInv, IInv', MapsOf, MapsOf', leaked' = {},
         NEW e \in Elements, NEW new \in SIDs \union {Nothing}, SetSid(e, new)
  PROVE  Promise!Next
<1>1. /\ UNCHANGED <<parent, content, id, idMap, reported>>
      /\ \A x \in Elements \ {e} : sid'[x] = sid[x]
  BY DEF SetSid, seats, IInv, TypeOK
<1>2. DocMap = DocMap'
  BY <1>1, SameDoc DEF DocMap
<1>3. Promise!SetSid(e)
  BY <1>1 DEF Promise!SetSid
<1> QED
  BY <1>1, <1>2, <1>3, CatalogStep DEF Justified

LEMMA GoingRefines ==
  ASSUME IInv', MapsOf', leaked' = {}, Going
  PROVE  Promise!Next
<1>1. Justified /\ reported \subseteq reported'
  BY DEF Going, Goes
<1> QED
  BY <1>1, GoingIsTransfer, CatalogStep

\* One step, while the database is told of every change.
LEMMA TreeStepRefines ==
  ASSUME IInv, IInv', leaked = {}, leaked' = {}, MapsOf, MapsOf', [Next]_vars
  PROVE  Promise!Next
<1>1. ASSUME NEW h \in Holders, NEW e \in Elements, Place(h, e) PROVE Going
  BY <1>1, AttachGoes, MoveGoes DEF Place, MoveElement, MoveContent
<1>2. ASSUME NEW e \in Elements, RemoveWID(e) PROVE Going
  BY <1>2, HaltGoes, RestGoes, DetachGoes DEF RemoveWID
<1>3. ASSUME NEW e \in Elements, RemoveChild(e) PROVE FALSE
  BY <1>3 DEF RemoveChild
<1>4. ASSUME NEW e \in Elements, NEW next \in Elements \union {Nothing}, Vacate(e, next)
      PROVE  Going
  BY <1>4, HaltGoes, RestGoes, DetachGoes DEF Vacate
<1>5. ASSUME Assign PROVE Going
  <2>1. assigning[1] \in Holders /\ assigning[2] \in Elements
    BY <1>5 DEF Assign, Idle, IInv, TypeOK
  <2>2. CASE UNCHANGED <<seats, id, sid, maps, types, leaked, halted>>
    BY <2>2, SameTreeGoes, RestGoes DEF seats, maps
  <2> QED
    BY <1>5, <2>1, <2>2, AttachGoes, MoveGoes DEF Assign, MoveElement
<1>6. ASSUME NEW h \in Holders, AddPlaceholder(h) \/ RemovePlaceholder(h) PROVE Going
  BY <1>6, SameTreeGoes, HaltGoes, RestGoes DEF AddPlaceholder, RemovePlaceholder, maps
<1>7. ASSUME NEW d \in Documents, NEW T \in LookedUp, TypeLookup(d, T) PROVE Going
  BY <1>7, SameTreeGoes, RestGoes DEF TypeLookup, seats, maps
<1>8. CASE Change
  BY <1>1, <1>2, <1>3, <1>4, <1>5, <1>6, <1>8, ClearGoes, UnloadGoes, GoingRefines DEF Change
<1>9. CASE Attribute
  BY <1>9, SetIdRefines, SetSidRefines DEF Attribute
<1>10. CASE UNCHANGED vars
  BY <1>10, SameTreeGoes, RestGoes, GoingRefines DEF vars, seats, maps
<1> QED
  BY <1>7, <1>8, <1>9, <1>10, GoingRefines DEF Next

\* The elements and maps of any number of documents answer as the catalog promises.
THEOREM Implementation == Spec => ImplementsCatalog
<1>1. Init => Promise!Init
  <2> SUFFICES ASSUME Init PROVE Promise!Init
    OBVIOUS
  <2>1. \A x \in Elements : Doc(x) = Nothing
    BY Initially, DocStep DEF Init
  <2> QED
    BY <2>1 DEF Init, Promise!Init
<1>2. MapsInv /\ MapsInv' /\ [Next]_vars => [Promise!Next]_Promise!vars
  <2> SUFFICES ASSUME MapsInv, MapsInv', [Next]_vars PROVE Promise!Next
    OBVIOUS
  <2>1. CASE leaked' = {}
    BY <2>1, LeaksStay, TreeStepRefines DEF MapsInv
  <2>2. CASE leaked' # {}
    BY <2>2 DEF Promise!Next
  <2> QED
    BY <2>1, <2>2
<1> QED
  BY <1>1, <1>2, MapsInductive, PTL DEF Spec, ImplementsCatalog, Promise!Spec
=============================================================================
