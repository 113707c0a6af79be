------------------------------ MODULE Elements ------------------------------
(***************************************************************************)
(* Elements, the contents-arrays that seat them, and the maps that a       *)
(* document keeps of the ids, sids and types of its elements.              *)
(*                                                                         *)
(* A change of a contents-array is an operation object (daeContent.h) that *)
(* is handed to the database (daeSTLDatabase.h): it looks up the element's *)
(* document, has the operation carry itself out, looks the document up     *)
(* again, and migrates the ids and sids of the subtree from one to the     *)
(* other.  The type map is kept up by the operation itself, from a flag    *)
(* that its caller sets.  All of it happens inside of one call.            *)
(*                                                                         *)
(* The order of an array is left out; what is kept is which children it    *)
(* holds, and if there are null placeholders.  The client holds references *)
(* to all the elements, so none is deleted.  A failed assert(), a null     *)
(* dereference or an endless loop ends the program: `halted' says which.   *)
(***************************************************************************)
EXTENDS Common, Naturals, FiniteSets

CONSTANTS
  Elements,
  Types, TypeOf,       \* the schema's metadata: the type of every element
  IDs, SIDs,
  LookedUp,            \* bound: the types that the client calls typeLookup() for
  MaxVacant,           \* bound on the arrays that have placeholders
  MaxLeaked            \* bound on the uses of removeChildElement

Holders == Elements \union Documents

Faults == {"no parent element", "not in contents", "endless loop",
           "null document", "null element", "not listed", "placeholder"}

ASSUME ElementsAssumption ==
  /\ Elements \intersect Documents = {}
  /\ Nothing \notin Holders \union IDs \union SIDs \union Faults
  /\ TypeOf \in [Elements -> Types]
  /\ LookedUp \subseteq Types

VARIABLES
  parent,    \* __DAEP__Object__parent
  content,   \* the elements whose is_content bit is set
  kids,      \* the children in the contents-array of an element or document
  vacant,    \* the arrays that have a null placeholder
  touched,   \* daeContents_capacity_is_nonzero: arrays that have ever grown
  id, sid,
  idMap, sidMap,    \* _idMap and _sidMap of every document
  entries, typeMap, \* the keys of _typeMap, and all that its vectors list
  enabled,   \* types whose _daeDocument_typeLookup_enabled is set
  assigning, \* the _setWID call that has vacated a slot: <<array, new child>>
  leaked,    \* history: what removeChildElement took out of its array
  reported,  \* history: the document and id of every "Non-unique id" error
  halted

seats == <<parent, content, kids, vacant, touched>>
maps == <<idMap, sidMap, reported>>
types == <<entries, typeMap, enabled>>
vars == <<seats, id, sid, maps, types, assigning, leaked, halted>>
-----------------------------------------------------------------------------
(* Trees *)

\* The chain of parents from x up, as far as getDocument() follows it.
Above(x) ==
  {y \in Holders : \A S \in SUBSET Holders :
     x \in S /\ (\A z \in S \intersect content : parent[z] \in S) => y \in S}

\* getDocument(): the chain has to consist of content.  The element of a
\* document's own array (a pseudo-element) is no content.
Doc(x) ==
  LET above == Above(x)
  IN  IF x \in Elements /\ above \intersect Documents # {}
      THEN CHOOSE d \in Documents : d \in above ELSE Nothing

\* The document that a child of h is in.
Home(h) == IF h \in Documents THEN h ELSE Doc(h)

\* Mutant: a change is applied to the element alone.
Alone(x) == {x}

\* An element (or document) and what is below it, by contents-arrays.
Subtree(x) ==
  {y \in Holders : \A S \in SUBSET Holders :
     x \in S /\ (\A z \in S : kids[z] \subseteq S) => y \in S}

Below(x) == Subtree(x) \ {x}

HasPlaceholder(e) == Subtree(e) \intersect vacant # {}
-----------------------------------------------------------------------------
TypeOK ==
  /\ parent \in [Elements -> Holders \union {Nothing}]
  /\ content \subseteq Elements
  /\ kids \in [Holders -> SUBSET Elements]
  /\ vacant \subseteq Holders
  /\ touched \subseteq Elements
  /\ id \in [Elements -> IDs \union {Nothing}]
  /\ sid \in [Elements -> SIDs \union {Nothing}]
  /\ idMap \in [Documents -> [IDs -> Elements \union {Nothing}]]
  /\ sidMap \in [Documents -> SUBSET (SIDs \X Elements)]
  /\ entries \in [Documents -> SUBSET Types]
  /\ typeMap \in [Documents -> SUBSET Elements]
  /\ enabled \subseteq Types
  /\ assigning \in (Holders \X Elements) \union {Nothing}
  /\ leaked \subseteq Elements
  /\ reported \subseteq Documents \X IDs
  /\ halted \in Faults \union {Nothing}

Init ==
  /\ parent = [e \in Elements |-> Nothing]
  /\ content = {}
  /\ kids = [h \in Holders |-> {}]
  /\ vacant = {}
  /\ touched = {}
  /\ id = [e \in Elements |-> Nothing]
  /\ sid = [e \in Elements |-> Nothing]
  /\ idMap = [d \in Documents |-> [i \in IDs |-> Nothing]]
  /\ sidMap = [d \in Documents |-> {}]
  /\ entries = [d \in Documents |-> {}]
  /\ typeMap = [d \in Documents |-> {}]
  /\ enabled = {}
  /\ assigning = Nothing
  /\ leaked = {}
  /\ reported = {}
  /\ halted = Nothing

Halt(fault) ==
  /\ halted' = fault
  /\ UNCHANGED <<seats, id, sid, maps, types, leaked>>
-----------------------------------------------------------------------------
(* Migration of ids and sids *)

WithID(S, i) == {x \in S : id[x] = i}

\* The last of S that is entered under an id: a parent is entered before its
\* children, and these in the order of the array.
LastEntered(S, i) ==
  IF WithID(S, i) = {} THEN {Nothing}
  ELSE {x \in WithID(S, i) : WithID(Subtree(x), i) = {x}}

\* Mutant: a source without a destination is left as it is.
MigratedFrom(a, b, d, S, i) == d = a /\ b # Nothing /\ WithID(S, i) # {}

\* The id's entry is erased from the source, whichever element it names.
ErasedFrom(a, b, d, S, i) == d = a /\ WithID(S, i) # {}

\* Mutant: nothing is reported.
Silence(b, S) == {}

\* "Non-unique id": the destination has an entry already.
Clashes(b, S) ==
  {c \in {b} \X IDs : c[1] # Nothing /\
     \E x \in WithID(S, c[2]) :
        idMap[b][c[2]] # Nothing \/ \E y \in WithID(S, c[2]) : y # x}

\* From document a to document b, either of which may be null.
Migrate(a, b, S) ==
  LET Pairs == {p \in SIDs \X S : p[1] = sid[p[2]]}
  IN  /\ \E last \in [IDs -> S \union {Nothing}] :
           /\ \A i \in IDs : last[i] \in LastEntered(S, i)
           /\ idMap' = [d \in Documents |-> [i \in IDs |->
                IF d = b /\ last[i] # Nothing THEN last[i]
                  ELSE IF ErasedFrom(a, b, d, S, i) THEN Nothing ELSE idMap[d][i]]]
      /\ sidMap' = [d \in Documents |->
           (sidMap[d] \ (IF d = a THEN Pairs ELSE {}))
             \union (IF d = b THEN Pairs ELSE {})]
      /\ reported' = reported \union Clashes(b, S)
-----------------------------------------------------------------------------
(* Type maps *)

\* typeLookup_unless: is the type map to be kept up for a change of e?
Watched(e) == IF e \in touched THEN enabled # {} ELSE TypeOf[e] \in enabled

\* Erasing from a vector what it does not hold is erase(end()).
Unlisted(d, S) ==
  d # Nothing /\ \E x \in S \intersect Elements :
    TypeOf[x] \in entries[d] /\ x \notin typeMap[d]

Delisted(d, S) == [c \in Documents |-> IF c = d THEN typeMap[c] \ S ELSE typeMap[c]]
-----------------------------------------------------------------------------
(* Insertion and removal *)

\* Mutant: the child stays in the array it comes from.
Doubled(h, e) == [kids EXCEPT ![h] = @ \union {e}]

Reseated(h, e) ==
  [x \in Holders |-> IF x = h THEN kids[x] \union {e} ELSE kids[x] \ {e}]

\* In a new slot, or in that of a placeholder.
Seat(h, e) ==
  /\ parent' = [parent EXCEPT ![e] = h]
  /\ content' = content \union {e}
  /\ kids' = Reseated(h, e)
  /\ vacant' \in {vacant, vacant \ {h}}
  /\ touched' = touched \union ({h} \intersect Elements)

\* typeLookup_insert() comes before is_content is set, so getDocument() is null.
AttachFault(h, e) ==
  IF Watched(e) THEN "null document"
  ELSE IF e \in Above(h) THEN "endless loop"
  ELSE IF Home(h) # Nothing /\ HasPlaceholder(e) THEN "placeholder"
  ELSE Nothing

\* _insert_operation, _populate_operation (and the _new ones).  An element is
\* refused as its own parent.
Attach(h, e) ==
  LET fault == AttachFault(h, e)
  IN  /\ e \notin content /\ e # h
      /\ \/ fault # Nothing /\ Halt(fault)
         \/ /\ fault = Nothing
            /\ Seat(h, e)
            /\ Migrate(Nothing, Home(h), Subtree(e))
            /\ UNCHANGED <<id, sid, types, leaked, halted>>

\* The child of a document has no parent element.  `crosses' is the operation's
\* typeLookup flag: the type map that is updated is that of the destination, as
\* the new parent is set before.
MoveFault(h, e, crosses) ==
  IF parent[e] \in Documents THEN "no parent element"
  ELSE IF e \notin kids[parent[e]] THEN "not in contents"
  ELSE IF e \in Above(h) THEN "endless loop"
  ELSE IF crosses /\ Home(h) = Nothing THEN "null document"
  ELSE IF crosses /\ Unlisted(Home(h), Subtree(e)) THEN "not listed"
  ELSE IF {Doc(e), Home(h)} # {Nothing} /\ HasPlaceholder(e) THEN "placeholder"
  ELSE Nothing

\* _insert_move_operation, _populate_move_operation.  Within a document there is
\* no migration.  (What typeLookup_remove takes, typeLookup_insert puts back.)
Move(h, e, crosses) ==
  LET fault == MoveFault(h, e, crosses)
  IN  \/ fault # Nothing /\ Halt(fault)
      \/ /\ fault = Nothing
         /\ Seat(h, e)
         /\ IF Doc(e) = Home(h) THEN UNCHANGED maps
            ELSE Migrate(Doc(e), Home(h), Subtree(e))
         /\ UNCHANGED <<id, sid, types, leaked, halted>>

\* getDocument() of an array's own element: null for a document's pseudo-element.
MoveElement(h, e) ==
  /\ e \in content /\ e # h
  /\ Move(h, e, Watched(e) /\ Doc(parent[e]) # Doc(h))

\* placeWRT() of a contents-array's node compares the document with itself.
MoveContent(h, e) ==
  /\ e \in content /\ e # h /\ e \in kids[parent[e]]
  /\ Move(h, e, Watched(e) /\ Doc(parent[e]) # Doc(e))

DetachFault(e) ==
  IF Watched(e) /\ Doc(e) = Nothing THEN "null document"
  ELSE IF Watched(e) /\ Unlisted(Doc(e), Subtree(e)) THEN "not listed"
  ELSE IF Doc(e) # Nothing /\ HasPlaceholder(e) THEN "placeholder"
  ELSE Nothing

\* Mutant: the null that is left counts as a child.
Unseated(e) ==
  [h \in Holders |-> IF e \in kids[h] THEN (kids[h] \ {e}) \union {Nothing} ELSE kids[h]]

Emptied(e) == [h \in Holders |-> kids[h] \ {e}]

\* _remove_operation and _vacate_operation, which leaves a placeholder.
Detach(e, placeholders) ==
  /\ DetachFault(e) = Nothing
  /\ kids' = Emptied(e)
  /\ content' = content \ {e}
  /\ vacant' = vacant \union placeholders
  /\ Migrate(Doc(e), Nothing, Subtree(e))
  /\ typeMap' = IF Watched(e) THEN Delisted(Doc(e), Subtree(e)) ELSE typeMap
  /\ UNCHANGED <<parent, touched, id, sid, entries, enabled, leaked, halted>>
-----------------------------------------------------------------------------
(* The client's calls *)

\* Nothing else happens in the middle of an assignment to a slot.
Idle == assigning = Nothing

\* An element is added: new ones, floating ones, or one from another place.
Place(h, e) ==
  /\ Idle /\ UNCHANGED assigning
  /\ Attach(h, e) \/ MoveElement(h, e) \/ MoveContent(h, e)

\* _removeWID of a child.
RemoveWID(e) ==
  /\ Idle /\ e \in content /\ e \in kids[parent[e]]
  /\ \/ DetachFault(e) # Nothing /\ Halt(DetachFault(e))
     \/ Detach(e, {})
  /\ UNCHANGED assigning

\* _setWID on a slot that is taken: the child there is vacated, and its slot is
\* left as a placeholder, or is to take another child.
Vacate(e, next) ==
  /\ Idle /\ e \in content /\ e \in kids[parent[e]] /\ e # next
  /\ \/ DetachFault(e) # Nothing /\ Halt(DetachFault(e)) /\ UNCHANGED assigning
     \/ /\ Cardinality(vacant \union {parent[e]}) <= MaxVacant
        /\ Detach(e, {parent[e]})
        /\ assigning' = IF next = Nothing THEN Nothing ELSE <<parent[e], next>>

\* The second half of the assignment.
Assign ==
  /\ ~Idle
  /\ LET h == assigning[1]
         e == assigning[2]
     IN  /\ Attach(h, e) \/ MoveElement(h, e)
                         \/ (e = h /\ UNCHANGED <<seats, id, sid, maps, types, leaked, halted>>)
         /\ assigning' = Nothing

\* _setWID with a null child, at the end of an array.
AddPlaceholder(h) ==
  /\ Idle /\ Cardinality(vacant \union {h}) <= MaxVacant
  /\ vacant' = vacant \union {h}
  /\ touched' = touched \union ({h} \intersect Elements)
  /\ UNCHANGED <<parent, content, kids, id, sid, maps, types, assigning, leaked, halted>>

\* _removeWID of a placeholder, and removeChildElement of one: its test of the
\* child for null is the wrong way round.
RemovePlaceholder(h) ==
  /\ Idle /\ h \in vacant
  /\ \/ /\ vacant' \in {vacant, vacant \ {h}}
        /\ UNCHANGED <<parent, content, kids, touched, id, sid, maps, types, leaked, halted>>
     \/ Halt("null element")
  /\ UNCHANGED assigning

\* removeChildElement of a child: it is taken for a placeholder, and is struck
\* from the array without an operation.
RemoveChild(e) ==
  /\ Idle /\ e \in content /\ e \in kids[parent[e]]
  /\ Cardinality(leaked \union {e}) <= MaxLeaked
  /\ kids' = Emptied(e)
  /\ leaked' = leaked \union {e}
  /\ UNCHANGED <<parent, content, vacant, touched, id, sid, maps, types, assigning, halted>>

\* What __clear2 does to the seats: from the leaves up, children are vacated.
Cleared(h) ==
  /\ content' = content \ Below(h)
  /\ kids' = [x \in Holders |-> IF x \in Subtree(h) THEN {} ELSE kids[x]]
  /\ vacant' = vacant \ Subtree(h)
  /\ UNCHANGED <<parent, touched, id, sid, enabled, leaked, halted>>

\* getContents().clear().  For a document it is not the document's type map that
\* is kept up: its array's own element has no document.
Clear(h) ==
  LET d == Doc(h)
      listed == {x \in Below(h) : TypeOf[x] \in enabled}
  IN  /\ Idle /\ UNCHANGED assigning
      /\ \/ Unlisted(d, listed) /\ Halt("not listed")
         \/ /\ ~Unlisted(d, listed)
            /\ Cleared(h)
            /\ Migrate(Home(h), Nothing, Below(h))
            /\ typeMap' = Delisted(d, listed)
            /\ UNCHANGED entries

\* __daeDoc__v1__atomize: the maps are cleared, then the array, with nothing left to
\* take off the type map.
Unload(d) ==
  /\ Idle
  /\ Cleared(d)
  /\ idMap' = [idMap EXCEPT ![d] = [i \in IDs |-> Nothing]]
  /\ sidMap' = [sidMap EXCEPT ![d] = {}]
  /\ typeMap' = [typeMap EXCEPT ![d] = {}]
  /\ entries' = [entries EXCEPT ![d] = {}]
  /\ UNCHANGED <<reported, assigning>>
-----------------------------------------------------------------------------
(* Attributes and lookup *)

\* Mutant: the old id stays in the map.
KeptIn(d, e) == idMap[d]

\* The map without the id that e has, whichever element the entry names.
ErasedIn(d, e) == [i \in IDs |-> IF i = id[e] THEN Nothing ELSE idMap[d][i]]

\* Mutant: the entry of another element is overwritten without a word.
NeverTaken(d, e, new) == FALSE

\* Mutant: the entry is looked for before the element's own is out of the map.
TakenBeforeErasing(d, e, new) == new # Nothing /\ idMap[d][new] # Nothing

Taken(d, e, new) == new # Nothing /\ ErasedIn(d, e)[new] # Nothing

SetId(e, new) ==
  LET d == Doc(e)
  IN  /\ Idle
      /\ id' = [id EXCEPT ![e] = new]
      /\ IF d = Nothing THEN UNCHANGED <<idMap, reported>>
         ELSE /\ idMap' = [idMap EXCEPT ![d] =
                   [i \in IDs |-> IF i = new THEN e ELSE ErasedIn(d, e)[i]]]
              /\ reported' = IF Taken(d, e, new)
                             THEN reported \union {<<d, new>>} ELSE reported
      /\ UNCHANGED <<seats, sid, sidMap, types, assigning, leaked, halted>>

SetSid(e, new) ==
  /\ Idle
  /\ sid' = [sid EXCEPT ![e] = new]
  /\ sidMap' = [d \in Documents |->
       IF d = Doc(e)
       THEN (sidMap[d] \ {<<sid[e], e>>}) \union ({new} \ {Nothing}) \X {e}
       ELSE sidMap[d]]
  /\ UNCHANGED <<seats, id, idMap, reported, types, assigning, leaked, halted>>

\* The first lookup of a type lists its elements; from then on the list is kept up.
TypeLookup(d, T) ==
  /\ Idle /\ T \notin entries[d]
  /\ entries' = [entries EXCEPT ![d] = @ \union {T}]
  /\ typeMap' = [typeMap EXCEPT ![d] = @ \union {x \in Below(d) : TypeOf[x] = T}]
  /\ enabled' = enabled \union {T}
  /\ UNCHANGED <<seats, id, sid, maps, assigning, leaked, halted>>
-----------------------------------------------------------------------------
Change ==
  \/ \E h \in Holders, e \in Elements : Place(h, e)
  \/ \E e \in Elements : RemoveWID(e) \/ RemoveChild(e)
  \/ \E e \in Elements, next \in Elements \union {Nothing} : Vacate(e, next)
  \/ Assign
  \/ \E h \in Holders : AddPlaceholder(h) \/ RemovePlaceholder(h) \/ Clear(h)
  \/ \E d \in Documents : Unload(d)

Attribute ==
  \/ \E e \in Elements, i \in IDs \union {Nothing} : SetId(e, i)
  \/ \E e \in Elements, s \in SIDs \union {Nothing} : SetSid(e, s)

Next ==
  /\ halted = Nothing
  /\ Change \/ Attribute \/ \E d \in Documents, T \in LookedUp : TypeLookup(d, T)

Spec == Init /\ [][Next]_vars
-----------------------------------------------------------------------------
(* Safety *)

\* The two directions of the tree agree: a child is content, in the one array of
\* the parent that it points to; and content is in its parent's array, but for
\* what removeChildElement left behind.
OneSeat ==
  /\ \A h \in Holders : \A e \in kids[h] : e \in content /\ parent[e] = h
  /\ \A e \in content \ leaked : e \in kids[parent[e]]

\* The sid map of a document lists its elements' sids exactly, through attribute
\* changes, insertions, moves and removals of whole subtrees.
SidsExact ==
  leaked = {} => \A d \in Documents :
    sidMap[d] = {p \in SIDs \X Elements : sid[p[2]] = p[1] /\ Doc(p[2]) = d}

\* No stale ids: what idLookup finds is in the document, and has that id.
IdsSound ==
  leaked = {} => \A d \in Documents, i \in IDs :
    LET e == idMap[d][i] IN e # Nothing => Doc(e) = d /\ id[e] = i

\* No id is lost silently: idLookup finds the element, unless at some time the
\* document reported that very id as not unique.
IdsFound ==
  leaked = {} => \A e \in Elements :
    LET d == Doc(e)
    IN  d # Nothing /\ id[e] # Nothing /\ <<d, id[e]>> \notin reported =>
          idMap[d][id[e]] = e
-----------------------------------------------------------------------------
(* What all of this implements *)

\* Trees, arrays, placeholders and type maps are left out.
Promise == INSTANCE Catalog WITH
  document <- [e \in Elements |-> Doc(e)],
  found <- idMap,
  listed <- sidMap,
  void <- leaked # {}

\* The operation objects and the database's migration together behave as a Catalog:
\* a step takes one set of elements from one document to one other, with their ids
\* and sids and no others, and an id is reported only where two elements have it.
ImplementsCatalog == Promise!Spec
-----------------------------------------------------------------------------
(* What the sources say and the code does not do *)

\* daeElement.h, removeChildElement: "Removes the element from its parent".
RemovedIsOut == \A e \in content : e \in kids[parent[e]]

\* daeIOPlugin.h, personalizeDocument: "It's here to accelerate typeLookup() if
\* desired.  To do so, call doc.typeLookup_enable<T>()": elements can be added then.
AddsAfterTypeLookup == halted # "null document"

\* daeContent.h, for_each: "This traverses the array only once".
TraversalsEnd == halted # "placeholder"
=============================================================================
