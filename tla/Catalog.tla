------------------------------- MODULE Catalog -------------------------------
(***************************************************************************)
(* What a database promises about elements, whatever arrays seat them.     *)
(*                                                                         *)
(* Every element is in one document or in none, and each step takes one    *)
(* set of elements from one of these to another, or changes one attribute  *)
(* of one element.  Lookups by sid and id answer accordingly: they forget  *)
(* and learn what moved, and nothing else; where two elements of a         *)
(* document have the same id, the document says so, and only there.        *)
(***************************************************************************)

CONSTANTS Elements, Documents, IDs, SIDs, Nothing

VARIABLES
  document,  \* the document of every element
  id, sid,
  found,     \* what a document finds by an id
  listed,    \* what a document lists by sids
  reported,  \* the ids that a document has reported to be not unique
  void       \* a client has done what the database is not told of

vars == <<document, id, sid, found, listed, reported, void>>

Init ==
  /\ document = [e \in Elements |-> Nothing]
  /\ id = [e \in Elements |-> Nothing]
  /\ sid = [e \in Elements |-> Nothing]
  /\ found = [d \in Documents |-> [i \in IDs |-> Nothing]]
  /\ listed = [d \in Documents |-> {}]
  /\ reported = {}
  /\ void = FALSE
-----------------------------------------------------------------------------
(* Lookups *)

\* The elements are in documents, `at' says in which.
Placements == [Elements -> Documents \union {Nothing}]

SidsAnswer(at) ==
  \A d \in Documents :
    listed'[d] = {p \in SIDs \X Elements : sid'[p[2]] = p[1] /\ at[p[2]] = d}

IdsAnswer(at) ==
  /\ \A d \in Documents, i \in IDs : found'[d][i] # Nothing =>
       at[found'[d][i]] = d /\ id'[found'[d][i]] = i
  /\ \A e \in Elements :
       at[e] # Nothing /\ id'[e] # Nothing /\ <<at[e], id'[e]>> \notin reported' =>
         found'[at[e]][id'[e]] = e

\* Nothing is reported without a reason.
ReportsAreTrue(at) ==
  \A p \in reported' \ reported :
    \E x, y \in Elements : x # y /\ at[x] = p[1] /\ at[y] = p[1]
                                 /\ id'[x] = p[2] /\ id'[y] = p[2]

Answers(at) ==
  SidsAnswer(at) /\ IdsAnswer(at) /\ ReportsAreTrue(at) /\ reported \subseteq reported'

\* Only these entries may change.
FoundBut(D, I) ==
  \A d \in Documents, i \in IDs : found'[d][i] # found[d][i] => d \in D /\ i \in I
-----------------------------------------------------------------------------
\* All that changes its document goes the same way.
Transfer(from, to) ==
  LET S == {x \in Elements : to[x] # from[x]}
  IN  /\ UNCHANGED <<id, sid>>
      /\ \A x, y \in S : from[x] = from[y] /\ to[x] = to[y]
      /\ FoundBut({from[x] : x \in S} \union {to[x] : x \in S}, {id[x] : x \in S})

SetId(e, at) ==
  /\ \A x \in Elements \ {e} : id'[x] = id[x]
  /\ UNCHANGED sid
  /\ FoundBut({at[e]}, {id[e], id'[e]})

SetSid(e) ==
  /\ \A x \in Elements \ {e} : sid'[x] = sid[x]
  /\ UNCHANGED <<id, found>>

\* Once the database has missed a change, nothing is promised any more.
Next ==
  \/ void'
  \/ /\ ~void'
     /\ \E from \in {document}, to \in {document'} :
          /\ from \in Placements /\ to \in Placements
          /\ \/ Transfer(from, to)
             \/ from = to /\ \E e \in Elements : SetId(e, from) \/ SetSid(e)
          /\ Answers(to)

Spec == Init /\ [][Next]_vars
=============================================================================
