------------------------------- MODULE Bases -------------------------------
(***************************************************************************)
(* Base URIs: daeDoc::getBaseURI() (src/dom/src/dae/daeDocument.cpp), the  *)
(* flags of elements and documents that let it end early, and the cache of *)
(* the URIs it returns.                                                    *)
(*                                                                         *)
(* An xml:base attribute is a text, resolved against the base of what is   *)
(* above. A URI is the sequence of what it was put together from: the last *)
(* absolute part and the relative parts that follow. The cache is a map    *)
(* from the texts that a base is made of to the URI they resolved to.      *)
(*                                                                         *)
(* setURI() calls the client half way; a document's URI has been replaced  *)
(* by then, and its cache is yet to be cleared.                            *)
(***************************************************************************)
EXTENDS Naturals, SequencesExt

CONSTANTS Members, Files, Addresses,
          Relatives, Absolutes, \* texts of xml:base
          NoBase, Nowhere,
          MaxCached             \* bound: keys in the cache of a document

ASSUME BasesAssumption ==
  /\ Members \intersect Files = {} /\ Nowhere \notin Members \union Files
  /\ Relatives \intersect Absolutes = {}
  /\ NoBase \notin Relatives \union Absolutes /\ Addresses # {}

VARIABLES owner,    \* the element or document that an element is in
          base,     \* the xml:base of an element
          flagged,  \* elements and documents with daeMigrationByte::XML_BASE
          address,  \* _uri of a document
          cached,   \* _xmlBase of a document
          moving,   \* the documents that are in setURI()
          crashed   \* a null document was written to

basesVars == <<owner, base, flagged, address, cached, moving, crashed>>

Texts == Relatives \union Absolutes

\* The document that an element is in, or Nowhere.
DocOf[n \in Members] == IF owner[n] \in Members THEN DocOf[owner[n]] ELSE owner[n]

\* An element and what is below it.
Within(n) ==
  {x \in Members : \A S \in SUBSET Members :
     n \in S /\ (\A y \in Members : owner[y] \in S => y \in S) => x \in S}
-----------------------------------------------------------------------------
(* getBaseURI *)

Resolve(uri, text) == IF text \in Relatives THEN Append(uri, text) ELSE <<text>>

\* daeDocument_xmlBase_relativistic: there is no ':' where a scheme would end. Left out
\* are absolute texts of less than 8 characters, which count as relative and so are looked
\* up by a longer key, and relative ones with a ':' near their start.
LooksRelative(text) == text \in Relatives

\* What is looked up: the texts of the elements that have one, from n up to the first that
\* does not look relative.
Key[n \in Members] ==
  LET up == IF owner[n] \in Members THEN Key[owner[n]] ELSE <<>> IN
  IF n \notin flagged \/ base[n] = NoBase THEN up
  ELSE <<base[n]>> \o (IF LooksRelative(base[n]) THEN up ELSE <<>>)

\* daeDocument_xmlBase: the base of the first text is what the others resolve to, unless
\* they are all in the cache.
FromBase(d, key) ==
  LET from[i \in 1..Len(key) + 1] ==
        IF i > Len(key) THEN address[d]
        ELSE IF SubSeq(key, i, Len(key)) \in DOMAIN cached[d]
             THEN cached[d][SubSeq(key, i, Len(key))]
             ELSE Resolve(from[i + 1], key[i])
  IN  from[1]

BaseURI(n) == IF DocOf[n] \in flagged THEN FromBase(DocOf[n], Key[n]) ELSE address[DocOf[n]]

GetBaseURI(n) ==
  LET d == DocOf[n]
      keys == DOMAIN cached[d] \union (Suffixes(Key[n]) \ {<<>>}) IN
  /\ d \in Files /\ d \in flagged /\ Key[n] # <<>>
  /\ Cardinality(keys) <= MaxCached
  /\ cached' = [cached EXCEPT ![d] = [key \in keys |-> FromBase(d, key)]]
  /\ UNCHANGED <<owner, base, flagged, address, moving, crashed>>
-----------------------------------------------------------------------------
(* Attributes and changes of the tree *)

\* AnyWriter::_reset_type flags the element and its document, if it is in one, when the
\* attribute is first given a value.
SetBase(n, text) ==
  /\ text # base[n]
  /\ base' = [base EXCEPT ![n] = text]
  /\ flagged' = IF text = NoBase THEN flagged
                ELSE flagged \union {n} \union ({DocOf[n]} \intersect Files)
  /\ UNCHANGED <<owner, address, cached, moving, crashed>>

\* document_transition: the destination is flagged for what is moved to it.
Transition(n, d) ==
  IF Within(n) \intersect flagged # {} THEN flagged \union {d} ELSE flagged

\* An element goes into another place, from another or from nowhere. Where there is a
\* source and no destination, document_transition writes to a null document.
Put(n, to) ==
  LET from == DocOf[n]
      at == IF to \in Members THEN DocOf[to] ELSE to IN
  /\ to \notin Within(n) /\ to # owner[n]
  /\ IF at = Nowhere /\ from # Nowhere /\ Within(n) \intersect flagged # {}
     THEN crashed' = TRUE /\ UNCHANGED <<owner, flagged>>
     ELSE /\ owner' = [owner EXCEPT ![n] = to]
          /\ flagged' = IF at \in Files /\ at # from THEN Transition(n, at) ELSE flagged
          /\ UNCHANGED crashed
  /\ UNCHANGED <<base, address, cached, moving>>

\* __daeDoc__v1__atomize: the contents are vacated from the leaves up, each one with a
\* change-notice from the document to none.
Close(d) ==
  LET within == {n \in Members : DocOf[n] = d} IN
  /\ within # {} \/ cached[d] # <<>>
  /\ cached' = [cached EXCEPT ![d] = <<>>]
  /\ IF within \intersect flagged # {}
     THEN crashed' = TRUE /\ UNCHANGED owner
     ELSE /\ owner' = [n \in Members |-> IF n \in within THEN Nowhere ELSE owner[n]]
          /\ UNCHANGED crashed
  /\ UNCHANGED <<base, flagged, address, moving>>
-----------------------------------------------------------------------------
(* Changes of a document's URI *)

\* The new URI is in force when resolveURI() is called; from there, setURI() is recursive.
SetURI(d, uri) ==
  /\ address[d] # <<uri>>
  /\ address' = [address EXCEPT ![d] = <<uri>>]
  /\ moving' = moving \union {d}
  /\ UNCHANGED <<owner, base, flagged, cached, crashed>>

\* Mutant: what the cache holds of the document is kept.
KeepCached(d) == cached

Forget(d) == [cached EXCEPT ![d] = <<>>]

\* resolveURI() has returned.
Settle(d) ==
  /\ d \in moving
  /\ moving' = moving \ {d}
  /\ cached' = Forget(d)
  /\ UNCHANGED <<owner, base, flagged, address, crashed>>

\* _setURI_rebaseNest: the URI of the archive that the document is in has changed.
RebaseNest(d, uri) ==
  /\ d \notin moving /\ address[d] # <<uri>>
  /\ address' = [address EXCEPT ![d] = <<uri>>]
  /\ cached' = Forget(d)
  /\ UNCHANGED <<owner, base, flagged, moving, crashed>>
-----------------------------------------------------------------------------
BasesTypeOK ==
  /\ owner \in [Members -> Members \union Files \union {Nowhere}]
  /\ base \in [Members -> Texts \union {NoBase}]
  /\ flagged \subseteq Members \union Files
  /\ address \in [Files -> {<<uri>> : uri \in Addresses}]
  /\ \A d \in Files : \A key \in DOMAIN cached[d] :
       key \in Seq(Texts) /\ cached[d][key] \in Seq(Texts \union Addresses)
  /\ moving \subseteq Files /\ crashed \in BOOLEAN

BasesInit ==
  /\ owner = [n \in Members |-> Nowhere]
  /\ base = [n \in Members |-> NoBase]
  /\ flagged = {}
  /\ address = [d \in Files |-> <<CHOOSE uri \in Addresses : TRUE>>]
  /\ cached = [d \in Files |-> <<>>]
  /\ moving = {} /\ crashed = FALSE

BasesNext ==
  /\ ~crashed
  /\ \/ \E n \in Members : GetBaseURI(n)
     \/ \E n \in Members, text \in Texts \union {NoBase} : SetBase(n, text)
     \/ \E n \in Members, to \in Members \union Files \union {Nowhere} : Put(n, to)
     \/ \E d \in Files : Close(d) \/ Settle(d)
     \/ \E d \in Files, uri \in Addresses : SetURI(d, uri) \/ RebaseNest(d, uri)

BasesSpec == BasesInit /\ [][BasesNext]_basesVars
-----------------------------------------------------------------------------
\* The base of an element as XML Base has it: its own text against the base of what is
\* above, all the way up to the document.
Meant[n \in Members] ==
  LET up == IF owner[n] \in Members THEN Meant[owner[n]]
            ELSE IF owner[n] \in Files THEN address[owner[n]] ELSE <<>> IN
  IF base[n] = NoBase THEN up ELSE Resolve(up, base[n])

\* getBaseURI() returns the base that XML Base defines, whatever was cached or flagged on
\* the way: the URI of a document changes, attributes are set before and after an element
\* is placed, subtrees come and go, and keys share their ends.
BasesResolve == \A n \in Members : DocOf[n] \in Files \ moving => BaseURI(n) = Meant[n]
=============================================================================
