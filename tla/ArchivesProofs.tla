--------------------------- MODULE ArchivesProofs ---------------------------
(***************************************************************************)
(* The safety properties of Archives, for any number of docs and threads.  *)
(*                                                                         *)
(* The lists matter only as the sets of docs on them: the lemmas on        *)
(* sequences say how uprooting, inserting and appending change the range   *)
(* of a list without repetitions, and the rest of the proof argues about   *)
(* ranges.  IInv is the inductive invariant; one lemma per action shows    *)
(* that the action preserves it.                                           *)
(* The last sections show that Archives implements Library, and what the   *)
(* bisection of a list in the order of its URIs finds.                     *)
(***************************************************************************)
EXTENDS Archives, SequenceTheorems, Recursion

-----------------------------------------------------------------------------
(* The inductive invariant *)

\* Archives are never nested in archives, and one that houses docs is itself housed;
\* a document with contents does not lose its archive.
Anchored ==
  /\ archive[Closed] = Closed /\ archive[DOM] \in Roots
  /\ \A z \in Zips : archive[z] \in Roots
  /\ \A z \in Zips : \A d \in Range(docs[z]) : z \in Range(docs[archive[z]])
  /\ \A d \in filled : archive[d] # Freed

\* A doc that is in the open tree, or on its way, has a URI; an archive has an outer one.
Addressed ==
  /\ \A z \in Zips : uri[z][2] = 0
  /\ \A d \in Docs : archive[d] \in Zips \union {DOM} \/ op[d] = "setURI" => uri[d] \in URIs

\* Nothing is in progress once the DOM is closed.
Idle == ~DOMIsOpen => \A t \in Threads : stack[t] = <<>>

IInv ==
  /\ ArchivesTypeOK /\ OnePlace /\ Housed /\ ParkedWhileMoving /\ OneOperation
  /\ ClosedIsEmpty /\ DOMClosedIsEmpty /\ Anchored /\ Addressed /\ Idle
-----------------------------------------------------------------------------
(* Lists: what taking out, adding at the end and inserting do to the set of the *)
(* elements of a list without repetitions. *)

\* Taking an element out of such a list leaves one without it.
LEMMA RemovalOfPlace ==
  ASSUME NEW S, NEW list \in Seq(S), IsInjective(list), NEW i \in DOMAIN list
  PROVE  /\ RemoveAt(list, i) \in Seq(S)
         /\ IsInjective(RemoveAt(list, i))
         /\ Range(RemoveAt(list, i)) = Range(list) \ {list[i]}
<1> DEFINE w == RemoveAt(list, i)
<1>1. i \in 1..Len(list) /\ Len(list) \in Nat /\ \A j \in 1..Len(list) : list[j] \in S
  BY LenProperties
<1>2. /\ w \in Seq(S)
      /\ Len(w) = Len(list) - 1
      /\ \A j \in 1..Len(w) : w[j] = IF j < i THEN list[j] ELSE list[j + 1]
  <2> DEFINE before == SubSeq(list, 1, i - 1)
             after == SubSeq(list, i + 1, Len(list))
  <2>1. /\ before \in Seq(S) /\ Len(before) = i - 1
        /\ \A j \in 1..(i - 1) : before[j] = list[j]
    BY <1>1, SubSeqProperties
  <2>2. /\ after \in Seq(S) /\ Len(after) = Len(list) - i
        /\ \A j \in 1..(Len(list) - i) : after[j] = list[i + j]
    BY <1>1, SubSeqProperties
  <2>3. w = before \o after
    BY DEF RemoveAt
  <2> HIDE DEF w, before, after
  <2> QED
    BY <1>1, <2>1, <2>2, <2>3, ConcatProperties
<1>3. DOMAIN w = 1..Len(w) /\ DOMAIN list = 1..Len(list)
  BY <1>2, LenProperties
<1> HIDE DEF w
<1>4. IsInjective(w)
  BY <1>1, <1>2, <1>3 DEF IsInjective
<1>5. Range(w) \subseteq Range(list) \ {list[i]}
  BY <1>1, <1>2, <1>3 DEF IsInjective, Range
<1>6. ASSUME NEW j \in DOMAIN list, list[j] # list[i] PROVE list[j] \in Range(w)
  <2>1. CASE j < i
    BY <2>1, <1>1, <1>2, <1>3 DEF Range
  <2>2. CASE j > i
    <3>1. j - 1 \in DOMAIN w /\ w[j - 1] = list[j]
      BY <2>2, <1>1, <1>2, <1>3
    <3> QED
      BY <3>1 DEF Range
  <2> QED
    BY <2>1, <2>2, <1>1, <1>3, <1>6
<1>7. Range(list) \ {list[i]} \subseteq Range(w)
  BY <1>6 DEF Range
<1> QED
  BY <1>2, <1>4, <1>5, <1>7 DEF w

\* Adding an element at the end that is not on the list.
LEMMA Appending ==
  ASSUME NEW S, NEW list \in Seq(S), IsInjective(list), NEW d \in S, d \notin Range(list)
  PROVE  /\ Append(list, d) \in Seq(S)
         /\ IsInjective(Append(list, d))
         /\ Range(Append(list, d)) = Range(list) \union {d}
<1>1. /\ Append(list, d) \in Seq(S)
      /\ Len(Append(list, d)) = Len(list) + 1
      /\ \A j \in 1..Len(list) : Append(list, d)[j] = list[j]
      /\ Append(list, d)[Len(list) + 1] = d
  BY AppendProperties
<1>2. /\ Len(list) \in Nat /\ DOMAIN list = 1..Len(list)
      /\ DOMAIN Append(list, d) = 1..(Len(list) + 1)
  BY <1>1, LenProperties
<1>3. IsInjective(Append(list, d))
  BY <1>1, <1>2 DEF IsInjective, Range
<1>4. Range(Append(list, d)) \subseteq Range(list) \union {d}
  BY <1>1, <1>2 DEF Range
<1>5. Range(list) \union {d} \subseteq Range(Append(list, d))
  BY <1>1, <1>2 DEF Range
<1> QED
  BY <1>1, <1>3, <1>4, <1>5

\* Inserting an element that is not on the list, at whatever place.
LEMMA Inserting ==
  ASSUME NEW S, NEW list \in Seq(S), IsInjective(list), NEW d \in S, d \notin Range(list),
         NEW i \in 1..(Len(list) + 1)
  PROVE  /\ InsertAt(list, i, d) \in Seq(S)
         /\ IsInjective(InsertAt(list, i, d))
         /\ Range(InsertAt(list, i, d)) = Range(list) \union {d}
<1> DEFINE w == InsertAt(list, i, d)
           before == SubSeq(list, 1, i - 1)
           after == SubSeq(list, i, Len(list))
<1>1. Len(list) \in Nat /\ DOMAIN list = 1..Len(list) /\ \A j \in 1..Len(list) : list[j] \in S
  BY LenProperties
<1>2. /\ before \in Seq(S) /\ Len(before) = i - 1
      /\ \A j \in 1..(i - 1) : before[j] = list[j]
  BY <1>1, SubSeqProperties
<1>3. /\ after \in Seq(S) /\ Len(after) = Len(list) - i + 1
      /\ \A j \in 1..(Len(list) - i + 1) : after[j] = list[i + j - 1]
  BY <1>1, SubSeqProperties
<1>4. <<d>> \in Seq(S) /\ Len(<<d>>) = 1 /\ <<d>>[1] = d
  OBVIOUS
<1>5. w = before \o <<d>> \o after
  BY DEF InsertAt
<1> HIDE DEF w, before, after
<1>6. /\ w \in Seq(S) /\ Len(w) = Len(list) + 1
      /\ \A j \in 1..Len(w) : w[j] = IF j < i THEN list[j] ELSE IF j = i THEN d ELSE list[j - 1]
  <2>1. /\ before \o <<d>> \in Seq(S) /\ Len(before \o <<d>>) = i
        /\ \A j \in 1..i : (before \o <<d>>)[j] = IF j < i THEN list[j] ELSE d
    BY <1>1, <1>2, <1>4, ConcatProperties
  <2> QED
    BY <1>1, <1>3, <1>5, <2>1, ConcatProperties
<1>7. DOMAIN w = 1..Len(w)
  BY <1>6, LenProperties
<1> DEFINE from(j) == IF j < i THEN j ELSE j - 1
<1>8. ASSUME NEW j \in DOMAIN w, j # i
      PROVE  from(j) \in DOMAIN list /\ w[j] = list[from(j)] /\ w[j] # d /\ w[j] \in Range(list)
  <2>1. from(j) \in DOMAIN list /\ w[j] = list[from(j)]
    BY <1>1, <1>6, <1>7, <1>8
  <2> QED
    BY <2>1 DEF Range
<1>9. IsInjective(w)
  <2> SUFFICES ASSUME NEW j \in DOMAIN w, NEW k \in DOMAIN w, w[j] = w[k] PROVE j = k
    BY DEF IsInjective
  <2>1. w[i] = d
    BY <1>1, <1>6
  <2>2. CASE j = i \/ k = i
    BY <2>1, <2>2, <1>8
  <2>3. CASE j # i /\ k # i
    <3>1. from(j) = from(k)
      BY <2>3, <1>8 DEF IsInjective
    <3> QED
      BY <3>1, <2>3, <1>1, <1>6, <1>7
  <2> QED
    BY <2>2, <2>3
<1>10. Range(w) \subseteq Range(list) \union {d}
  <2>1. w[i] = d
    BY <1>1, <1>6
  <2> QED
    BY <2>1, <1>8 DEF Range
<1>11. ASSUME NEW j \in DOMAIN list PROVE list[j] \in Range(w)
  <2>1. CASE j < i
    BY <2>1, <1>1, <1>6, <1>7 DEF Range
  <2>2. CASE j >= i
    <3>1. j + 1 \in DOMAIN w /\ w[j + 1] = list[j]
      BY <2>2, <1>1, <1>6, <1>7
    <3> QED
      BY <3>1 DEF Range
  <2> QED
    BY <2>1, <2>2, <1>1
<1>12. d \in Range(w)
  <2>1. i \in DOMAIN w /\ w[i] = d
    BY <1>1, <1>6, <1>7
  <2> QED
    BY <2>1 DEF Range
<1>13. Range(list) \union {d} \subseteq Range(w)
  BY <1>11, <1>12 DEF Range
<1> QED
  BY <1>6, <1>9, <1>13, <1>10 DEF w

\* _uprootDoc: a doc that is on a list comes off it.
LEMMA Uprooting ==
  ASSUME NEW S, NEW list \in Seq(S), IsInjective(list), NEW d \in Range(list)
  PROVE  /\ Without(list, d) \in Seq(S)
         /\ IsInjective(Without(list, d))
         /\ Range(Without(list, d)) = Range(list) \ {d}
<1>1. PICK i \in DOMAIN list : list[i] = d
  BY DEF Range
<1> DEFINE place == CHOOSE j \in DOMAIN list : list[j] = d
<1>2. place \in DOMAIN list /\ list[place] = d
  BY <1>1
<1> HIDE DEF place
<1>3. Without(list, d) = RemoveAt(list, place)
  BY DEF Without, place
<1> QED
  BY <1>2, <1>3, RemovalOfPlace


\* A list holds docs only, each of them once.
LEMMA ListTyping ==
  ASSUME IInv, NEW a \in Archs
  PROVE  /\ docs[a] \in Seq(Docs) /\ IsInjective(docs[a]) /\ Range(docs[a]) \subseteq Docs
         /\ \A d \in Range(docs[a]) : archive[d] = a
<1>1. docs[a] \in Seq(Docs)
  BY DEF IInv, ArchivesTypeOK
<1>2. Range(docs[a]) \subseteq Docs
  BY <1>1, LenProperties DEF Range
<1> QED
  BY <1>1, <1>2 DEF IInv, OnePlace

\* _removeDoc, and _movingDoc: the lists as sets, before and after.
LEMMA Rehousing ==
  ASSUME IInv, NEW a \in Archs, a # Closed, NEW d \in Range(docs[a])
  PROVE  /\ Rehoused(a, d) \in [Archs -> Seq(Docs)]
         /\ \A b \in Archs : IsInjective(Rehoused(a, d)[b])
         /\ \A b \in Archs : Range(Rehoused(a, d)[b]) =
              IF b = Closed THEN Range(docs[Closed]) \union {d} ELSE Range(docs[b]) \ {d}
<1>1. Closed \in Archs
  BY DEF Archs, Roots
<1>2. d \in Docs /\ d \notin Range(docs[Closed])
  BY <1>1, ListTyping
<1>3. /\ Without(docs[a], d) \in Seq(Docs) /\ IsInjective(Without(docs[a], d))
      /\ Range(Without(docs[a], d)) = Range(docs[a]) \ {d}
  BY ListTyping, Uprooting
<1>4. /\ Append(docs[Closed], d) \in Seq(Docs) /\ IsInjective(Append(docs[Closed], d))
      /\ Range(Append(docs[Closed], d)) = Range(docs[Closed]) \union {d}
  BY <1>1, <1>2, ListTyping, Appending
<1>5. docs \in [Archs -> Seq(Docs)]
  BY DEF IInv, ArchivesTypeOK
<1>6. Rehoused(a, d) = [b \in Archs |-> IF b = Closed THEN Append(docs[Closed], d)
                                       ELSE IF b = a THEN Without(docs[a], d) ELSE docs[b]]
  BY <1>1, <1>5 DEF Rehoused
<1>7. ASSUME NEW b \in Archs, b # a, b # Closed PROVE Range(docs[b]) \ {d} = Range(docs[b])
  BY <1>7, ListTyping
<1>8. \A b \in Archs : Rehoused(a, d)[b] = IF b = Closed THEN Append(docs[Closed], d)
                                          ELSE IF b = a THEN Without(docs[a], d) ELSE docs[b]
  BY <1>6
<1>9. Rehoused(a, d) \in [Archs -> Seq(Docs)]
  BY <1>3, <1>4, <1>5, <1>6
<1>10. ASSUME NEW b \in Archs
      PROVE  /\ IsInjective(Rehoused(a, d)[b])
             /\ Range(Rehoused(a, d)[b]) =
                  IF b = Closed THEN Range(docs[Closed]) \union {d} ELSE Range(docs[b]) \ {d}
  <2>1. CASE b = Closed
    BY <2>1, <1>4, <1>8
  <2>2. CASE b = a
    BY <2>2, <1>3, <1>8
  <2>3. CASE b # a /\ b # Closed
    BY <2>3, <1>7, <1>8, ListTyping
  <2> QED
    BY <2>1, <2>2, <2>3
<1> QED
  BY <1>9, <1>10

\* What is referred to is where its archive says, while the DOM is open.
LEMMA Housing ==
  ASSUME IInv, DOMIsOpen, NEW d \in Docs, Referenced(d), archive[d] # Freed
  PROVE  archive[d] \in Archs /\ d \in Range(docs[archive[d]])
BY DEF IInv, ArchivesTypeOK, Housed

\* An idle doc is in no frame.
LEMMA NotLocked ==
  ASSUME IInv, NEW d \in Docs, op[d] = "none"
  PROVE  ~Locked(d)
<1> SUFFICES ASSUME NEW t \in Threads, NEW i \in DOMAIN stack[t], stack[t][i].doc = d PROVE FALSE
  BY DEF Locked
<1>1. stack[t][i] \in Frames
  BY LenProperties DEF IInv, ArchivesTypeOK
<1>2. stack[t][i].kind # "none" /\ op[stack[t][i].doc] = stack[t][i].kind
  BY <1>1 DEF IInv, OneOperation, Frames
<1> QED
  BY <1>2
-----------------------------------------------------------------------------
(* Preservation, one lemma per action *)

LEMMA InitInv == ArchivesInit => IInv
<1> SUFFICES ASSUME ArchivesInit PROVE IInv
  OBVIOUS
<1>1. \A a \in Archs : docs[a] = <<>> /\ docs[a] \in Seq(Docs) /\ Range(docs[a]) = {} /\ IsInjective(docs[a])
  BY DEF ArchivesInit, Range, IsInjective
<1>2. ArchivesTypeOK
  BY DocsAssumption DEF ArchivesInit, ArchivesTypeOK, Archs, Roots, URIs, NoURI
<1>3. OnePlace /\ Housed
  <2>1. \A d \in Docs : ~Referenced(d)
    BY DocsAssumption DEF ArchivesInit, Referenced, Locked, Docs
  <2> QED
    BY <1>1, <2>1 DEF OnePlace, Housed
<1>4. ParkedWhileMoving /\ OneOperation /\ ClosedIsEmpty /\ DOMClosedIsEmpty /\ Idle
  BY DEF ArchivesInit, ParkedWhileMoving, OneOperation, ClosedIsEmpty, DOMClosedIsEmpty, Idle
<1>5. Anchored
  BY <1>1, DocsAssumption DEF ArchivesInit, Anchored, Docs, Roots, Archs
<1>6. Addressed
  BY DocsAssumption DEF ArchivesInit, Addressed, Docs, Roots, NoURI
<1> QED
  BY <1>2, <1>3, <1>4, <1>5, <1>6 DEF IInv

\* Steps that change none of what the invariant reads, a failed assertion included.
LEMMA StutterInv ==
  ASSUME IInv, UNCHANGED <<docs, archive, uri, link, filled, held, op, opThread, stack>>,
         aborted' \in Assertions \union {Nothing}
  PROVE  IInv'
<1>1. ArchivesTypeOK' /\ OnePlace' /\ Anchored' /\ Addressed'
  BY DEF IInv, ArchivesTypeOK, OnePlace, Anchored, Addressed
<1>2. Housed' /\ ParkedWhileMoving' /\ OneOperation'
  BY DEF IInv, Housed, ParkedWhileMoving, OneOperation, DOMIsOpen, Referenced, Locked
<1>3. ClosedIsEmpty' /\ DOMClosedIsEmpty' /\ Idle'
  BY DEF IInv, ClosedIsEmpty, DOMClosedIsEmpty, Idle, DOMIsOpen, IsClosed
<1> QED
  BY <1>1, <1>2, <1>3 DEF IInv

\* Steps of the client that change references or contents only: whatever is newly
\* referred to has to be housed, and newly filled documents open or without a URI.
LEMMA ReferencesInv ==
  ASSUME IInv, UNCHANGED <<docs, archive, uri, op, opThread, stack, aborted>>, DOMIsOpen,
         link' \in [Zips -> Documents \union {Nothing}], held' \subseteq Docs,
         \A d \in Docs : Referenced(d)' /\ archive[d] # Freed => d \in Range(docs[archive[d]]),
         filled' \subseteq Documents,
         \A d \in filled' \ filled : archive[d] # Freed /\ (uri[d] = NoURI \/ ~IsClosed(d))
  PROVE  IInv'
<1>1. ArchivesTypeOK' /\ OnePlace' /\ Addressed'
  BY DEF IInv, ArchivesTypeOK, OnePlace, Addressed
<1>2. Housed' /\ ParkedWhileMoving' /\ OneOperation' /\ Idle'
  BY DEF IInv, Housed, ParkedWhileMoving, OneOperation, Idle, DOMIsOpen, Locked
<1>3. ClosedIsEmpty'
  <2> SUFFICES ASSUME NEW d \in filled', archive[d] # Freed, IsClosed(d), uri[d] # NoURI
               PROVE  \E x \in {d, archive[d]} \intersect Docs : op[x] = "setURI"
    BY DEF ClosedIsEmpty, IsClosed, DOMIsOpen
  <2>1. d \in filled
    OBVIOUS
  <2> QED
    BY <2>1 DEF IInv, ClosedIsEmpty
<1>4. DOMClosedIsEmpty' /\ Anchored'
  BY DEF IInv, DOMClosedIsEmpty, Anchored, DOMIsOpen
<1> QED
  BY <1>1, <1>2, <1>3, <1>4 DEF IInv

LEMMA ReleaseInv ==
  ASSUME IInv, NEW d \in Docs, Release(d)
  PROVE  IInv'
<1>1. CASE DOMIsOpen
  <2>1. \A x \in Docs : Referenced(x)' => Referenced(x)
    BY DEF Release, Referenced, Locked
  <2> QED
    BY <1>1, <2>1, ReferencesInv DEF Release, IInv, ArchivesTypeOK, Housed
<1>2. CASE ~DOMIsOpen
  <2>1. ArchivesTypeOK' /\ OnePlace' /\ Anchored' /\ Addressed'
    BY DEF Release, IInv, ArchivesTypeOK, OnePlace, Anchored, Addressed
  <2>2. Housed' /\ ClosedIsEmpty'
    BY <1>2 DEF Release, Housed, ClosedIsEmpty, DOMIsOpen
  <2>3. DOMClosedIsEmpty' /\ Idle' /\ ParkedWhileMoving' /\ OneOperation'
    BY DEF Release, IInv, DOMClosedIsEmpty, Idle, DOMIsOpen, ParkedWhileMoving,
           OneOperation, Locked
  <2> QED
    BY <2>1, <2>2, <2>3 DEF IInv
<1> QED
  BY <1>1, <1>2

\* The doc that a lookup finds is on a list.
LEMMA MatchListed ==
  ASSUME IInv, NEW u, Match(u) # Nothing
  PROVE  Scope(u) \in Archs \ {Closed} /\ Match(u) \in Range(docs[Scope(u)])
<1>1. Scope(u) \in Archs \ {Closed}
  BY DocsAssumption DEF Scope, Archs, Roots, Docs
<1> QED
  BY <1>1 DEF Match, Range

LEMMA GetDocInv ==
  ASSUME IInv, NEW u \in URIs, GetDoc(u)
  PROVE  IInv'
<1>1. /\ DOMIsOpen /\ Match(u) # Nothing /\ held' = held \union {Match(u)}
      /\ UNCHANGED <<docs, archive, uri, link, filled, op, opThread, stack, aborted>>
  BY DEF GetDoc
<1>2. Match(u) \in Docs /\ Match(u) \in Range(docs[archive[Match(u)]])
  BY <1>1, MatchListed, ListTyping
<1>3. ASSUME NEW x \in Docs, Referenced(x)', archive[x] # Freed
      PROVE  x \in Range(docs[archive[x]])
  <2>1. x = Match(u) \/ Referenced(x)
    BY <1>1, <1>3 DEF Referenced, Locked
  <2> QED
    BY <1>1, <1>2, <1>3, <2>1, Housing
<1> QED
  BY <1>1, <1>2, <1>3, ReferencesInv DEF IInv, ArchivesTypeOK

LEMMA FillInv ==
  ASSUME IInv, NEW d \in Documents, Fill(d)
  PROVE  IInv'
<1>1. /\ DOMIsOpen /\ d \in held /\ archive[d] # Freed /\ (uri[d] = NoURI \/ ~IsClosed(d))
      /\ filled' = filled \union {d}
      /\ UNCHANGED <<docs, archive, uri, link, held, op, opThread, stack, aborted>>
  BY DEF Fill, Usable
<1>2. \A x \in Docs : Referenced(x)' => Referenced(x)
  BY <1>1 DEF Referenced, Locked
<1> QED
  BY <1>1, <1>2, Housing, ReferencesInv DEF IInv, ArchivesTypeOK

LEMMA SetDocumentInv ==
  ASSUME IInv, NEW a \in Zips, NEW d \in Documents, SetDocument(a, d)
  PROVE  IInv'
<1>1. /\ DOMIsOpen /\ d \in held /\ link' = [link EXCEPT ![a] = d]
      /\ UNCHANGED <<docs, archive, uri, filled, held, op, opThread, stack, aborted>>
  BY DEF SetDocument, Usable
<1>2. \A x \in Docs : Referenced(x)' => Referenced(x)
  BY <1>1 DEF Referenced, Locked, IInv, ArchivesTypeOK
<1> QED
  BY <1>1, <1>2, Housing, ReferencesInv DEF IInv, ArchivesTypeOK

-----------------------------------------------------------------------------
(* Frames *)

\* _doOperation begins: a frame for a doc that is in none.
LEMMA Pushing ==
  ASSUME IInv, NEW t \in Threads, NEW d \in Docs, NEW kind \in {"close", "setURI"},
         op[d] = "none", Push(t, kind, d)
  PROVE  /\ stack' \in [Threads -> Seq(Frames)]
         /\ op' \in [Docs -> {"none", "close", "setURI"}]
         /\ opThread' \in [Docs -> Threads \union {Nothing}]
         /\ op'[d] = kind /\ \A x \in Docs \ {d} : op'[x] = op[x]
         /\ \A x \in Docs : Locked(x)' <=> Locked(x) \/ x = d
         /\ OneOperation'
<1> DEFINE frame == [kind |-> kind, doc |-> d]
<1>1. frame \in Frames /\ <<frame>> \in Seq(Frames) /\ Len(<<frame>>) = 1 /\ <<frame>>[1] = frame
  BY DEF Frames
<1>2. stack \in [Threads -> Seq(Frames)]
  BY DEF IInv, ArchivesTypeOK
<1>3. ASSUME NEW s \in Seq(Frames)
      PROVE  /\ <<frame>> \o s \in Seq(Frames)
             /\ DOMAIN (<<frame>> \o s) = 1..(Len(s) + 1)
             /\ \A i \in 1..(Len(s) + 1) : (<<frame>> \o s)[i] = IF i = 1 THEN frame ELSE s[i - 1]
             /\ DOMAIN s = 1..Len(s) /\ Len(s) \in Nat
  <2>1. <<frame>> \o s \in Seq(Frames) /\ Len(<<frame>> \o s) = Len(s) + 1
    BY <1>1, ConcatProperties
  <2>2. \A i \in 1..(Len(s) + 1) : (<<frame>> \o s)[i] = IF i <= 1 THEN <<frame>>[i] ELSE s[i - 1]
    BY <1>1, ConcatProperties
  <2> QED
    BY <1>1, <2>1, <2>2, LenProperties
<1> HIDE DEF frame
<1>4. /\ stack' = [stack EXCEPT ![t] = <<frame>> \o stack[t]]
      /\ op' = [op EXCEPT ![d] = kind] /\ opThread' = [opThread EXCEPT ![d] = t]
  BY DEF Push, frame
<1>5. stack' \in [Threads -> Seq(Frames)]
  BY <1>2, <1>3, <1>4
<1>6. /\ op' \in [Docs -> {"none", "close", "setURI"}]
      /\ opThread' \in [Docs -> Threads \union {Nothing}]
      /\ op'[d] = kind /\ opThread'[d] = t
      /\ \A x \in Docs \ {d} : op'[x] = op[x] /\ opThread'[x] = opThread[x]
  BY <1>4 DEF IInv, ArchivesTypeOK
<1>7. stack'[t] = <<frame>> \o stack[t] /\ \A r \in Threads \ {t} : stack'[r] = stack[r]
  BY <1>2, <1>4
<1>8. frame.doc = d /\ frame.kind = kind
  BY DEF frame
<1>9. ASSUME NEW x \in Docs PROVE Locked(x)' <=> Locked(x) \/ x = d
  <2>1. ASSUME Locked(x)' PROVE Locked(x) \/ x = d
    <3>1. PICK r \in Threads : \E i \in DOMAIN stack'[r] : stack'[r][i].doc = x
      BY <2>1 DEF Locked
    <3>2. PICK i \in DOMAIN stack'[r] : stack'[r][i].doc = x
      BY <3>1
    <3>3. CASE r # t
      BY <3>2, <3>3, <1>7 DEF Locked
    <3>4. CASE r = t /\ i = 1
      BY <3>2, <3>4, <1>2, <1>3, <1>7, <1>8
    <3>5. CASE r = t /\ i # 1
      <4>1. i - 1 \in DOMAIN stack[t] /\ stack[t][i - 1].doc = x
        BY <3>2, <3>5, <1>2, <1>3, <1>7
      <4> QED
        BY <4>1 DEF Locked
    <3> QED
      BY <3>3, <3>4, <3>5
  <2>2. ASSUME Locked(x) PROVE Locked(x)'
    <3>1. PICK r \in Threads : \E i \in DOMAIN stack[r] : stack[r][i].doc = x
      BY <2>2 DEF Locked
    <3>2. PICK i \in DOMAIN stack[r] : stack[r][i].doc = x
      BY <3>1
    <3>3. CASE r # t
      BY <3>2, <3>3, <1>7 DEF Locked
    <3>4. CASE r = t
      <4>1. i + 1 \in DOMAIN stack'[t] /\ stack'[t][i + 1].doc = x
        BY <3>2, <3>4, <1>2, <1>3, <1>7
      <4> QED
        BY <4>1 DEF Locked
    <3> QED
      BY <3>3, <3>4
  <2>3. Locked(d)'
    <3>1. 1 \in DOMAIN stack'[t] /\ stack'[t][1].doc = d
      BY <1>2, <1>3, <1>7, <1>8
    <3> QED
      BY <3>1 DEF Locked
  <2> QED
    BY <2>1, <2>2, <2>3
<1>10. ASSUME NEW r \in Threads, NEW i \in DOMAIN stack[r]
       PROVE  /\ stack[r][i].doc \in Docs /\ stack[r][i].doc # d
              /\ op[stack[r][i].doc] = stack[r][i].kind /\ opThread[stack[r][i].doc] = r
              /\ \A j \in DOMAIN stack[r] : stack[r][j].doc = stack[r][i].doc => j = i
  <2>1. stack[r][i] \in Frames
    BY <1>2, LenProperties
  <2> QED
    BY <2>1, NotLocked DEF Frames, Locked, IInv, OneOperation
<1>11. ASSUME NEW r \in Threads, NEW i \in DOMAIN stack'[r]
       PROVE  /\ op'[stack'[r][i].doc] = stack'[r][i].kind /\ opThread'[stack'[r][i].doc] = r
              /\ \A j \in DOMAIN stack'[r] : stack'[r][j].doc = stack'[r][i].doc => j = i
  <2>1. CASE r # t
    BY <2>1, <1>6, <1>7, <1>10
  <2>2. CASE r = t /\ i = 1
    <3>1. stack'[t][i] = frame
      BY <2>2, <1>2, <1>3, <1>7
    <3>2. ASSUME NEW j \in DOMAIN stack'[t], j # 1 PROVE stack'[t][j].doc # d
      <4>1. j - 1 \in DOMAIN stack[t] /\ stack'[t][j] = stack[t][j - 1]
        BY <3>2, <1>2, <1>3, <1>7
      <4> QED
        BY <4>1, <1>10
    <3> QED
      BY <2>2, <3>1, <3>2, <1>6, <1>8
  <2>3. CASE r = t /\ i # 1
    <3>1. i - 1 \in DOMAIN stack[t] /\ stack'[t][i] = stack[t][i - 1]
      BY <2>3, <1>2, <1>3, <1>7
    <3>2. ASSUME NEW j \in DOMAIN stack'[t], stack'[t][j].doc = stack'[t][i].doc PROVE j = i
      <4>1. CASE j = 1
        <5>1. stack'[t][j].doc = d
          BY <4>1, <1>2, <1>3, <1>7, <1>8
        <5> QED
          BY <5>1, <3>1, <3>2, <1>10
      <4>2. CASE j # 1
        <5>1. j - 1 \in DOMAIN stack[t] /\ stack'[t][j] = stack[t][j - 1]
          BY <4>2, <1>2, <1>3, <1>7
        <5>2. j - 1 = i - 1
          BY <5>1, <3>1, <3>2, <1>10
        <5> QED
          BY <5>2, <2>3, <1>2, <1>3, <1>7
      <4> QED
        BY <4>1, <4>2
    <3> QED
      BY <2>3, <3>1, <3>2, <1>6, <1>10
  <2> QED
    BY <2>1, <2>2, <2>3
<1>12. ASSUME NEW x \in Docs, op'[x] # "none" PROVE Locked(x)'
  BY <1>6, <1>9, <1>12 DEF IInv, OneOperation
<1>13. OneOperation'
  BY <1>11, <1>12 DEF OneOperation
<1> QED
  BY <1>5, <1>6, <1>9, <1>13

\* The innermost frame of a thread holds the lock on its doc.
LEMMA Innermost ==
  ASSUME IInv, NEW t \in Threads, stack[t] # <<>>
  PROVE  /\ Head(stack[t]) \in Frames /\ Head(stack[t]).doc \in Docs
         /\ op[Head(stack[t]).doc] = Head(stack[t]).kind
         /\ Locked(Head(stack[t]).doc)
         /\ Head(stack[t]) = stack[t][1] /\ 1 \in DOMAIN stack[t]
<1>1. stack[t] \in Seq(Frames)
  BY DEF IInv, ArchivesTypeOK
<1>2. Head(stack[t]) = stack[t][1] /\ 1 \in DOMAIN stack[t] /\ stack[t][1] \in Frames
  BY <1>1, LenProperties, EmptySeq
<1> QED
  BY <1>2 DEF IInv, OneOperation, Locked, Frames

\* _doOperation ends: its frame was the only one of its doc.
LEMMA Popping ==
  ASSUME IInv, NEW t \in Threads, stack[t] # <<>>, Pop(t)
  PROVE  /\ stack' \in [Threads -> Seq(Frames)]
         /\ op' \in [Docs -> {"none", "close", "setURI"}]
         /\ opThread' = opThread
         /\ op'[Head(stack[t]).doc] = "none"
         /\ \A x \in Docs \ {Head(stack[t]).doc} : op'[x] = op[x]
         /\ \A x \in Docs : Locked(x)' => Locked(x)
         /\ OneOperation'
<1> DEFINE d == Head(stack[t]).doc
<1>1. stack \in [Threads -> Seq(Frames)] /\ opThread \in [Docs -> Threads \union {Nothing}]
  BY DEF IInv, ArchivesTypeOK
<1>2. /\ Tail(stack[t]) \in Seq(Frames)
      /\ DOMAIN stack[t] = 1..Len(stack[t]) /\ Len(stack[t]) \in Nat \ {0}
      /\ DOMAIN Tail(stack[t]) = 1..(Len(stack[t]) - 1)
      /\ \A i \in 1..(Len(stack[t]) - 1) : Tail(stack[t])[i] = stack[t][i + 1]
  BY <1>1, LenProperties, EmptySeq, HeadTailProperties
<1>3. d \in Docs /\ d = stack[t][1].doc /\ 1 \in DOMAIN stack[t]
  BY Innermost
<1> HIDE DEF d
<1>4. op' = [op EXCEPT ![d] = "none"] /\ stack' = [stack EXCEPT ![t] = Tail(stack[t])] /\ opThread' = opThread
  BY DEF Pop, d
<1>5. stack' \in [Threads -> Seq(Frames)]
  BY <1>1, <1>2, <1>4
<1>6. /\ op' \in [Docs -> {"none", "close", "setURI"}] /\ op'[d] = "none"
      /\ \A x \in Docs \ {d} : op'[x] = op[x]
  BY <1>3, <1>4 DEF IInv, ArchivesTypeOK
<1>7. /\ \A r \in Threads \ {t} : stack'[r] = stack[r]
      /\ \A i \in DOMAIN stack'[t] : i + 1 \in DOMAIN stack[t] /\ stack'[t][i] = stack[t][i + 1]
      /\ \A i \in DOMAIN stack'[t] : i \in Nat \ {0}
  BY <1>1, <1>2, <1>4
<1>8. ASSUME NEW x \in Docs, Locked(x)' PROVE Locked(x)
  BY <1>7, <1>8 DEF Locked
<1>9. ASSUME NEW r \in Threads, NEW i \in DOMAIN stack[r]
      PROVE  /\ stack[r][i].doc \in Docs
             /\ op[stack[r][i].doc] = stack[r][i].kind /\ opThread[stack[r][i].doc] = r
             /\ \A j \in DOMAIN stack[r] : stack[r][j].doc = stack[r][i].doc => j = i
  <2>1. stack[r][i] \in Frames
    BY <1>1, LenProperties
  <2> QED
    BY <2>1 DEF Frames, IInv, OneOperation
<1>10. ASSUME NEW r \in Threads, NEW i \in DOMAIN stack'[r]
       PROVE  /\ op'[stack'[r][i].doc] = stack'[r][i].kind /\ opThread'[stack'[r][i].doc] = r
              /\ \A j \in DOMAIN stack'[r] : stack'[r][j].doc = stack'[r][i].doc => j = i
  <2>1. CASE r # t
    <3>1. stack[r][i].doc # d
      BY <2>1, <1>3, <1>7, <1>9
    <3> QED
      BY <2>1, <3>1, <1>4, <1>6, <1>7, <1>9
  <2>2. CASE r = t
    <3>1. i + 1 \in DOMAIN stack[t] /\ stack'[t][i] = stack[t][i + 1] /\ i + 1 # 1
      BY <2>2, <1>7
    <3>2. stack'[t][i].doc # d
      BY <3>1, <1>3, <1>9
    <3>3. ASSUME NEW j \in DOMAIN stack'[t], stack'[t][j].doc = stack'[t][i].doc PROVE j = i
      <4>1. j + 1 = i + 1
        BY <3>1, <3>3, <1>7, <1>9
      <4> QED
        BY <4>1, <2>2, <1>7
    <3> QED
      BY <2>2, <3>1, <3>2, <3>3, <1>4, <1>6, <1>9
  <2> QED
    BY <2>1, <2>2
<1>11. ASSUME NEW x \in Docs, op'[x] # "none" PROVE Locked(x)'
  <2>1. x # d /\ Locked(x)
    BY <1>6, <1>11 DEF IInv, OneOperation
  <2>2. PICK r \in Threads : \E i \in DOMAIN stack[r] : stack[r][i].doc = x
    BY <2>1 DEF Locked
  <2>3. PICK i \in DOMAIN stack[r] : stack[r][i].doc = x
    BY <2>2
  <2>4. CASE r # t
    BY <2>3, <2>4, <1>7 DEF Locked
  <2>5. CASE r = t
    <3>1. i # 1
      BY <2>1, <2>3, <2>5, <1>3
    <3>2. i - 1 \in DOMAIN stack'[t] /\ stack'[t][i - 1] = stack[t][i]
      BY <2>3, <2>5, <3>1, <1>1, <1>2, <1>4
    <3> QED
      BY <3>2, <2>3, <2>5 DEF Locked
  <2> QED
    BY <2>4, <2>5
<1>12. OneOperation'
  BY <1>10, <1>11 DEF OneOperation
<1> QED
  BY <1>4, <1>5, <1>6, <1>8, <1>12 DEF d
-----------------------------------------------------------------------------
(* Preservation: docs that come, move and close *)

\* A doc that is not alive is on no list, has no contents, is in no frame, and
\* nothing that is alive is housed in it.
LEMMA Dead ==
  ASSUME IInv, DOMIsOpen, NEW d \in Docs, ~Live(d)
  PROVE  /\ \A a \in Archs : d \notin Range(docs[a])
         /\ d \notin held /\ d \notin filled /\ ~Locked(d) /\ op[d] = "none"
         /\ \A z \in Zips : link[z] # d
         /\ \A x \in Docs : x \in Range(docs[archive[x]]) /\ archive[x] \in Archs => archive[x] # d
<1>1. /\ \A a \in Archs : d \notin Range(docs[a])
      /\ d \notin held /\ d \notin filled /\ ~Locked(d)
      /\ \A z \in Zips : link[z] # d
  BY DEF Live, Listed, Referenced
<1>2. op[d] = "none"
  BY <1>1 DEF IInv, OneOperation
<1>3. ASSUME NEW x \in Docs, x \in Range(docs[archive[x]]), archive[x] \in Archs, archive[x] = d
      PROVE  FALSE
  <2>1. d \in Zips
    BY <1>3, DocsAssumption DEF Archs, Docs
  <2>2. d \in Range(docs[archive[d]]) /\ archive[d] \in Archs
    BY <1>3, <2>1 DEF IInv, Anchored, Archs
  <2> QED
    BY <1>1, <2>2
<1> QED
  BY <1>1, <1>2, <1>3

LEMMA NewDocInv ==
  ASSUME IInv, NEW d \in Docs, NewDoc(d)
  PROVE  IInv'
<1>1. /\ DOMIsOpen /\ ~Live(d)
      /\ docs' = [docs EXCEPT ![Closed] = Append(@, d)]
      /\ archive' = [archive EXCEPT ![d] = Closed]
      /\ uri' = [uri EXCEPT ![d] = NoURI]
      /\ held' = held \union {d}
      /\ UNCHANGED <<link, filled, op, opThread, stack, aborted>>
  BY DEF NewDoc
<1>2. /\ \A a \in Archs : d \notin Range(docs[a])
      /\ d \notin filled /\ op[d] = "none"
      /\ \A z \in Zips : link[z] # d
  BY <1>1, Dead
<1>3. Closed \in Archs /\ d # Closed /\ d # DOM /\ Freed # Closed
  BY DocsAssumption DEF Archs, Roots, Docs
<1>4. /\ docs' \in [Archs -> Seq(Docs)]
      /\ \A a \in Archs : IsInjective(docs'[a])
      /\ \A a \in Archs : Range(docs'[a]) =
           IF a = Closed THEN Range(docs[Closed]) \union {d} ELSE Range(docs[a])
  <2>1. /\ Append(docs[Closed], d) \in Seq(Docs) /\ IsInjective(Append(docs[Closed], d))
        /\ Range(Append(docs[Closed], d)) = Range(docs[Closed]) \union {d}
    BY <1>2, <1>3, ListTyping, Appending
  <2>2. docs \in [Archs -> Seq(Docs)]
    BY DEF IInv, ArchivesTypeOK
  <2> QED
    BY <1>1, <1>3, <2>1, <2>2, ListTyping
<1>5. /\ archive' \in [Docs \union Roots -> Archs \union {Freed}] /\ archive'[d] = Closed
      /\ \A x \in (Docs \union Roots) \ {d} : archive'[x] = archive[x]
      /\ uri' \in [Docs -> URIs \union {NoURI}] /\ uri'[d] = NoURI
      /\ \A x \in Docs \ {d} : uri'[x] = uri[x]
  BY <1>1, <1>3 DEF IInv, ArchivesTypeOK
<1>6. ArchivesTypeOK'
  BY <1>1, <1>4, <1>5 DEF IInv, ArchivesTypeOK
<1>7. OnePlace'
  <2> SUFFICES ASSUME NEW a \in Archs, NEW x \in Range(docs'[a]) PROVE archive'[x] = a
    BY <1>4 DEF OnePlace
  <2>1. CASE x = d
    BY <2>1, <1>2, <1>4, <1>5
  <2>2. CASE x # d
    BY <2>2, <1>3, <1>4, <1>5, ListTyping
  <2> QED
    BY <2>1, <2>2
<1>8. \A x \in Docs \ {d} : Referenced(x)' => Referenced(x)
  BY <1>1 DEF Referenced, Locked
<1>9. ASSUME NEW x \in Docs, Referenced(x)', archive'[x] # Freed
      PROVE  x \in Range(docs'[archive'[x]])
  <2>1. CASE x = d
    BY <2>1, <1>3, <1>4, <1>5
  <2>2. CASE x # d
    <3>1. archive'[x] = archive[x] /\ archive[x] \in Archs /\ x \in Range(docs[archive[x]])
      BY <2>2, <1>1, <1>5, <1>8, <1>9, Housing
    <3> QED
      BY <3>1, <1>4
  <2> QED
    BY <2>1, <2>2
<1>10. Housed'
  BY <1>9 DEF Housed
<1>11. ParkedWhileMoving'
  BY <1>1, <1>2, <1>3, <1>4, <1>5 DEF IInv, ParkedWhileMoving
<1>12. OneOperation' /\ Idle'
  BY <1>1, <1>3, <1>5 DEF IInv, OneOperation, Locked, Idle, DOMIsOpen, Roots
<1>13. ClosedIsEmpty'
  <2> SUFFICES ASSUME NEW x \in filled, archive'[x] # Freed, IsClosed(x)', uri'[x] # NoURI
               PROVE  \E y \in {x, archive'[x]} \intersect Docs : op'[y] = "setURI"
    BY <1>1 DEF ClosedIsEmpty
  <2>1. x \in Docs /\ x # d /\ archive'[x] = archive[x] /\ Referenced(x)
    BY <1>2, <1>5 DEF IInv, ArchivesTypeOK, Docs, Referenced
  <2>2. archive[x] \in Archs /\ archive[x] # d
    BY <2>1, <1>1, Dead, Housing
  <2>3. IsClosed(x)
    BY <2>1, <2>2, <1>1, <1>3, <1>5 DEF IsClosed, DOMIsOpen, Archs, Docs, Roots
  <2> QED
    BY <2>1, <2>3, <1>1, <1>5 DEF IInv, ClosedIsEmpty
<1>14. DOMClosedIsEmpty'
  BY <1>1, <1>3, <1>5 DEF DOMClosedIsEmpty, DOMIsOpen, Roots
<1>15. Anchored'
  <2>1. archive'[Closed] = Closed /\ archive'[DOM] \in Roots /\ \A z \in Zips : archive'[z] \in Roots
    BY <1>3, <1>5 DEF IInv, Anchored, Roots, Docs
  <2>2. ASSUME NEW z \in Zips, NEW x \in Range(docs'[z])
        PROVE  z \in Range(docs'[archive'[z]])
    <3>1. z \in Docs /\ z # Closed /\ z \in Archs /\ x \in Range(docs[z])
      BY <2>2, <1>4, DocsAssumption DEF Docs, Archs, Roots
    <3>2. z \in Range(docs[archive[z]]) /\ archive[z] \in Archs
      BY <2>2, <3>1 DEF IInv, Anchored, Archs
    <3>3. z # d
      BY <3>2, <1>2
    <3> QED
      BY <3>1, <3>2, <3>3, <1>4, <1>5
  <2>3. \A x \in filled' : archive'[x] # Freed
    BY <1>1, <1>2, <1>5 DEF IInv, Anchored, ArchivesTypeOK, Docs
  <2> QED
    BY <2>1, <2>2, <2>3 DEF Anchored
<1>16. Addressed'
  BY <1>1, <1>2, <1>3, <1>5, DocsAssumption DEF IInv, Addressed, NoURI, Docs, Roots
<1> QED
  BY <1>6, <1>7, <1>10, <1>11, <1>12, <1>13, <1>14, <1>15, <1>16 DEF IInv

\* _movingDoc: wherever the doc was, it is in _closedDocs afterwards.
LEMMA Parking ==
  ASSUME IInv, DOMIsOpen, NEW d \in Docs, Referenced(d), archive[d] # Freed,
         IF archive[d] = Closed
         THEN UNCHANGED <<docs, archive>>
         ELSE /\ docs' = Rehoused(archive[d], d)
              /\ archive' = [archive EXCEPT ![d] = Closed]
  PROVE  /\ docs' \in [Archs -> Seq(Docs)]
         /\ \A a \in Archs : IsInjective(docs'[a])
         /\ \A a \in Archs : Range(docs'[a]) =
              IF a = Closed THEN Range(docs[Closed]) \union {d} ELSE Range(docs[a]) \ {d}
         /\ archive' \in [Docs \union Roots -> Archs \union {Freed}] /\ archive'[d] = Closed
         /\ \A x \in (Docs \union Roots) \ {d} : archive'[x] = archive[x]
<1>1. archive[d] \in Archs /\ d \in Range(docs[archive[d]])
  BY Housing
<1>2. archive \in [Docs \union Roots -> Archs \union {Freed}] /\ Closed \in Archs
  BY DEF IInv, ArchivesTypeOK, Archs, Roots
<1>3. CASE archive[d] = Closed
  <2>1. /\ docs' \in [Archs -> Seq(Docs)] /\ \A a \in Archs : IsInjective(docs'[a])
        /\ \A a \in Archs \ {Closed} : d \notin Range(docs[a])
    BY <1>3, ListTyping DEF IInv, ArchivesTypeOK
  <2> QED
    BY <2>1, <1>1, <1>2, <1>3
<1>4. CASE archive[d] # Closed
  <2>1. docs' = Rehoused(archive[d], d) /\ archive' = [archive EXCEPT ![d] = Closed]
    BY <1>4
  <2>2. /\ archive' \in [Docs \union Roots -> Archs \union {Freed}] /\ archive'[d] = Closed
        /\ \A x \in (Docs \union Roots) \ {d} : archive'[x] = archive[x]
    BY <1>2, <2>1
  <2>3. /\ Rehoused(archive[d], d) \in [Archs -> Seq(Docs)]
        /\ \A b \in Archs : IsInjective(Rehoused(archive[d], d)[b])
        /\ \A b \in Archs : Range(Rehoused(archive[d], d)[b]) =
             IF b = Closed THEN Range(docs[Closed]) \union {d} ELSE Range(docs[b]) \ {d}
    BY <1>1, <1>4, Rehousing
  <2> QED
    BY <2>1, <2>2, <2>3
<1> QED
  BY <1>3, <1>4

LEMMA BeginSetURIInv ==
  ASSUME IInv, NEW t \in Threads, NEW d \in Docs, NEW u \in URIs, d \in Zips => u[2] = 0,
         BeginSetURI(t, d, u)
  PROVE  IInv'
<1>1. /\ DOMIsOpen /\ d \in held /\ archive[d] # Freed /\ op[d] = "none"
      /\ Push(t, "setURI", d)
      /\ uri' = [uri EXCEPT ![d] = u]
      /\ UNCHANGED <<link, filled, held, aborted>>
  BY DEF BeginSetURI, Usable
<1>2. /\ docs' \in [Archs -> Seq(Docs)]
      /\ \A a \in Archs : IsInjective(docs'[a])
      /\ \A a \in Archs : Range(docs'[a]) =
           IF a = Closed THEN Range(docs[Closed]) \union {d} ELSE Range(docs[a]) \ {d}
      /\ archive' \in [Docs \union Roots -> Archs \union {Freed}] /\ archive'[d] = Closed
      /\ \A x \in (Docs \union Roots) \ {d} : archive'[x] = archive[x]
  BY <1>1, Parking DEF BeginSetURI, Referenced
<1>3. /\ stack' \in [Threads -> Seq(Frames)]
      /\ op' \in [Docs -> {"none", "close", "setURI"}]
      /\ opThread' \in [Docs -> Threads \union {Nothing}]
      /\ op'[d] = "setURI" /\ \A x \in Docs \ {d} : op'[x] = op[x]
      /\ \A x \in Docs : Locked(x)' <=> Locked(x) \/ x = d
      /\ OneOperation'
  BY <1>1, Pushing
<1>4. /\ uri' \in [Docs -> URIs \union {NoURI}] /\ uri'[d] = u
      /\ \A x \in Docs \ {d} : uri'[x] = uri[x]
  BY <1>1 DEF IInv, ArchivesTypeOK
<1>5. ArchivesTypeOK'
  BY <1>1, <1>2, <1>3, <1>4 DEF IInv, ArchivesTypeOK
<1>6. Closed \in Archs /\ d # Closed /\ d # DOM /\ Freed # Closed /\ DOM \in Roots /\ Zips \subseteq Docs
      /\ Zips \subseteq Archs /\ Closed \notin Zips /\ Archs \subseteq Docs \union Roots
  BY DocsAssumption DEF Archs, Roots, Docs
<1>7. OnePlace'
  <2> SUFFICES ASSUME NEW a \in Archs, NEW x \in Range(docs'[a]) PROVE archive'[x] = a
    BY <1>2 DEF OnePlace
  <2> QED
    BY <1>2, <1>6, ListTyping
<1>8. Housed'
  <2> SUFFICES ASSUME NEW x \in Docs, Referenced(x)', archive'[x] # Freed
               PROVE  x \in Range(docs'[archive'[x]])
    BY DEF Housed
  <2>1. CASE x = d
    BY <2>1, <1>2, <1>6
  <2>2. CASE x # d
    <3>1. Referenced(x) /\ archive[x] # Freed
      BY <2>2, <1>1, <1>2, <1>3 DEF Referenced
    <3>2. archive[x] \in Archs /\ x \in Range(docs[archive[x]])
      BY <1>1, <3>1, Housing
    <3> QED
      BY <2>2, <3>2, <1>2
  <2> QED
    BY <2>1, <2>2
<1>9. ParkedWhileMoving'
  BY <1>2, <1>3, <1>6 DEF IInv, ParkedWhileMoving
<1>10. DOMIsOpen'
  BY <1>1, <1>2, <1>6 DEF DOMIsOpen
<1>11. ClosedIsEmpty'
  <2> SUFFICES ASSUME NEW x \in filled, archive'[x] # Freed, IsClosed(x)', uri'[x] # NoURI
               PROVE  \E y \in {x, archive'[x]} \intersect Docs : op'[y] = "setURI"
    BY <1>1 DEF ClosedIsEmpty
  <2>1. x \in Docs /\ archive[x] # Freed /\ Referenced(x)
    BY <1>1 DEF IInv, ArchivesTypeOK, Docs, Referenced, Anchored
  <2>2. archive[x] \in Archs
    BY <1>1, <2>1, Housing
  <2>3. CASE d \in {x, archive[x]}
    BY <2>1, <2>3, <1>2, <1>3
  <2>4. CASE d \notin {x, archive[x]}
    <3>1. IsClosed(x) /\ archive'[x] = archive[x] /\ uri'[x] = uri[x]
      BY <2>1, <2>2, <2>4, <1>2, <1>4, <1>6, <1>10, <1>1 DEF IsClosed, DOMIsOpen
    <3> QED
      BY <2>1, <2>4, <3>1, <1>1, <1>3 DEF IInv, ClosedIsEmpty
  <2> QED
    BY <2>3, <2>4
<1>12. DOMClosedIsEmpty' /\ Idle'
  BY <1>10 DEF DOMClosedIsEmpty, Idle
<1>13. Anchored'
  <2>1. archive'[Closed] = Closed /\ archive'[DOM] \in Roots /\ \A z \in Zips : archive'[z] \in Roots
    BY <1>2, <1>6 DEF IInv, Anchored, Roots
  <2>2. ASSUME NEW z \in Zips, NEW x \in Range(docs'[z])
        PROVE  z \in Range(docs'[archive'[z]])
    <3>1. CASE z = d
      BY <3>1, <1>2, <1>6
    <3>2. CASE z # d
      <4>1. x \in Range(docs[z])
        BY <2>2, <1>2, <1>6
      <4>2. z \in Range(docs[archive[z]]) /\ archive[z] \in Archs
        BY <4>1 DEF IInv, Anchored, Archs
      <4> QED
        BY <3>2, <4>2, <1>2, <1>6
    <3> QED
      BY <3>1, <3>2
  <2>3. \A x \in filled' : archive'[x] # Freed
    BY <1>1, <1>2, <1>6 DEF IInv, Anchored, ArchivesTypeOK, Docs
  <2> QED
    BY <2>1, <2>2, <2>3 DEF Anchored
<1>14. Addressed'
  BY <1>2, <1>3, <1>4, <1>6 DEF IInv, Addressed
<1> QED
  BY <1>5, <1>7, <1>8, <1>9, <1>3, <1>11, <1>12, <1>13, <1>14 DEF IInv

LEMMA RecursiveSetURIInv ==
  ASSUME IInv, NEW t \in Threads, NEW d \in Docs, NEW u \in URIs, d \in Zips => u[2] = 0,
         RecursiveSetURI(t, d, u)
  PROVE  IInv'
<1>1. CASE Abort("op mismatch")
  BY <1>1, StutterInv DEF Abort, Assertions
<1>2. CASE /\ DOMIsOpen /\ op[d] = "setURI" /\ uri' = [uri EXCEPT ![d] = u]
           /\ UNCHANGED <<docs, archive, link, filled, held, op, opThread, stack, aborted>>
  <2>1. /\ uri' \in [Docs -> URIs \union {NoURI}] /\ uri'[d] = u
        /\ \A x \in Docs \ {d} : uri'[x] = uri[x]
    BY <1>2 DEF IInv, ArchivesTypeOK
  <2>2. ArchivesTypeOK' /\ OnePlace' /\ Anchored'
    BY <1>2, <2>1 DEF IInv, ArchivesTypeOK, OnePlace, Anchored
  <2>3. Housed' /\ ParkedWhileMoving' /\ OneOperation' /\ Idle'
    BY <1>2 DEF IInv, Housed, ParkedWhileMoving, OneOperation, Idle, DOMIsOpen, Referenced, Locked
  <2>4. DOMClosedIsEmpty'
    BY <1>2 DEF DOMClosedIsEmpty, DOMIsOpen
  <2>5. ClosedIsEmpty'
    <3> SUFFICES ASSUME NEW x \in filled, archive[x] # Freed, IsClosed(x), uri'[x] # NoURI
                 PROVE  \E y \in {x, archive[x]} \intersect Docs : op[y] = "setURI"
      BY <1>2 DEF ClosedIsEmpty, IsClosed, DOMIsOpen
    <3>1. x \in Docs
      BY DEF IInv, ArchivesTypeOK, Docs
    <3> QED
      BY <3>1, <1>2, <2>1 DEF IInv, ClosedIsEmpty
  <2>6. Addressed'
    BY <1>2, <2>1 DEF IInv, Addressed, Docs
  <2> QED
    BY <2>2, <2>3, <2>4, <2>5, <2>6, <1>2 DEF IInv
<1> QED
  BY <1>1, <1>2 DEF RecursiveSetURI, Usable

\* A lookup leads to the DOM or to an archive that is open.
LEMMA ScopeIsOpen ==
  ASSUME IInv, NEW u
  PROVE  /\ Scope(u) \in Archs \ {Closed}
         /\ Scope(u) = DOM \/ (Scope(u) \in Zips /\ archive[Scope(u)] = DOM /\ u[2] # 0)
<1>1. DOM \in Archs /\ DOM # Closed /\ \A z \in Zips : z \in Archs /\ z # Closed
  BY DocsAssumption DEF Archs, Roots, Docs
<1>2. CASE Scope(u) = DOM
  BY <1>1, <1>2
<1>3. CASE Scope(u) # DOM
  <2>1. /\ Scope(u) \in Zips /\ Scope(u) \in Range(docs[DOM])
        /\ Transits(u, uri[Scope(u)])
    BY <1>3 DEF Scope, Range
  <2>2. archive[Scope(u)] = DOM /\ u[2] # 0
    BY <2>1, <1>1, ListTyping DEF Transits
  <2> QED
    BY <1>1, <2>1, <2>2
<1> QED
  BY <1>2, <1>3

LEMMA RebasedTyping ==
  ASSUME IInv, NEW d \in Docs, uri[d] \in URIs
  PROVE  /\ Rebased(d) \in [Docs -> URIs \union {NoURI}]
         /\ \A x \in Docs : uri[x] \in URIs => Rebased(d)[x] \in URIs
         /\ \A x \in Docs : Rebased(d)[x][2] = uri[x][2]
         /\ \A x \in Docs : d \notin Zips \/ x \notin Range(docs[d]) => Rebased(d)[x] = uri[x]
<1>1. \A x \in Docs : uri[x] \in URIs \union {NoURI}
  BY DEF IInv, ArchivesTypeOK
<1>2. ASSUME NEW x \in Docs
      PROVE  /\ <<uri[d][1], uri[x][2]>> \in URIs
  <2>1. uri[d][1] \in Tops
    BY DEF URIs
  <2>2. uri[x][2] \in {0} \union Subs
    BY <1>1 DEF URIs, NoURI
  <2> QED
    BY <2>1, <2>2 DEF URIs
<1> QED
  BY <1>1, <1>2 DEF Rebased

LEMMA FinishSetURIInv ==
  ASSUME IInv, NEW t \in Threads, FinishSetURI(t)
  PROVE  IInv'
<1> DEFINE d == Head(stack[t]).doc
           u == uri[d]
           a == Scope(u)
           i == Hint(a, u)
<1>1. CASE Abort("uproot") \/ Abort("unsorted")
  BY <1>1, StutterInv DEF Abort, Assertions
<1>2. CASE /\ docs' = [docs EXCEPT ![Closed] = Without(@, d), ![a] = InsertAt(@, i, d)]
           /\ archive' = [archive EXCEPT ![d] = a]
           /\ uri' = Rebased(d)
           /\ Pop(t)
           /\ UNCHANGED <<link, filled, held, aborted>>
  <2>1. stack[t] # <<>> /\ Head(stack[t]).kind = "setURI"
    BY DEF FinishSetURI, InFrame
  <2>2. d \in Docs /\ op[d] = "setURI" /\ Locked(d)
    BY <2>1, Innermost
  <2>3. archive[d] = Closed /\ d \in Range(docs[Closed]) /\ u \in URIs
    BY <2>2 DEF IInv, ParkedWhileMoving, Addressed
  <2>4. DOMIsOpen
    BY <2>1 DEF IInv, Idle
  <2>5. /\ a \in Archs \ {Closed}
        /\ a = DOM \/ (a \in Zips /\ archive[a] = DOM /\ d \notin Zips)
    BY <2>2, ScopeIsOpen DEF IInv, Addressed
  <2>6. i \in 1..(Len(docs[a]) + 1)
    <3>1. Len(docs[a]) \in Nat
      BY <2>5, ListTyping, LenProperties
    <3>2. PICK hint : i = 1 + (IF hint \in 0..Len(docs[a]) THEN hint ELSE Len(docs[a]))
      BY DEF Hint
    <3> QED
      BY <3>1, <3>2
  <2> HIDE DEF a, i, d, u
  <2>7. Closed \in Archs /\ d # Closed /\ d # DOM /\ Freed # Closed /\ DOM # Closed /\ DOM \in Roots
        /\ Zips \subseteq Docs /\ Zips \subseteq Archs /\ Closed \notin Zips /\ DOM \notin Zips
        /\ Archs \subseteq Docs \union Roots /\ a # Freed
    BY <2>2, <2>5, DocsAssumption DEF Archs, Roots, Docs
  <2>8. /\ docs' \in [Archs -> Seq(Docs)]
        /\ \A b \in Archs : IsInjective(docs'[b])
        /\ \A b \in Archs : Range(docs'[b]) =
             IF b = Closed THEN Range(docs[Closed]) \ {d}
             ELSE IF b = a THEN Range(docs[a]) \union {d} ELSE Range(docs[b])
    <3>1. /\ Without(docs[Closed], d) \in Seq(Docs) /\ IsInjective(Without(docs[Closed], d))
          /\ Range(Without(docs[Closed], d)) = Range(docs[Closed]) \ {d}
      BY <2>3, <2>7, ListTyping, Uprooting
    <3>2. d \notin Range(docs[a])
      BY <2>3, <2>5, ListTyping
    <3>3. /\ InsertAt(docs[a], i, d) \in Seq(Docs) /\ IsInjective(InsertAt(docs[a], i, d))
          /\ Range(InsertAt(docs[a], i, d)) = Range(docs[a]) \union {d}
      BY <2>2, <2>5, <2>6, <3>2, ListTyping, Inserting
    <3>4. docs \in [Archs -> Seq(Docs)]
      BY DEF IInv, ArchivesTypeOK
    <3>5. docs' = [b \in Archs |-> IF b = Closed THEN Without(docs[Closed], d)
                                  ELSE IF b = a THEN InsertAt(docs[a], i, d) ELSE docs[b]]
      BY <1>2, <2>5, <2>7, <3>4
    <3>6. docs' \in [Archs -> Seq(Docs)]
      BY <3>1, <3>3, <3>4, <3>5
    <3> QED
      BY <3>1, <3>3, <3>5, <3>6, ListTyping
  <2>9. /\ archive' \in [Docs \union Roots -> Archs \union {Freed}] /\ archive'[d] = a
        /\ \A x \in (Docs \union Roots) \ {d} : archive'[x] = archive[x]
    BY <1>2, <2>2, <2>5 DEF IInv, ArchivesTypeOK
  <2>10. /\ uri' \in [Docs -> URIs \union {NoURI}]
         /\ \A x \in Docs : uri[x] \in URIs => uri'[x] \in URIs
         /\ \A x \in Docs : uri'[x][2] = uri[x][2]
         /\ \A x \in Docs : d \notin Zips \/ x \notin Range(docs[d]) => uri'[x] = uri[x]
    BY <1>2, <2>2, <2>3, RebasedTyping DEF u
  <2>11. /\ stack' \in [Threads -> Seq(Frames)]
         /\ op' \in [Docs -> {"none", "close", "setURI"}]
         /\ opThread' = opThread
         /\ op'[d] = "none" /\ \A x \in Docs \ {d} : op'[x] = op[x]
         /\ \A x \in Docs : Locked(x)' => Locked(x)
         /\ OneOperation'
    BY <1>2, <2>1, Popping DEF d
  <2>12. ArchivesTypeOK'
    BY <1>2, <2>8, <2>9, <2>10, <2>11 DEF IInv, ArchivesTypeOK
  <2>13. OnePlace'
    <3> SUFFICES ASSUME NEW b \in Archs, NEW x \in Range(docs'[b]) PROVE archive'[x] = b
      BY <2>8 DEF OnePlace
    <3> QED
      BY <2>3, <2>5, <2>7, <2>8, <2>9, ListTyping
  <2>14. Housed'
    <3> SUFFICES ASSUME NEW x \in Docs, Referenced(x)', archive'[x] # Freed
                 PROVE  x \in Range(docs'[archive'[x]])
      BY DEF Housed
    <3>1. CASE x = d
      BY <3>1, <2>5, <2>8, <2>9
    <3>2. CASE x # d
      <4>1. Referenced(x) /\ archive[x] # Freed
        BY <3>2, <1>2, <2>9, <2>11 DEF Referenced
      <4>2. archive[x] \in Archs /\ x \in Range(docs[archive[x]])
        BY <2>4, <4>1, Housing
      <4> QED
        BY <3>2, <4>2, <2>8, <2>9
    <3> QED
      BY <3>1, <3>2
  <2>15. ParkedWhileMoving'
    <3> SUFFICES ASSUME NEW x \in Docs, op'[x] = "setURI"
                 PROVE  archive'[x] = Closed /\ x \in Range(docs'[Closed])
      BY DEF ParkedWhileMoving
    <3>1. x # d /\ op[x] = "setURI"
      BY <2>11
    <3> QED
      BY <3>1, <2>7, <2>8, <2>9 DEF IInv, ParkedWhileMoving
  <2>16. DOMIsOpen'
    BY <2>4, <2>7, <2>9 DEF DOMIsOpen
  <2>17. ClosedIsEmpty'
    <3> SUFFICES ASSUME NEW x \in filled, archive'[x] # Freed, IsClosed(x)', uri'[x] # NoURI
                 PROVE  \E y \in {x, archive'[x]} \intersect Docs : op'[y] = "setURI"
      BY <1>2 DEF ClosedIsEmpty
    <3>1. x \in Docs /\ archive[x] # Freed /\ Referenced(x)
      BY <1>2 DEF IInv, ArchivesTypeOK, Docs, Referenced, Anchored
    <3>2. archive[x] \in Archs /\ x \in Range(docs[archive[x]])
      BY <2>4, <3>1, Housing
    <3>3. x # d
      <4>1. DOM \in {archive'[d], archive'[archive'[d]]}
        BY <2>5, <2>7, <2>9
      <4> QED
        BY <4>1, <2>16 DEF IsClosed
    <3>4. archive[x] # d
      <4> SUFFICES ASSUME archive[x] = d PROVE FALSE
        OBVIOUS
      <4>1. d \in Zips /\ a = DOM
        BY <3>2, <2>2, <2>5, DocsAssumption DEF Archs, Docs
      <4>2. archive'[x] = d /\ archive'[d] = DOM
        BY <3>1, <3>3, <4>1, <2>9
      <4> QED
        BY <4>2, <2>16 DEF IsClosed
    <3>5. x \notin Range(docs[d]) \/ d \notin Zips
      BY <3>4, <2>7, ListTyping
    <3>6. IsClosed(x) /\ archive'[x] = archive[x] /\ uri'[x] = uri[x]
      BY <3>1, <3>2, <3>3, <3>4, <3>5, <2>4, <2>7, <2>9, <2>10, <2>16 DEF IsClosed
    <3> QED
      BY <3>1, <3>3, <3>4, <3>6, <2>4, <2>11 DEF IInv, ClosedIsEmpty
  <2>18. DOMClosedIsEmpty' /\ Idle'
    BY <2>16 DEF DOMClosedIsEmpty, Idle
  <2>19. Anchored'
    <3>1. archive'[Closed] = Closed /\ archive'[DOM] \in Roots /\ \A z \in Zips : archive'[z] \in Roots
      BY <2>2, <2>5, <2>7, <2>9 DEF IInv, Anchored, Roots
    <3>2. ASSUME NEW z \in Zips, NEW x \in Range(docs'[z])
          PROVE  z \in Range(docs'[archive'[z]])
      <4>1. CASE z = d
        BY <4>1, <2>5, <2>8, <2>9
      <4>2. CASE z # d /\ z # a
        <5>1. x \in Range(docs[z])
          BY <3>2, <4>2, <2>7, <2>8
        <5>2. z \in Range(docs[archive[z]]) /\ archive[z] \in Archs
          BY <5>1 DEF IInv, Anchored, Archs
        <5> QED
          BY <4>2, <5>2, <2>7, <2>8, <2>9
      <4>3. CASE z # d /\ z = a
        <5>1. z \in Range(docs[DOM]) /\ archive[z] = DOM
          BY <4>3, <2>5, <2>7 DEF a, Scope, Range, IInv
        <5> QED
          BY <4>3, <5>1, <2>5, <2>7, <2>8, <2>9 DEF Archs
      <4> QED
        BY <4>1, <4>2, <4>3
    <3>3. \A x \in filled' : archive'[x] # Freed
      BY <1>2, <2>7, <2>9 DEF IInv, Anchored, ArchivesTypeOK, Docs
    <3> QED
      BY <3>1, <3>2, <3>3 DEF Anchored
  <2>20. Addressed'
    BY <2>2, <2>3, <2>7, <2>9, <2>10, <2>11 DEF IInv, Addressed, u
  <2> QED
    BY <2>11, <2>12, <2>13, <2>14, <2>15, <2>17, <2>18, <2>19, <2>20 DEF IInv
<1> QED
  BY <1>1, <1>2 DEF FinishSetURI

LEMMA ListingsTyping ==
  ASSUME NEW s \in Listings
  PROVE  s \in Seq(Docs) /\ IsInjective(s)
<1>1. PICK n \in 0..Cardinality(Docs) : s \in [1..n -> Docs] /\ IsInjective(s)
  BY DEF Listings
<1>2. n \in Nat
  OBVIOUS
<1> QED
  BY <1>1, <1>2, SeqDef

\* _closedDoc, whoever calls it: the frames may change on the way, as long as no
\* operation begins and no move ends.
LEMMA CloseDocInv ==
  ASSUME IInv, DOMIsOpen, NEW d \in Docs, Referenced(d), op[d] # "setURI", CloseDoc(d),
         stack' \in [Threads -> Seq(Frames)],
         op' \in [Docs -> {"none", "close", "setURI"}],
         opThread' \in [Docs -> Threads \union {Nothing}],
         OneOperation',
         \A x \in Docs : Locked(x)' => Locked(x),
         \A x \in Docs : op'[x] = "setURI" <=> op[x] = "setURI"
  PROVE  IInv'
<1> DEFINE moved == IF IsClosed(d) THEN docs ELSE Rehoused(archive[d], d)
           keep == {x \in Docs : x \in held \/ Locked(x) \/ \E z \in Zips : link'[z] = x}
           Moved(b) == IF IsClosed(d) THEN Range(docs[b])
                       ELSE IF b = Closed THEN Range(docs[Closed]) \union {d} ELSE Range(docs[b]) \ {d}
<1>1. /\ archive[d] # Freed
      /\ archive' = IF IsClosed(d) THEN archive ELSE [archive EXCEPT ![d] = Closed]
      /\ link' = Unlinked(d, archive'[d])
      /\ IF d \in Documents
         THEN docs' = moved
         ELSE \E kept \in Listings :
                Compacts(docs[d], keep, kept) /\ docs' = [moved EXCEPT ![d] = kept]
      /\ filled' = filled \ Atomized(d)
      /\ UNCHANGED <<uri, held, aborted>>
  BY DEF CloseDoc
<1>2. archive[d] \in Archs /\ d \in Range(docs[archive[d]])
  BY <1>1, Housing
<1>3. Closed \in Archs /\ d # Closed /\ d # DOM /\ Freed # Closed /\ DOM # Closed /\ DOM \in Roots
      /\ Zips \subseteq Docs /\ Zips \subseteq Archs /\ Closed \notin Zips /\ DOM \notin Zips
      /\ Archs \subseteq Docs \union Roots /\ Documents \subseteq Docs /\ Nothing \notin Docs
      /\ Documents \intersect Zips = {} /\ Roots \intersect Docs = {}
  BY DocsAssumption DEF Archs, Roots, Docs
<1>4. IsClosed(d) \/ archive[d] # Closed
  BY <1>3 DEF IsClosed, IInv, Anchored
<1>5. /\ moved \in [Archs -> Seq(Docs)]
      /\ \A b \in Archs : IsInjective(moved[b]) /\ Range(moved[b]) = Moved(b)
  <2>1. CASE IsClosed(d)
    BY <2>1, ListTyping DEF IInv, ArchivesTypeOK
  <2>2. CASE ~IsClosed(d)
    BY <2>2, <1>2, <1>4, Rehousing
  <2> QED
    BY <2>1, <2>2
<1>6. ASSUME d \in Zips PROVE archive[d] \in Roots /\ d \notin Range(docs[d])
  <2>1. archive[d] \in Roots /\ archive[d] # d /\ d \in Archs
    BY <1>3, <1>6 DEF IInv, Anchored
  <2> QED
    BY <2>1, ListTyping
<1> HIDE DEF moved, keep
<1>7. /\ docs' \in [Archs -> Seq(Docs)]
      /\ \A b \in Archs : IsInjective(docs'[b])
      /\ \A b \in Archs : Range(docs'[b]) =
           IF b = d THEN Range(docs[d]) \intersect keep ELSE Moved(b)
  <2>1. CASE d \in Documents
    BY <2>1, <1>1, <1>3, <1>5, DocsAssumption DEF Archs
  <2>2. CASE d \in Zips
    <3>1. PICK kept \in Listings : Compacts(docs[d], keep, kept) /\ docs' = [moved EXCEPT ![d] = kept]
      BY <2>2, <1>1, <1>3
    <3>2. kept \in Seq(Docs) /\ IsInjective(kept) /\ Range(kept) = Range(docs[d]) \intersect keep
      BY <3>1, ListingsTyping DEF Compacts
    <3> QED
      BY <2>2, <3>1, <3>2, <1>3, <1>5
  <2> QED
    BY <2>1, <2>2 DEF Docs
<1>8. /\ archive' \in [Docs \union Roots -> Archs \union {Freed}]
      /\ archive'[d] = IF IsClosed(d) THEN archive[d] ELSE Closed
      /\ \A x \in (Docs \union Roots) \ {d} : archive'[x] = archive[x]
  BY <1>1, <1>3 DEF IInv, ArchivesTypeOK
<1>9. link' \in [Zips -> Documents \union {Nothing}] /\ \A z \in Zips : link'[z] \in {link[z], Nothing}
  BY <1>1 DEF Unlinked, IInv, ArchivesTypeOK
<1>10. ArchivesTypeOK'
  BY <1>1, <1>7, <1>8, <1>9 DEF IInv, ArchivesTypeOK
<1>11. OnePlace'
  <2> SUFFICES ASSUME NEW b \in Archs, NEW x \in Range(docs'[b]) PROVE archive'[x] = b
    BY <1>7 DEF OnePlace
  <2>1. x = d \/ (x # d /\ x \in Range(docs[b]))
    BY <1>7
  <2>2. CASE x # d /\ x \in Range(docs[b])
    BY <2>2, <1>8, ListTyping
  <2>3. CASE x = d
    <3>1. b # d
      BY <2>3, <1>3, <1>6, <1>7, DocsAssumption DEF Archs, Docs
    <3> QED
      BY <2>3, <3>1, <1>3, <1>7, <1>8, ListTyping
  <2> QED
    BY <2>1, <2>2, <2>3
<1>12. DOMIsOpen'
  BY <1>3, <1>8 DEF DOMIsOpen
<1>13. \A x \in filled' : /\ x \in filled /\ x \in Docs /\ x # d /\ archive[x] # Freed
                         /\ archive[x] \in Archs /\ archive[x] # d /\ x \in Range(docs[archive[x]])
  <2> SUFFICES ASSUME NEW x \in filled'
               PROVE  /\ x \in filled /\ x \in Docs /\ x # d /\ archive[x] # Freed
                      /\ archive[x] \in Archs /\ archive[x] # d /\ x \in Range(docs[archive[x]])
    OBVIOUS
  <2>1. x \in filled /\ x \in Documents /\ x \in Docs /\ x \notin Atomized(d) /\ archive[x] # Freed
    BY <1>1, <1>3 DEF IInv, ArchivesTypeOK, Anchored
  <2>2. archive[x] \in Archs /\ x \in Range(docs[archive[x]])
    BY <2>1, Housing DEF Referenced
  <2> QED
    BY <2>1, <2>2, <1>3, DocsAssumption DEF Atomized, Docs, Archs
<1>14. Housed'
  <2> SUFFICES ASSUME NEW x \in Docs, Referenced(x)', archive'[x] # Freed
               PROVE  x \in Range(docs'[archive'[x]])
    BY DEF Housed
  <2>1. CASE x = d
    <3>1. archive'[d] # d /\ archive'[d] \in Archs
      BY <1>2, <1>3, <1>6, <1>8, DocsAssumption DEF Docs, Archs
    <3> QED
      BY <2>1, <3>1, <1>2, <1>4, <1>7, <1>8
  <2>2. CASE x # d
    <3>1. x \in filled' \/ x \in held \/ Locked(x) \/ (\E z \in Zips : link'[z] = x /\ link[z] = x)
      BY <1>1, <1>3, <1>9 DEF Referenced
    <3>2. Referenced(x) /\ archive'[x] = archive[x]
      BY <2>2, <3>1, <1>8, <1>13 DEF Referenced
    <3>3. archive[x] \in Archs /\ x \in Range(docs[archive[x]])
      BY <2>2, <3>2, Housing
    <3>4. CASE archive[x] # d
      BY <2>2, <3>2, <3>3, <3>4, <1>7
    <3>5. CASE archive[x] = d
      <4>1. x \in keep
        BY <3>1, <3>5, <1>13 DEF keep
      <4> QED
        BY <3>2, <3>3, <3>5, <4>1, <1>7
    <3> QED
      BY <3>4, <3>5
  <2> QED
    BY <2>1, <2>2
<1>15. ParkedWhileMoving'
  <2> SUFFICES ASSUME NEW x \in Docs, op'[x] = "setURI"
               PROVE  archive'[x] = Closed /\ x \in Range(docs'[Closed])
    BY DEF ParkedWhileMoving
  <2>1. x # d /\ archive[x] = Closed /\ x \in Range(docs[Closed])
    BY DEF IInv, ParkedWhileMoving
  <2> QED
    BY <2>1, <1>3, <1>7, <1>8
<1>16. ClosedIsEmpty'
  <2> SUFFICES ASSUME NEW x \in filled', archive'[x] # Freed, IsClosed(x)', uri'[x] # NoURI
               PROVE  \E y \in {x, archive'[x]} \intersect Docs : op'[y] = "setURI"
    BY DEF ClosedIsEmpty
  <2>1. /\ x \in filled /\ x \in Docs /\ x # d /\ archive[x] \in Archs /\ archive[x] # d
        /\ archive[x] # Freed
    BY <1>13
  <2>2. IsClosed(x) /\ archive'[x] = archive[x] /\ uri'[x] = uri[x]
    BY <2>1, <1>1, <1>3, <1>8, <1>12 DEF IsClosed
  <2> QED
    BY <2>1, <2>2 DEF IInv, ClosedIsEmpty
<1>17. DOMClosedIsEmpty' /\ Idle'
  BY <1>12 DEF DOMClosedIsEmpty, Idle
<1>18. Anchored'
  <2>1. archive'[Closed] = Closed /\ archive'[DOM] \in Roots /\ \A z \in Zips : archive'[z] \in Roots
    BY <1>3, <1>6, <1>8 DEF IInv, Anchored, Roots
  <2>2. ASSUME NEW z \in Zips, NEW x \in Range(docs'[z])
        PROVE  z \in Range(docs'[archive'[z]])
    <3>1. x \in Range(docs[z]) \/ z = Closed
      BY <2>2, <1>3, <1>7
    <3>2. z \in Range(docs[archive[z]]) /\ archive[z] \in Roots /\ archive[z] \in Archs
      BY <3>1, <1>3 DEF IInv, Anchored, Archs
    <3>3. archive[z] # d
      BY <3>2, <1>3
    <3> QED
      BY <3>2, <3>3, <1>3, <1>4, <1>7, <1>8
  <2>3. \A x \in filled' : archive'[x] # Freed
    BY <1>3, <1>8, <1>13
  <2> QED
    BY <2>1, <2>2, <2>3 DEF Anchored
<1>19. Addressed'
  BY <1>1, <1>3, <1>8 DEF IInv, Addressed
<1> QED
  BY <1>10, <1>11, <1>14, <1>15, <1>16, <1>17, <1>18, <1>19 DEF IInv

\* A step that leaves the frames alone.
LEMMA SameFrames ==
  ASSUME IInv, UNCHANGED <<op, opThread, stack>>
  PROVE  /\ stack' \in [Threads -> Seq(Frames)]
         /\ op' \in [Docs -> {"none", "close", "setURI"}]
         /\ opThread' \in [Docs -> Threads \union {Nothing}]
         /\ OneOperation'
         /\ \A x \in Docs : Locked(x)' => Locked(x)
         /\ \A x \in Docs : op'[x] = "setURI" <=> op[x] = "setURI"
<1>1. /\ stack' \in [Threads -> Seq(Frames)]
      /\ op' \in [Docs -> {"none", "close", "setURI"}]
      /\ opThread' \in [Docs -> Threads \union {Nothing}]
  BY DEF IInv, ArchivesTypeOK
<1>2. OneOperation' /\ \A x \in Docs : Locked(x)' => Locked(x)
  BY DEF IInv, OneOperation, Locked
<1> QED
  BY <1>1, <1>2

LEMMA BeginCloseInv ==
  ASSUME IInv, NEW t \in Threads, NEW d \in Docs, BeginClose(t, d)
  PROVE  IInv'
<1>1. DOMIsOpen /\ d \in held /\ op[d] = "none"
  BY DEF BeginClose, Usable
<1>2. CASE CloseDoc(d) /\ UNCHANGED <<op, opThread, stack>>
  BY <1>1, <1>2, SameFrames, CloseDocInv DEF Referenced
<1>3. CASE Abort("close of a closed doc")
  BY <1>3, StutterInv DEF Abort, Assertions
<1>4. CASE Push(t, "close", d) /\ UNCHANGED <<docs, archive, uri, link, filled, held, aborted>>
  <2>1. /\ stack' \in [Threads -> Seq(Frames)]
        /\ op' \in [Docs -> {"none", "close", "setURI"}]
        /\ opThread' \in [Docs -> Threads \union {Nothing}]
        /\ op'[d] = "close" /\ \A x \in Docs \ {d} : op'[x] = op[x]
        /\ \A x \in Docs : Locked(x)' <=> Locked(x) \/ x = d
        /\ OneOperation'
    BY <1>1, <1>4, Pushing
  <2>2. ArchivesTypeOK' /\ OnePlace' /\ Anchored'
    BY <1>4, <2>1 DEF IInv, ArchivesTypeOK, OnePlace, Anchored
  <2>3. Housed'
    BY <1>1, <1>4, <2>1 DEF IInv, Housed, Referenced, DOMIsOpen
  <2>4. ParkedWhileMoving' /\ Addressed'
    BY <1>4, <2>1 DEF IInv, ParkedWhileMoving, Addressed
  <2>5. DOMClosedIsEmpty' /\ Idle'
    BY <1>1, <1>4 DEF DOMClosedIsEmpty, Idle, DOMIsOpen
  <2>6. ClosedIsEmpty'
    <3>1. \A x \in Docs : op[x] = "setURI" => op'[x] = "setURI"
      BY <1>1, <2>1
    <3> QED
      BY <1>4, <3>1 DEF IInv, ClosedIsEmpty, IsClosed, DOMIsOpen
  <2> QED
    BY <2>1, <2>2, <2>3, <2>4, <2>5, <2>6 DEF IInv
<1> QED
  BY <1>2, <1>3, <1>4 DEF BeginClose

LEMMA RecursiveCloseInv ==
  ASSUME IInv, NEW t \in Threads, NEW d \in Docs, RecursiveClose(t, d)
  PROVE  IInv'
<1>1. CASE op[d] = "close" /\ CloseDoc(d) /\ UNCHANGED <<op, opThread, stack>>
  <2>1. DOMIsOpen /\ d \in held
    BY DEF RecursiveClose, Usable
  <2> QED
    BY <1>1, <2>1, SameFrames, CloseDocInv DEF Referenced
<1>2. CASE Abort("op mismatch")
  BY <1>2, StutterInv DEF Abort, Assertions
<1> QED
  BY <1>1, <1>2 DEF RecursiveClose

LEMMA FinishCloseInv ==
  ASSUME IInv, NEW t \in Threads, NEW verdict, FinishClose(t, verdict)
  PROVE  IInv'
<1> DEFINE d == Head(stack[t]).doc
<1>1. stack[t] # <<>> /\ Head(stack[t]).kind = "close"
  BY DEF FinishClose, InFrame
<1>2. d \in Docs /\ op[d] = "close" /\ Locked(d) /\ Referenced(d) /\ DOMIsOpen
  BY <1>1, Innermost DEF Referenced, IInv, Idle
<1>3. CASE Abort("closeURI did not close")
  BY <1>3, StutterInv DEF Abort, Assertions
<1>4. ASSUME Pop(t)
      PROVE  /\ stack' \in [Threads -> Seq(Frames)]
             /\ op' \in [Docs -> {"none", "close", "setURI"}]
             /\ opThread' \in [Docs -> Threads \union {Nothing}]
             /\ \A x \in Docs : op'[x] = "setURI" <=> op[x] = "setURI"
             /\ \A x \in Docs : Locked(x)' => Locked(x)
             /\ OneOperation'
  BY <1>1, <1>2, <1>4, Popping DEF IInv, ArchivesTypeOK
<1>5. CASE Pop(t) /\ CloseDoc(d)
  BY <1>2, <1>4, <1>5, CloseDocInv
<1>6. CASE Pop(t) /\ UNCHANGED <<docs, archive, uri, link, filled, held, aborted>>
  <2>1. ArchivesTypeOK' /\ OnePlace' /\ Anchored'
    BY <1>4, <1>6 DEF IInv, ArchivesTypeOK, OnePlace, Anchored
  <2>2. Housed' /\ ParkedWhileMoving' /\ Addressed'
    BY <1>4, <1>6 DEF IInv, Housed, Referenced, DOMIsOpen, ParkedWhileMoving, Addressed
  <2>3. DOMClosedIsEmpty' /\ Idle'
    BY <1>2, <1>6 DEF DOMClosedIsEmpty, Idle, DOMIsOpen
  <2>4. ClosedIsEmpty'
    BY <1>4, <1>6 DEF IInv, ClosedIsEmpty, IsClosed, DOMIsOpen
  <2> QED
    BY <1>4, <1>6, <2>1, <2>2, <2>3, <2>4 DEF IInv
<1> QED
  BY <1>3, <1>5, <1>6 DEF FinishClose
-----------------------------------------------------------------------------
(* Preservation: compaction and the end of the DOM *)

\* What clear_closedDocs does to the lists, with the deleted archives named `gone'.
Gone == {z \in Zips \intersect Range(docs[Closed]) : z \notin held /\ ~Locked(z)}

LEMMA Compaction ==
  ASSUME IInv, ClearClosedDocs
  PROVE  /\ docs' \in [Archs -> Seq(Docs)]
         /\ \A b \in Archs : IsInjective(docs'[b]) /\ Range(docs'[b]) \subseteq Range(docs[b])
         /\ \A z \in Gone : docs'[z] = <<>>
         /\ \A b \in Archs : b \notin {Closed} \union Range(docs[Closed]) => docs'[b] = docs[b]
         /\ \A x \in Docs : Referenced(x)' \/ x \in filled =>
              \A b \in Archs \ Gone : x \in Range(docs[b]) => x \in Range(docs'[b])
<1> DEFINE list == docs[Closed]
           closed == Zips \intersect Range(list)
           gone == {z \in closed : z \notin held /\ ~Locked(z)}
           At(d) == CHOOSE i \in DOMAIN list : list[i] = d
<1>1. PICK rest \in Listings, kept \in [closed \ gone -> Listings] :
        /\ Compacts(list, {d \in Range(list) : ReferencedAt(d, At(d), gone)}, rest)
        /\ \A z \in closed \ gone :
             Compacts(docs[z], {d \in Docs : ReferencedAt(d, At(z), gone)}, kept[z])
        /\ docs' = [a \in Archs |-> IF a = Closed THEN rest
                                    ELSE IF a \in gone THEN <<>>
                                    ELSE IF a \in closed THEN kept[a] ELSE docs[a]]
        /\ link' = [z \in Zips |-> IF z \in gone THEN Nothing ELSE link[z]]
        /\ UNCHANGED <<filled, held, stack>>
  BY DEF ClearClosedDocs
<1>2. gone = Gone /\ Closed \notin Gone /\ Closed \in Archs /\ Gone \subseteq Zips /\ Zips \subseteq Docs
      /\ Gone \subseteq Archs
  BY DocsAssumption DEF Gone, Docs, Roots, Archs
<1>3. ASSUME NEW x \in Docs, Referenced(x)' \/ x \in filled, NEW i
      PROVE  ReferencedAt(x, i, gone)
  BY <1>1, <1>2, <1>3, DocsAssumption DEF Referenced, ReferencedAt, Locked, Docs
<1> HIDE DEF gone, closed, At
<1>4. /\ rest \in Seq(Docs) /\ IsInjective(rest)
      /\ Range(rest) = Range(docs[Closed]) \intersect {d \in Range(list) : ReferencedAt(d, At(d), gone)}
  BY <1>1, ListingsTyping DEF Compacts
<1>5. ASSUME NEW z \in closed \ gone
      PROVE  /\ kept[z] \in Seq(Docs) /\ IsInjective(kept[z])
             /\ Range(kept[z]) = Range(docs[z]) \intersect {d \in Docs : ReferencedAt(d, At(z), gone)}
  BY <1>1, <1>5, ListingsTyping DEF Compacts
<1>6. <<>> \in Seq(Docs) /\ IsInjective(<<>>) /\ Range(<<>>) = {}
  BY DEF IsInjective, Range
<1>7. closed \subseteq Range(docs[Closed])
  BY DEF closed
<1>8. ASSUME NEW b \in Archs
      PROVE  /\ docs'[b] \in Seq(Docs)
             /\ IsInjective(docs'[b]) /\ Range(docs'[b]) \subseteq Range(docs[b])
             /\ b \in Gone => docs'[b] = <<>>
             /\ b \notin {Closed} \union Range(docs[Closed]) => docs'[b] = docs[b]
             /\ b \notin Gone => \A x \in Docs : Referenced(x)' \/ x \in filled =>
                  (x \in Range(docs[b]) => x \in Range(docs'[b]))
  <2>1. CASE b = Closed
    <3>1. docs'[b] = rest
      BY <2>1, <1>1
    <3> QED
      BY <2>1, <3>1, <1>2, <1>3, <1>4
  <2>2. CASE b \in gone
    <3>1. docs'[b] = <<>>
      BY <2>2, <1>1, <1>2
    <3> QED
      BY <2>2, <3>1, <1>2, <1>6 DEF Gone
  <2>3. CASE b \in closed \ gone
    <3>1. b # Closed
      BY <2>3, DocsAssumption DEF closed, Docs, Roots
    <3>2. docs'[b] = kept[b]
      BY <2>3, <3>1, <1>1
    <3> QED
      BY <2>3, <3>1, <3>2, <1>2, <1>3, <1>5, <1>7
  <2>4. CASE b # Closed /\ b \notin gone /\ b \notin closed
    <3>1. docs'[b] = docs[b]
      BY <2>4, <1>1
    <3> QED
      BY <2>4, <3>1, <1>2, ListTyping
  <2> QED
    BY <2>1, <2>2, <2>3, <2>4
<1>9. docs' \in [Archs -> Seq(Docs)]
  <2>1. docs' = [b \in Archs |-> docs'[b]]
    BY <1>1
  <2> QED
    BY <2>1, <1>8
<1> QED
  BY <1>2, <1>8, <1>9

\* The docs of an archive that is deleted have no contents: closing it atomized them.
LEMMA GoneIsEmpty ==
  ASSUME IInv, DOMIsOpen, NEW x \in filled
  PROVE  archive[x] \notin Gone
<1> SUFFICES ASSUME archive[x] \in Gone PROVE FALSE
  OBVIOUS
<1> DEFINE z == archive[x]
<1>1. z \in Zips /\ z \in Docs /\ ~Locked(z) /\ archive[z] = Closed /\ x \in Docs
  BY ListTyping, DocsAssumption DEF Gone, Docs, Archs, Roots, IInv, ArchivesTypeOK
<1>2. z # Closed /\ z # DOM /\ z # Freed /\ DOM # Closed
  BY <1>1, DocsAssumption DEF Docs, Roots
<1>3. IsClosed(x)
  BY <1>1, <1>2 DEF IsClosed
<1>4. uri[x] # NoURI
  BY <1>1, URIsAssumption DEF IInv, Addressed, URIs, NoURI
<1>5. op[z] # "setURI" /\ op[x] # "setURI"
  BY <1>1, <1>2 DEF IInv, OneOperation, ParkedWhileMoving
<1> QED
  BY <1>1, <1>2, <1>3, <1>4, <1>5 DEF IInv, ClosedIsEmpty

LEMMA ClearClosedDocsInv ==
  ASSUME IInv, ClearClosedDocs
  PROVE  IInv'
<1>1. /\ DOMIsOpen
      /\ archive' = [d \in Docs \union Roots |-> IF archive[d] \in Gone THEN Freed ELSE archive[d]]
      /\ link' = [z \in Zips |-> IF z \in Gone THEN Nothing ELSE link[z]]
      /\ UNCHANGED <<uri, filled, held, op, opThread, stack, aborted>>
  BY DEF ClearClosedDocs, Gone
<1>2. Closed \in Archs /\ Freed # Closed /\ DOM # Closed /\ DOM \in Roots /\ DOM \in Archs
      /\ Zips \subseteq Docs /\ Zips \subseteq Archs /\ Closed \notin Zips /\ DOM \notin Zips
      /\ Archs \subseteq Docs \union Roots /\ Gone \subseteq Zips /\ Freed \notin Archs
      /\ Roots \intersect Docs = {} /\ Nothing \notin Docs
  BY DocsAssumption DEF Archs, Roots, Docs, Gone
<1>3. /\ docs' \in [Archs -> Seq(Docs)]
      /\ \A b \in Archs : IsInjective(docs'[b]) /\ Range(docs'[b]) \subseteq Range(docs[b])
      /\ \A z \in Gone : docs'[z] = <<>>
      /\ \A b \in Archs : b \notin {Closed} \union Range(docs[Closed]) => docs'[b] = docs[b]
      /\ \A x \in Docs : Referenced(x)' \/ x \in filled =>
           \A b \in Archs \ Gone : x \in Range(docs[b]) => x \in Range(docs'[b])
  BY Compaction
<1>4. /\ archive' \in [Docs \union Roots -> Archs \union {Freed}]
      /\ \A x \in Docs \union Roots : archive'[x] = IF archive[x] \in Gone THEN Freed ELSE archive[x]
      /\ \A x \in Docs \union Roots : archive'[x] # Freed => archive'[x] = archive[x] /\ archive[x] \notin Gone
  BY <1>1, <1>2 DEF IInv, ArchivesTypeOK
<1>5. \A x \in Docs : Referenced(x)' => Referenced(x)
  BY <1>1, <1>2 DEF Referenced, Locked
<1>6. ArchivesTypeOK'
  BY <1>1, <1>3, <1>4 DEF IInv, ArchivesTypeOK
<1>7. OnePlace'
  <2> SUFFICES ASSUME NEW b \in Archs, NEW x \in Range(docs'[b]) PROVE archive'[x] = b
    BY <1>3 DEF OnePlace
  <2>1. b \notin Gone
    <3>1. Range(<<>>) = {}
      BY DEF Range
    <3> QED
      BY <3>1, <1>3
  <2>2. archive[x] = b /\ x \in Docs
    BY <1>3, ListTyping
  <2> QED
    BY <2>1, <2>2, <1>4
<1>8. Housed'
  <2> SUFFICES ASSUME NEW x \in Docs, Referenced(x)', archive'[x] # Freed
               PROVE  x \in Range(docs'[archive'[x]])
    BY DEF Housed
  <2>1. archive'[x] = archive[x] /\ archive[x] \notin Gone /\ archive[x] # Freed
    BY <1>4
  <2>2. archive[x] \in Archs /\ x \in Range(docs[archive[x]])
    BY <2>1, <1>1, <1>5, Housing
  <2> QED
    BY <2>1, <2>2, <1>3
<1>9. ParkedWhileMoving'
  <2> SUFFICES ASSUME NEW x \in Docs, op'[x] = "setURI"
               PROVE  archive'[x] = Closed /\ x \in Range(docs'[Closed])
    BY DEF ParkedWhileMoving
  <2>1. archive[x] = Closed /\ x \in Range(docs[Closed]) /\ Locked(x)'
    BY <1>1 DEF IInv, ParkedWhileMoving, OneOperation, Locked
  <2>2. Referenced(x)'
    BY <2>1 DEF Referenced
  <2> QED
    BY <2>1, <2>2, <1>2, <1>3, <1>4
<1>10. OneOperation' /\ Idle'
  BY <1>1, <1>2, <1>4 DEF IInv, OneOperation, Locked, Idle, DOMIsOpen
<1>11. DOMIsOpen'
  BY <1>1, <1>2, <1>4 DEF DOMIsOpen
<1>12. \A x \in filled : x \in Docs /\ archive'[x] = archive[x] /\ archive[x] # Freed /\ archive[x] \in Archs
  BY <1>1, <1>4, GoneIsEmpty DEF IInv, ArchivesTypeOK, Docs, Anchored
<1>13. ClosedIsEmpty'
  <2> SUFFICES ASSUME NEW x \in filled, IsClosed(x)', uri[x] # NoURI
               PROVE  \E y \in {x, archive[x]} \intersect Docs : op[y] = "setURI"
    BY <1>1, <1>12 DEF ClosedIsEmpty
  <2>1. IsClosed(x)
    <3>1. archive[archive[x]] \in Roots
      BY <1>12 DEF Archs, Roots, IInv, Anchored
    <3>2. archive'[archive[x]] = archive[archive[x]]
      BY <3>1, <1>2, <1>4, <1>12
    <3> QED
      BY <3>2, <1>11, <1>12, <1>1 DEF IsClosed
  <2> QED
    BY <2>1, <1>1, <1>12 DEF IInv, ClosedIsEmpty
<1>14. DOMClosedIsEmpty'
  BY <1>11 DEF DOMClosedIsEmpty
<1>15. Anchored'
  <2>1. archive'[Closed] = Closed /\ archive'[DOM] \in Roots /\ \A z \in Zips : archive'[z] = archive[z] /\ archive[z] \in Roots
    BY <1>2, <1>4 DEF IInv, Anchored, Roots
  <2>2. ASSUME NEW z \in Zips, NEW x \in Range(docs'[z])
        PROVE  z \in Range(docs'[archive'[z]])
    <3>1. z \notin Gone /\ x \in Range(docs[z])
      <4>1. Range(<<>>) = {} /\ z \in Archs
        BY <1>2 DEF Range
      <4> QED
        BY <4>1, <2>2, <1>3
    <3>2. z \in Range(docs[archive[z]])
      BY <3>1 DEF IInv, Anchored
    <3>3. CASE archive[z] = Closed
      <4>1. Referenced(z)'
        BY <3>1, <3>2, <3>3, <1>1 DEF Gone, Referenced, Locked
      <4> QED
        BY <4>1, <3>2, <3>3, <2>1, <1>2, <1>3
    <3>4. CASE archive[z] # Closed
      <4>1. archive[z] = DOM /\ DOM \notin Range(docs[Closed])
        BY <3>4, <2>1, <1>2, ListTyping DEF Roots
      <4> QED
        BY <4>1, <3>2, <2>1, <1>2, <1>3
    <3> QED
      BY <3>3, <3>4
  <2> QED
    BY <2>1, <2>2, <1>1, <1>12 DEF Anchored
<1>16. Addressed'
  BY <1>1, <1>2, <1>4 DEF IInv, Addressed
<1> QED
  BY <1>6, <1>7, <1>8, <1>9, <1>10, <1>13, <1>14, <1>15, <1>16 DEF IInv

LEMMA CloseDOMInv ==
  ASSUME IInv, CloseDOM
  PROVE  IInv'
<1>1. /\ DOMIsOpen /\ \A t \in Threads : stack[t] = <<>>
      /\ archive' = [archive EXCEPT ![DOM] = Closed]
      /\ filled' = filled \ OpenDocs
      /\ docs' = [a \in Archs |-> <<>>]
      /\ UNCHANGED <<uri, link, held, op, opThread, stack, aborted>>
  BY DEF CloseDOM
<1>2. DOM # Closed /\ DOM \in Roots /\ Closed \in Archs /\ Closed # DOM /\ Freed # Closed /\ Roots \intersect Docs = {}
      /\ Closed \in Roots
  BY DocsAssumption DEF Roots, Archs
<1>3. /\ archive' \in [Docs \union Roots -> Archs \union {Freed}]
      /\ archive'[DOM] = Closed /\ \A x \in (Docs \union Roots) \ {DOM} : archive'[x] = archive[x]
  BY <1>1, <1>2 DEF IInv, ArchivesTypeOK
<1>4. /\ docs' \in [Archs -> Seq(Docs)]
      /\ \A a \in Archs : IsInjective(docs'[a]) /\ Range(docs'[a]) = {}
  BY <1>1 DEF IsInjective, Range
<1>5. ~DOMIsOpen'
  BY <1>2, <1>3 DEF DOMIsOpen
<1>6. \A x \in Docs : ~Locked(x) /\ op[x] = "none"
  BY <1>1 DEF Locked, IInv, OneOperation
<1>7. ArchivesTypeOK' /\ OnePlace' /\ Housed' /\ ClosedIsEmpty'
  BY <1>1, <1>3, <1>4, <1>5 DEF IInv, ArchivesTypeOK, OnePlace, Housed, ClosedIsEmpty
<1>8. ParkedWhileMoving' /\ OneOperation' /\ Idle'
  BY <1>1, <1>6 DEF IInv, ParkedWhileMoving, OneOperation, Locked, Idle
<1>9. DOMClosedIsEmpty'
  <2> SUFFICES ASSUME NEW x \in filled, x \notin OpenDocs PROVE uri[x] = NoURI
    BY <1>1 DEF DOMClosedIsEmpty
  <2>1. x \in Documents /\ x \in Docs /\ archive[x] # Freed
    BY DEF IInv, ArchivesTypeOK, Docs, Anchored
  <2>2. IsClosed(x)
    BY <2>1 DEF OpenDocs
  <2> QED
    BY <2>1, <2>2, <1>1, <1>6 DEF IInv, ClosedIsEmpty
<1>10. Anchored' /\ Addressed'
  <2>1. \A x \in filled' : x \in Docs /\ archive'[x] = archive[x] /\ archive[x] # Freed
    BY <1>1, <1>2, <1>3 DEF IInv, ArchivesTypeOK, Anchored, Docs
  <2>2. \A x \in Docs : archive'[x] = archive[x]
    BY <1>2, <1>3
  <2>3. \A z \in Zips : z \in Docs
    BY DEF Docs
  <2>4. Anchored'
    <3>1. \A z \in Zips : archive'[z] \in Roots
      BY <2>2, <2>3 DEF IInv, Anchored
    <3>2. archive'[Closed] = Closed
      BY <1>2, <1>3 DEF IInv, Anchored
    <3>3. \A z \in Zips : Range(docs'[z]) = {}
      BY <1>4 DEF Archs
    <3> QED
      BY <2>1, <3>1, <3>2, <3>3, <1>2, <1>3 DEF Anchored
  <2>5. Addressed'
    BY <2>2, <1>1 DEF IInv, Addressed
  <2> QED
    BY <2>4, <2>5
<1> QED
  BY <1>7, <1>8, <1>9, <1>10 DEF IInv
-----------------------------------------------------------------------------
(* The theorems *)

LEMMA NextInv == IInv /\ [ArchivesNext]_archivesVars => IInv'
<1> SUFFICES ASSUME IInv, [ArchivesNext]_archivesVars PROVE IInv'
  OBVIOUS
<1>1. CASE UNCHANGED archivesVars
  BY <1>1, StutterInv DEF archivesVars, IInv, ArchivesTypeOK
<1>2. CASE Client
  BY <1>2, NewDocInv, ReleaseInv, GetDocInv, FillInv, SetDocumentInv, ClearClosedDocsInv, CloseDOMInv
     DEF Client
<1>3. ASSUME NEW t \in Threads, Operation(t)
      PROVE  IInv'
  <2>1. \A u \in URIs : \A d \in Documents : d \in Docs /\ (d \in Zips => u[2] = 0)
    BY DocsAssumption DEF Docs
  <2>2. \A u \in Tops \X {0} : u \in URIs /\ u[2] = 0
    BY DEF URIs
  <2>3. \A z \in Zips : z \in Docs
    BY DEF Docs
  <2> QED
    BY <1>3, <2>1, <2>2, <2>3, BeginCloseInv, RecursiveCloseInv, BeginSetURIInv, RecursiveSetURIInv
       DEF Operation
<1>4. ASSUME NEW t \in Threads, Return(t)
      PROVE  IInv'
  BY <1>4, FinishSetURIInv, FinishCloseInv DEF Return
<1> QED
  BY <1>1, <1>2, <1>3, <1>4 DEF ArchivesNext

\* The archives' state is as IInv says, whatever the client's threads and callbacks do.
THEOREM Inductive == ArchivesSpec => []IInv
BY InitInv, NextInv, PTL DEF ArchivesSpec

\* The variables have their types, for any number of docs, archives and threads.
THEOREM Typing == ArchivesSpec => []ArchivesTypeOK
BY Inductive, PTL DEF IInv

\* No doc is ever on two lists, or twice on one, whatever clients do in callbacks.
THEOREM HousedOnce == ArchivesSpec => []OnePlace
BY Inductive, PTL DEF IInv

\* No doc that is referred to gets lost, through moves, closures and compactions.
THEOREM NothingLost == ArchivesSpec => []Housed
BY Inductive, PTL DEF IInv

\* setURI() can rely on finding its doc in _closedDocs when the client returns.
THEOREM StaysParked == ArchivesSpec => []ParkedWhileMoving
BY Inductive, PTL DEF IInv

\* _doOperation is an exclusive lock on the doc, for any number of threads.
THEOREM MutualExclusion == ArchivesSpec => []OneOperation
BY Inductive, PTL DEF IInv

\* Closing unloads: a closed document, or one of a closed archive, is empty.
THEOREM ClosingUnloads == ArchivesSpec => []ClosedIsEmpty
BY Inductive, PTL DEF IInv

\* Closing the DOM unloads every document that ever had a URI, wherever it is.
THEOREM ClosingTheDOMUnloads == ArchivesSpec => []DOMClosedIsEmpty
BY Inductive, PTL DEF IInv

\* A clear_closedDocs step drops closed docs without contents, and no others.
LEMMA CompactionStep ==
  ASSUME IInv, ClearClosedDocs, NEW d \in Docs, Listed(d), ~Listed(d)'
  PROVE  IsClosed(d) /\ d \notin filled
<1>1. DOMIsOpen
  BY DEF ClearClosedDocs
<1>2. PICK a \in Archs : d \in Range(docs[a])
  BY DEF Listed
<1>3. archive[d] = a /\ d \notin Range(docs'[a])
  BY <1>2, ListTyping DEF Listed
<1>4. a = Closed \/ a \in Range(docs[Closed])
  BY <1>2, <1>3, Compaction
<1>5. IsClosed(d)
  <2>1. archive[a] = Closed /\ DOM # Closed /\ a # DOM
    BY <1>4, ListTyping, DocsAssumption DEF IInv, Anchored, Archs, Roots, Docs
  <2> QED
    BY <2>1, <1>3 DEF IsClosed
<1>6. d \notin filled
  <2> SUFFICES ASSUME d \in filled PROVE FALSE
    OBVIOUS
  <2>1. a \notin Gone
    BY <1>1, <1>3, GoneIsEmpty
  <2> QED
    BY <2>1, <1>2, <1>3, Compaction
<1> QED
  BY <1>5, <1>6

\* clear_closedDocs drops closed docs only, and never a document with contents.
THEOREM CompactionSpares == ArchivesSpec => CompactionSparesOpenDocs
<1>1. IInv /\ [ArchivesNext]_archivesVars => [ClearClosedDocs => \A d \in Docs :
        Listed(d) /\ ~Listed(d)' => IsClosed(d) /\ d \notin filled]_archivesVars
  BY CompactionStep
<1> QED
  BY <1>1, Inductive, PTL DEF ArchivesSpec, CompactionSparesOpenDocs

\* A doc stays open unless it or its archive is given another place.
LEMMA StaysOpen ==
  ASSUME IInv, NEW d \in Docs, Live(d), archive[d] # Freed, ~IsClosed(d),
         archive'[d] = archive[d], archive'[archive[d]] = archive[archive[d]],
         archive'[DOM] = archive[DOM]
  PROVE  ~IsClosed(d)'
BY DEF IsClosed, DOMIsOpen

\* No step but the ones on the doc or its archive closes a doc of an open DOM.
LEMMA ConsentStep ==
  ASSUME IInv, ArchivesNext, NEW d \in Docs, Live(d), uri[d] # NoURI, archive[d] # Freed,
         ~IsClosed(d), IsClosed(d)'
  PROVE  \/ ~DOMIsOpen'
         \/ \E x \in {d, archive[d]} \intersect Docs : op[x] = "close" \/ op'[x] = "setURI"
<1> DEFINE Asked == \E x \in {d, archive[d]} \intersect Docs : op[x] = "close" \/ op'[x] = "setURI"
<1>1. /\ DOMIsOpen /\ archive[d] \in Archs /\ archive[d] # Closed
      /\ archive[d] = DOM \/ archive[archive[d]] = DOM
  BY Housing, ListTyping, DocsAssumption DEF IsClosed, IInv, Anchored, Live, Listed
<1>2. DOM # Closed /\ DOM \notin Docs /\ Closed \notin Docs /\ Archs \subseteq Docs \union Roots /\ DOM \in Roots
      /\ Zips \subseteq Docs
  BY DocsAssumption DEF Roots, Docs, Archs
<1>3. d \in Range(docs[archive[d]])
  <2>1. CASE Listed(d)
    BY <2>1, ListTyping DEF Listed
  <2>2. CASE Referenced(d)
    BY <2>2, <1>1, Housing
  <2> QED
    BY <2>1, <2>2 DEF Live
<1>4. ~(archive' = archive)
  BY StaysOpen
<1>5. ASSUME NEW e \in Docs, \A x \in (Docs \union Roots) \ {e} : archive'[x] = archive[x]
      PROVE  e = d \/ e = archive[d]
  BY <1>1, <1>2, <1>5, StaysOpen
<1>6. ASSUME NEW e \in Docs, archive' = [archive EXCEPT ![e] = archive'[e]]
      PROVE  e \in {d, archive[d]} \intersect Docs
  <2>1. \A x \in (Docs \union Roots) \ {e} : archive'[x] = archive[x]
    BY <1>6 DEF IInv, ArchivesTypeOK
  <2> QED
    BY <2>1, <1>5
<1>7. CASE Client
  <2>1. ASSUME NEW e \in Docs, NewDoc(e) PROVE FALSE
    <3>1. e = d \/ e = archive[d]
      <4>1. \A x \in (Docs \union Roots) \ {e} : archive'[x] = archive[x]
        BY <2>1 DEF NewDoc, IInv, ArchivesTypeOK
      <4> QED
        BY <4>1, <1>5
    <3>2. ~Live(e)
      BY <2>1 DEF NewDoc
    <3>3. archive[d] # e
      BY <3>2, <1>1, <1>3, Dead
    <3> QED
      BY <3>1, <3>2, <3>3
  <2>2. CASE ClearClosedDocs
    <3>1. archive' = [x \in Docs \union Roots |-> IF archive[x] \in Gone THEN Freed ELSE archive[x]]
      BY <2>2 DEF ClearClosedDocs, Gone
    <3>2. \A z \in Gone : archive[z] = Closed /\ z \in Zips /\ z # DOM /\ Closed \notin Gone /\ DOM \notin Gone
      BY <1>2, ListTyping DEF Gone, Archs, Roots
    <3>3. archive[d] \notin Gone /\ archive[archive[d]] \notin Gone /\ archive[DOM] \notin Gone
      BY <3>2, <1>1, <1>2 DEF DOMIsOpen
    <3>4. /\ archive'[d] = archive[d] /\ archive'[archive[d]] = archive[archive[d]]
          /\ archive'[DOM] = archive[DOM]
      BY <3>1, <3>3, <1>1, <1>2
    <3> QED
      BY <3>4, StaysOpen
  <2>3. CASE CloseDOM
    BY <2>3, <1>2 DEF CloseDOM, DOMIsOpen, IInv, ArchivesTypeOK
  <2> QED
    BY <1>4, <1>7, <2>1, <2>2, <2>3 DEF Client, Release, GetDoc, Fill, SetDocument
<1>8. ASSUME NEW e \in Docs, CloseDoc(e)
      PROVE  e \in {d, archive[d]} \intersect Docs /\ uri[e] # NoURI
  <2>1. archive' = [archive EXCEPT ![e] = Closed] /\ ~IsClosed(e)
    BY <1>4, <1>8 DEF CloseDoc
  <2>2. e \in {d, archive[d]} \intersect Docs
    <3>1. archive' = [archive EXCEPT ![e] = archive'[e]]
      BY <2>1 DEF IInv, ArchivesTypeOK
    <3> QED
      BY <3>1, <1>6
  <2>3. e = d \/ e \in Zips
    BY <2>2, <1>1, <1>2 DEF Archs, Roots
  <2>4. CASE e # d
    <3>1. archive[e] = DOM /\ uri[e] \in URIs
      BY <2>2, <2>3, <2>4, <1>1, <1>2 DEF IInv, Addressed
    <3> QED
      BY <2>2, <3>1, URIsAssumption DEF URIs, NoURI
  <2> QED
    BY <2>2, <2>4
<1>9. ASSUME NEW t \in Threads, NEW e \in Docs, NEW u, BeginSetURI(t, e, u)
      PROVE  Asked
  <2>1. archive' = [archive EXCEPT ![e] = Closed]
    BY <1>4, <1>9 DEF BeginSetURI
  <2>2. e \in {d, archive[d]} \intersect Docs
    <3>1. archive' = [archive EXCEPT ![e] = archive'[e]]
      BY <2>1 DEF IInv, ArchivesTypeOK
    <3> QED
      BY <3>1, <1>6
  <2>3. op'[e] = "setURI"
    BY <1>9, Pushing DEF BeginSetURI
  <2> QED
    BY <2>2, <2>3
<1>10. ASSUME NEW t \in Threads, FinishSetURI(t)
       PROVE  FALSE
  <2> DEFINE e == Head(stack[t]).doc
  <2>1. stack[t] # <<>> /\ Head(stack[t]).kind = "setURI"
    BY <1>10 DEF FinishSetURI, InFrame
  <2>2. e \in Docs /\ archive[e] = Closed
    BY <2>1, Innermost DEF IInv, ParkedWhileMoving
  <2>3. archive' = [archive EXCEPT ![e] = archive'[e]]
    <3>1. PICK a : archive' = [archive EXCEPT ![e] = a]
      BY <1>4, <1>10 DEF FinishSetURI, Abort
    <3> QED
      BY <3>1, <2>2 DEF IInv, ArchivesTypeOK
  <2>4. e \in {d, archive[d]}
    BY <2>2, <2>3, <1>6
  <2> QED
    BY <2>2, <2>4, <1>1, <1>2
<1>11. ASSUME NEW t \in Threads, NEW e \in Docs, BeginClose(t, e) \/ RecursiveClose(t, e)
       PROVE  Asked
  <2>1. CASE BeginClose(t, e)
    <3>1. CloseDoc(e) /\ uri[e] = NoURI
      BY <2>1, <1>4 DEF BeginClose, Abort
    <3> QED
      BY <3>1, <1>8
  <2>2. CASE RecursiveClose(t, e)
    <3>1. CloseDoc(e) /\ op[e] = "close"
      BY <2>2, <1>4 DEF RecursiveClose, Abort
    <3> QED
      BY <3>1, <1>8
  <2> QED
    BY <1>11, <2>1, <2>2
<1>12. ASSUME NEW t \in Threads, NEW verdict, FinishClose(t, verdict)
       PROVE  Asked
  <2> DEFINE e == Head(stack[t]).doc
  <2>1. stack[t] # <<>> /\ Head(stack[t]).kind = "close"
    BY <1>12 DEF FinishClose, InFrame
  <2>2. e \in Docs /\ op[e] = "close"
    BY <2>1, Innermost
  <2>3. CloseDoc(e)
    BY <1>4, <1>12 DEF FinishClose, Abort
  <2> QED
    BY <2>2, <2>3, <1>8
<1>13. ASSUME NEW t \in Threads, Operation(t)
       PROVE  Asked
  <2>1. ASSUME NEW e \in Docs, NEW u, RecursiveSetURI(t, e, u) PROVE FALSE
    BY <2>1, <1>4 DEF RecursiveSetURI, Abort
  <2> QED
    BY <1>13, <2>1, <1>9, <1>11 DEF Operation, Docs
<1>14. ASSUME NEW t \in Threads, Return(t)
       PROVE  Asked
  BY <1>14, <1>10, <1>12 DEF Return
<1> HIDE DEF Asked
<1>15. CASE Asked
  BY <1>15 DEF Asked
<1> QED
  BY <1>7, <1>13, <1>14, <1>15 DEF ArchivesNext

\* The client has a say in every closure of a doc with a URI.
THEOREM Consent == ArchivesSpec => CloseByConsent
<1>1. IInv /\ [ArchivesNext]_archivesVars => [\A d \in Docs :
       Live(d) /\ uri[d] # NoURI /\ archive[d] # Freed /\ ~IsClosed(d) /\ IsClosed(d)' =>
         \/ ~DOMIsOpen'
         \/ \E x \in {d, archive[d]} \intersect Docs : op[x] = "close" \/ op'[x] = "setURI"]_archivesVars
  BY ConsentStep
<1> QED
  BY <1>1, Inductive, PTL DEF ArchivesSpec, CloseByConsent
-----------------------------------------------------------------------------
(***************************************************************************)
(* Archives implements Library: every step of the lists is a step of the   *)
(* library that they keep, or changes nothing that it shows.  One lemma    *)
(* per operation says which; they rest on the inductive invariant.         *)
(***************************************************************************)

\* What is shown has no other part.
LEMMA ShownVars == UNCHANGED <<archive, uri, op, filled>> => UNCHANGED Promised!vars
BY DEF Promised!vars, DOMIsOpen

LEMMA RootsAside ==
  /\ DOM # Closed /\ DOM \notin Docs /\ Closed \notin Docs /\ DOM \in Roots /\ Closed \in Roots
  /\ Freed \notin Docs /\ Freed \notin Roots
  /\ Zips \subseteq Docs /\ Documents \subseteq Docs /\ Archs \subseteq Docs \union Roots
  /\ Zips \intersect Documents = {} /\ Promised!Docs = Docs /\ Docs = Documents \union Zips
BY DocsAssumption DEF Roots, Docs, Archs, Promised!Docs

\* Open in the library is what isClosed() denies.
LEMMA OpenIs ==
  ASSUME IInv, NEW d \in Docs, archive[d] # Freed
  PROVE  Promised!Open(d) <=> ~IsClosed(d)
<1>1. archive[d] \in Archs /\ archive[Closed] = Closed
  BY DEF IInv, ArchivesTypeOK, Anchored
<1>2. archive[d] \in Zips \/ archive[d] = DOM \/ archive[d] = Closed
  BY <1>1 DEF Archs, Roots
<1> QED
  BY <1>1, <1>2, RootsAside DEF Promised!Open, IsClosed, DOMIsOpen

LEMMA InitRefines == ArchivesInit => Promised!Init
BY RootsAside DEF ArchivesInit, Promised!Init, Promised!Docs, Docs, DOMIsOpen

LEMMA NewDocRefines ==
  ASSUME IInv, NEW d \in Docs, NewDoc(d)
  PROVE  Promised!Create(d)
<1>1. DOMIsOpen /\ op[d] = "none" /\ d \notin filled
  BY Dead DEF NewDoc
<1>2. archive' = [archive EXCEPT ![d] = Closed] /\ uri' = [uri EXCEPT ![d] = NoURI]
      /\ UNCHANGED <<op, filled>>
  BY DEF NewDoc
<1>3. archive \in [Docs \union Roots -> Archs \union {Freed}]
  BY DEF IInv, ArchivesTypeOK
<1>4. DOMIsOpen'
  BY <1>1, <1>2, <1>3, RootsAside DEF DOMIsOpen
<1>5. [x \in Docs |-> archive'[x]] = [[x \in Docs |-> archive[x]] EXCEPT ![d] = Closed]
  BY <1>2, <1>3
<1> QED
  BY <1>1, <1>2, <1>4, <1>5 DEF Promised!Create

LEMMA FillRefines ==
  ASSUME IInv, NEW d \in Documents, Fill(d)
  PROVE  Promised!Load(d)
<1>1. d \in Docs /\ archive[d] # Freed
  BY RootsAside DEF Fill, Usable
<1> QED
  BY <1>1, OpenIs DEF Fill, Promised!Load, DOMIsOpen

\* Parking keeps all other docs, and the DOM, where they are.
LEMMA ParkingRefines ==
  ASSUME IInv, NEW d \in Docs, archive' = [archive EXCEPT ![d] = Closed]
  PROVE  /\ [x \in Docs |-> archive'[x]] = [[x \in Docs |-> archive[x]] EXCEPT ![d] = Closed]
         /\ DOMIsOpen' = DOMIsOpen
<1>1. archive \in [Docs \union Roots -> Archs \union {Freed}]
  BY DEF IInv, ArchivesTypeOK
<1> QED
  BY <1>1, RootsAside DEF DOMIsOpen

LEMMA BeginSetURIRefines ==
  ASSUME IInv, NEW t \in Threads, NEW d \in Docs, NEW u \in URIs, BeginSetURI(t, d, u)
  PROVE  Promised!Leave(d, u)
<1>1. /\ DOMIsOpen /\ op[d] = "none" /\ UNCHANGED filled
      /\ uri' = [uri EXCEPT ![d] = u] /\ op' = [op EXCEPT ![d] = "setURI"]
  BY DEF BeginSetURI, Usable, Push
<1>2. archive' = [archive EXCEPT ![d] = Closed]
  <2>1. CASE archive[d] = Closed
    BY <2>1 DEF BeginSetURI, IInv, ArchivesTypeOK
  <2>2. CASE archive[d] # Closed
    BY <2>2 DEF BeginSetURI
  <2> QED
    BY <2>1, <2>2
<1> QED
  BY <1>1, <1>2, ParkingRefines DEF Promised!Leave

LEMMA RecursiveSetURIRefines ==
  ASSUME IInv, NEW t \in Threads, NEW d \in Docs, NEW u \in URIs, RecursiveSetURI(t, d, u)
  PROVE  Promised!Rename(d, u) \/ UNCHANGED Promised!vars
BY ShownVars DEF RecursiveSetURI, Abort, Promised!Rename, DOMIsOpen

\* The doc arrives where the lookup of its URI leads: in the open tree.
LEMMA FinishSetURIRefines ==
  ASSUME IInv, NEW t \in Threads, FinishSetURI(t)
  PROVE  (\E d \in Docs, a \in Zips \union {DOM} : Promised!Arrive(d, a)) \/ UNCHANGED Promised!vars
<1> DEFINE d == Head(stack[t]).doc
           a == Scope(uri[d])
<1>1. d \in Docs /\ op[d] = "setURI" /\ archive[d] = Closed
  BY Innermost DEF FinishSetURI, InFrame, IInv, ParkedWhileMoving
<1>2. a \in Zips \union {DOM} /\ (a = DOM \/ archive[a] = DOM)
  BY ScopeIsOpen
<1>3. CASE UNCHANGED <<archive, uri, op, filled>>
  BY <1>3, ShownVars
<1>4. CASE archive' = [archive EXCEPT ![d] = a] /\ uri' = Rebased(d) /\ Pop(t) /\ UNCHANGED filled
  <2>1. archive \in [Docs \union Roots -> Archs \union {Freed}] /\ uri \in [Docs -> URIs \union {NoURI}]
    BY DEF IInv, ArchivesTypeOK
  <2>2. op' = [op EXCEPT ![d] = "none"]
    BY <1>4 DEF Pop
  <2>3. /\ [x \in Docs |-> archive'[x]] = [[x \in Docs |-> archive[x]] EXCEPT ![d] = a]
        /\ DOMIsOpen' = DOMIsOpen
    BY <1>1, <1>4, <2>1, RootsAside DEF DOMIsOpen
  <2> DEFINE inside == IF d \in Zips THEN Range(docs[d]) ELSE {}
  <2>4. inside \subseteq {x \in Docs : [y \in Docs |-> archive[y]][x] = d}
    BY ListTyping DEF Archs
  <2>5. uri' = [x \in Docs |-> IF x \in inside THEN Follow(uri[d], uri[x]) ELSE uri[x]]
    BY <1>4 DEF Rebased, Follow
  <2>6. [x \in Docs |-> archive[x]][d] = Closed
        /\ (a = DOM \/ (a \in Zips /\ [x \in Docs |-> archive[x]][a] = DOM))
    BY <1>1, <1>2, RootsAside
  <2> HIDE DEF d, a, inside
  <2>7. Promised!Arrive(d, a)
    BY <1>1, <1>4, <2>2, <2>3, <2>4, <2>5, <2>6, RootsAside DEF Promised!Arrive
  <2> QED
    BY <1>1, <1>2, <2>7 DEF Promised!Arrive
<1> QED
  BY <1>3, <1>4 DEF FinishSetURI, Abort
-----------------------------------------------------------------------------
(* Closing *)

\* What _closedDoc does is the library's Close, in an operation or after it.
LEMMA CloseDocRefines ==
  ASSUME IInv, DOMIsOpen, NEW d \in Docs, CloseDoc(d),
         op[d] = "close" \/ (op[d] = "none" /\ uri[d] = NoURI),
         op' \in {op, [op EXCEPT ![d] = "none"]}
  PROVE  Promised!Close(d)
<1>1. archive[d] # Freed /\ UNCHANGED uri
      /\ archive' = (IF IsClosed(d) THEN archive ELSE [archive EXCEPT ![d] = Closed])
      /\ filled' = filled \ Atomized(d)
  BY DEF CloseDoc
<1>2. DOMIsOpen' = DOMIsOpen
      /\ [x \in Docs |-> archive'[x]] =
           IF Promised!Open(d) THEN [[x \in Docs |-> archive[x]] EXCEPT ![d] = Closed]
           ELSE [x \in Docs |-> archive[x]]
  <2>1. CASE IsClosed(d)
    BY <2>1, <1>1, OpenIs DEF DOMIsOpen
  <2>2. CASE ~IsClosed(d)
    BY <2>2, <1>1, OpenIs, ParkingRefines
  <2> QED
    BY <2>1, <2>2
<1>3. filled' = filled \ {x \in Documents : x = d \/ archive[x] = d}
  <2>1. filled \subseteq Documents
    BY DEF IInv, ArchivesTypeOK
  <2>2. CASE d \in Zips
    <3>1. \A x \in Range(docs[d]) : archive[x] = d
      BY <2>2, ListTyping DEF Archs
    <3>2. ASSUME NEW x \in filled, archive[x] = d PROVE x \in Range(docs[d])
      BY <3>2, <2>1, <1>1, Housing, RootsAside DEF Referenced, IInv, Anchored
    <3>3. d \notin Documents
      BY <2>2, RootsAside
    <3> QED
      BY <1>1, <2>1, <2>2, <3>1, <3>2, <3>3 DEF Atomized
  <2>3. CASE d \notin Zips
    <3>1. ASSUME NEW x \in filled PROVE archive[x] # d
      <4>1. x \in Docs /\ archive[x] \in Archs
        BY <2>1, RootsAside DEF IInv, ArchivesTypeOK, Anchored
      <4> QED
        BY <4>1, <2>3, RootsAside DEF Archs, Roots
    <3> QED
      BY <1>1, <2>1, <2>3, <3>1 DEF Atomized
  <2> QED
    BY <2>2, <2>3
<1>4. {x \in Promised!Docs \intersect Documents : x = d \/ archive[x] = d} = {x \in Documents : x = d \/ archive[x] = d}
  BY RootsAside
<1>5. {x \in Documents : x = d \/ [y \in Docs |-> archive[y]][x] = d} = {x \in Documents : x = d \/ archive[x] = d}
  BY RootsAside
<1> QED
  BY <1>1, <1>2, <1>3, <1>5 DEF Promised!Close

LEMMA BeginCloseRefines ==
  ASSUME IInv, NEW t \in Threads, NEW d \in Docs, BeginClose(t, d)
  PROVE  Promised!Close(d) \/ Promised!Ask(d) \/ UNCHANGED Promised!vars
<1>1. DOMIsOpen /\ op[d] = "none" /\ archive[d] # Freed
  BY DEF BeginClose, Usable
<1>2. CASE uri[d] = NoURI /\ CloseDoc(d) /\ UNCHANGED <<op, opThread, stack>>
  BY <1>1, <1>2, CloseDocRefines
<1>3. CASE Abort("close of a closed doc")
  BY <1>3, ShownVars DEF Abort
<1>4. CASE /\ uri[d] # NoURI /\ ~IsClosed(d) /\ Push(t, "close", d)
           /\ UNCHANGED <<docs, archive, uri, link, filled, held, aborted>>
  <2>1. Promised!Open(d) /\ op' = [op EXCEPT ![d] = "close"] /\ DOMIsOpen' = DOMIsOpen
    BY <1>1, <1>4, OpenIs DEF Push, DOMIsOpen
  <2> QED
    BY <2>1, <1>1, <1>4 DEF Promised!Ask
<1> QED
  BY <1>2, <1>3, <1>4 DEF BeginClose

LEMMA RecursiveCloseRefines ==
  ASSUME IInv, NEW t \in Threads, NEW d \in Docs, RecursiveClose(t, d)
  PROVE  Promised!Close(d) \/ UNCHANGED Promised!vars
<1>1. CASE op[d] = "close" /\ CloseDoc(d) /\ UNCHANGED <<op, opThread, stack>>
  BY <1>1, CloseDocRefines DEF RecursiveClose, Usable
<1>2. CASE Abort("op mismatch")
  BY <1>2, ShownVars DEF Abort
<1> QED
  BY <1>1, <1>2 DEF RecursiveClose

LEMMA FinishCloseRefines ==
  ASSUME IInv, NEW t \in Threads, NEW verdict, FinishClose(t, verdict)
  PROVE  (\E d \in Docs : Promised!Close(d) \/ Promised!Answer(d)) \/ UNCHANGED Promised!vars
<1> DEFINE d == Head(stack[t]).doc
<1>1. d \in Docs /\ op[d] = "close" /\ stack[t] # <<>>
  BY Innermost DEF FinishClose, InFrame
<1>2. DOMIsOpen
  BY <1>1 DEF IInv, Idle
<1>3. CASE Pop(t) /\ UNCHANGED <<docs, archive, uri, link, filled, held, aborted>>
  <2>1. op' = [op EXCEPT ![d] = "none"] /\ DOMIsOpen' = DOMIsOpen
    BY <1>3 DEF Pop, DOMIsOpen
  <2> HIDE DEF d
  <2>2. Promised!Answer(d)
    BY <2>1, <1>1, <1>3 DEF Promised!Answer
  <2> QED
    BY <1>1, <2>2
<1>4. CASE Abort("closeURI did not close")
  BY <1>4, ShownVars DEF Abort
<1>5. CASE Pop(t) /\ CloseDoc(d)
  <2>1. op' = [op EXCEPT ![d] = "none"]
    BY <1>5 DEF Pop
  <2> HIDE DEF d
  <2> QED
    BY <2>1, <1>1, <1>2, <1>5, CloseDocRefines
<1> QED
  BY <1>3, <1>4, <1>5 DEF FinishClose
-----------------------------------------------------------------------------
(* Compaction, and the end *)

LEMMA ClearClosedDocsRefines ==
  ASSUME IInv, ClearClosedDocs
  PROVE  \E gone \in SUBSET Zips : Promised!Forget(gone)
<1>1. DOMIsOpen /\ UNCHANGED <<uri, op, filled>>
      /\ archive' = [d \in Docs \union Roots |-> IF archive[d] \in Gone THEN Freed ELSE archive[d]]
  BY DEF ClearClosedDocs, Gone
<1>2. Gone \in SUBSET Zips
  BY DEF Gone
<1>3. \A z \in Gone : archive[z] = Closed /\ op[z] = "none" /\ z \in Docs
  BY ListTyping, RootsAside DEF Gone, Archs, IInv, OneOperation
<1>4. \A d \in filled : archive[d] \notin Gone /\ d \in Docs
  BY <1>1, GoneIsEmpty, RootsAside DEF IInv, ArchivesTypeOK
<1>5. DOMIsOpen'
  BY <1>1, <1>2, RootsAside DEF DOMIsOpen
<1>6. [x \in Docs |-> archive'[x]] =
        [x \in Docs |-> IF [y \in Docs |-> archive[y]][x] \in Gone THEN Freed
                        ELSE [y \in Docs |-> archive[y]][x]]
  BY <1>1
<1>7. Promised!Forget(Gone)
  BY <1>1, <1>2, <1>3, <1>4, <1>5, <1>6, RootsAside DEF Promised!Forget
<1> QED
  BY <1>2, <1>7 DEF Promised!Forget

LEMMA CloseDOMRefines ==
  ASSUME IInv, CloseDOM
  PROVE  Promised!Shut
<1>1. DOMIsOpen /\ UNCHANGED <<uri, op>> /\ archive' = [archive EXCEPT ![DOM] = Closed]
      /\ filled' = filled \ OpenDocs
  BY DEF CloseDOM
<1>2. \A d \in Docs : op[d] = "none"
  <2>1. \A d \in Docs : ~Locked(d)
    BY LenProperties DEF CloseDOM, Locked
  <2> QED
    BY <2>1 DEF IInv, OneOperation
<1>3. archive \in [Docs \union Roots -> Archs \union {Freed}] /\ filled \subseteq Documents
  BY DEF IInv, ArchivesTypeOK
<1>4. ~DOMIsOpen' /\ [x \in Docs |-> archive'[x]] = [x \in Docs |-> archive[x]]
  BY <1>1, <1>3, RootsAside DEF DOMIsOpen
<1>5. filled' = {d \in filled : ~Promised!Open(d)}
  BY <1>1, <1>3, OpenIs, RootsAside DEF OpenDocs, IInv, Anchored
<1> QED
  BY <1>1, <1>2, <1>4, <1>5, RootsAside DEF Promised!Shut
-----------------------------------------------------------------------------
LEMMA NextRefines == IInv /\ [ArchivesNext]_archivesVars => [Promised!Next]_Promised!vars
<1> SUFFICES ASSUME IInv, [ArchivesNext]_archivesVars PROVE Promised!Next \/ UNCHANGED Promised!vars
  OBVIOUS
<1>1. CASE UNCHANGED archivesVars
  BY <1>1, ShownVars DEF archivesVars
<1>2. CASE Client
  <2>1. ASSUME NEW d \in Docs, NewDoc(d) PROVE Promised!Next
    BY <2>1, NewDocRefines, RootsAside DEF Promised!Next
  <2>2. ASSUME NEW d \in Docs, Release(d) PROVE UNCHANGED Promised!vars
    BY <2>2, ShownVars DEF Release
  <2>3. ASSUME NEW u \in URIs, GetDoc(u) PROVE UNCHANGED Promised!vars
    BY <2>3, ShownVars DEF GetDoc
  <2>4. ASSUME NEW d \in Documents, Fill(d) PROVE Promised!Next
    BY <2>4, FillRefines DEF Promised!Next
  <2>5. ASSUME NEW a \in Zips, NEW d \in Documents, SetDocument(a, d) PROVE UNCHANGED Promised!vars
    BY <2>5, ShownVars DEF SetDocument
  <2>6. CASE ClearClosedDocs
    BY <2>6, ClearClosedDocsRefines DEF Promised!Next
  <2>7. CASE CloseDOM
    BY <2>7, CloseDOMRefines DEF Promised!Next
  <2> QED
    BY <1>2, <2>1, <2>2, <2>3, <2>4, <2>5, <2>6, <2>7 DEF Client
<1>3. ASSUME NEW t \in Threads, Operation(t)
      PROVE  Promised!Next \/ UNCHANGED Promised!vars
  <2>1. ASSUME NEW d \in Docs, NEW u \in URIs, BeginSetURI(t, d, u) \/ RecursiveSetURI(t, d, u)
        PROVE  Promised!Next \/ UNCHANGED Promised!vars
    BY <2>1, BeginSetURIRefines, RecursiveSetURIRefines, RootsAside DEF Promised!Next
  <2>2. ASSUME NEW d \in Docs, BeginClose(t, d) \/ RecursiveClose(t, d)
        PROVE  Promised!Next \/ UNCHANGED Promised!vars
    BY <2>2, BeginCloseRefines, RecursiveCloseRefines, RootsAside DEF Promised!Next
  <2>3. Tops \X {0} \subseteq URIs
    BY DEF URIs
  <2> QED
    BY <1>3, <2>1, <2>2, <2>3, RootsAside DEF Operation
<1>4. ASSUME NEW t \in Threads, Return(t)
      PROVE  Promised!Next \/ UNCHANGED Promised!vars
  <2>1. CASE FinishSetURI(t)
    BY <2>1, FinishSetURIRefines, RootsAside DEF Promised!Next
  <2>2. ASSUME NEW verdict, FinishClose(t, verdict) PROVE Promised!Next \/ UNCHANGED Promised!vars
    BY <2>2, FinishCloseRefines, RootsAside DEF Promised!Next
  <2> QED
    BY <1>4, <2>1, <2>2 DEF Return
<1> QED
  BY <1>1, <1>2, <1>3, <1>4 DEF ArchivesNext

\* The lists of any number of docs and archives, in any number of threads, keep what
\* the library promises.
THEOREM Implementation == ArchivesSpec => ImplementsLibrary
<1>1. ArchivesInit => Promised!Init
  BY InitRefines
<1>2. IInv /\ [ArchivesNext]_archivesVars => [Promised!Next]_Promised!vars
  BY NextRefines
<1> QED
  BY <1>1, <1>2, Inductive, PTL DEF ArchivesSpec, ImplementsLibrary, Promised!Spec
-----------------------------------------------------------------------------
(* The search for a doc *)

\* The middle of what is left of a list is in it.
LEMMA HalvesAre ==
  ASSUME NEW d \in Nat, d # 0
  PROVE  d \div 2 \in Nat /\ d \div 2 < d
OBVIOUS

\* Where the bisection goes on from a window, or a window that is none.
Narrowed(list, u, w) ==
  LET mid == w[1] + (w[2] - w[1]) \div 2
  IN  IF w[1] >= w[2] THEN <<Len(list) + 1, 0>>
      ELSE IF Less(u, uri[list[Len(list) - mid]]) THEN <<mid + 1, w[2]>> ELSE <<w[1], mid>>

\* Each window is smaller than the one before it.
LEMMA WindowNarrows ==
  ASSUME NEW list, NEW u, NEW n \in Nat, n = Len(list), NEW w \in (0..n) \X (0..n), w[1] < w[2]
  PROVE  LET mid == w[1] + (w[2] - w[1]) \div 2
             next == Narrowed(list, u, w)
         IN  /\ mid \in 0..(n - 1) /\ w[1] <= mid /\ mid < w[2]
             /\ next = IF Less(u, uri[list[n - mid]]) THEN <<mid + 1, w[2]>> ELSE <<w[1], mid>>
             /\ next \in (0..n) \X (0..n)
             /\ next[1] <= next[2] /\ next[2] - next[1] < w[2] - w[1]
<1> DEFINE mid == w[1] + (w[2] - w[1]) \div 2
           next == Narrowed(list, u, w)
<1>1. PICK a, b : a = w[1] /\ b = w[2] /\ w = <<a, b>>
  OBVIOUS
<1>2. a \in 0..n /\ b \in 0..n /\ a < b
  BY <1>1
<1>3. PICK h : h = (b - a) \div 2
  OBVIOUS
<1>4. h \in Nat /\ h < b - a
  <2>1. b - a \in Nat /\ b - a # 0
    BY <1>2
  <2> QED BY <1>3, <2>1, HalvesAre
<1>5. mid = a + h
  BY <1>1, <1>3
<1>6. mid \in 0..(n - 1) /\ a <= mid /\ mid < b /\ mid + 1 \in 0..n /\ mid \in 0..n
  BY <1>2, <1>4, <1>5
<1>7. next = IF Less(u, uri[list[n - mid]]) THEN <<mid + 1, b>> ELSE <<a, mid>>
  <2>1. ~(w[1] >= w[2])
    BY <1>1, <1>2
  <2> QED BY <1>1, <2>1 DEF Narrowed
<1> HIDE DEF mid, next
<1>8. /\ next \in (0..n) \X (0..n)
      /\ next[1] <= next[2] /\ next[2] - next[1] < b - a
  <2>1. CASE Less(u, uri[list[n - mid]])
    <3>1. next = <<mid + 1, b>>
      BY <1>7, <2>1
    <3> QED BY <1>2, <1>6, <3>1
  <2>2. CASE ~Less(u, uri[list[n - mid]])
    <3>1. next = <<a, mid>>
      BY <1>7, <2>2
    <3> QED BY <1>2, <1>6, <3>1
  <2> QED BY <2>1, <2>2
<1> QED BY <1>1, <1>6, <1>7, <1>8 DEF mid, next

\* So the bisection ends.
LEMMA BisectionEnds ==
  ASSUME NEW list, NEW u, NEW n \in Nat, n = Len(list)
  PROVE  Ends((0..n) \X (0..n), [w \in (0..n) \X (0..n) |-> Narrowed(list, u, w)])
<1> DEFINE S == (0..n) \X (0..n)
<1> SUFFICES ASSUME NEW T \in SUBSET S, T # {} PROVE \E w \in T : Narrowed(list, u, w) \notin T
  BY DEF Ends
<1>1. CASE \E w \in T : w[1] >= w[2]
  <2>1. PICK w \in T : w[1] >= w[2]
    BY <1>1
  <2>2. Narrowed(list, u, w) = <<n + 1, 0>>
    BY <2>1 DEF Narrowed
  <2>3. <<n + 1, 0>> \notin S
    OBVIOUS
  <2> QED BY <2>2, <2>3
<1>2. CASE \A w \in T : w[1] < w[2]
  <2> DEFINE D == {w[2] - w[1] : w \in T}
  <2>1. D \in SUBSET Nat /\ D # {}
    <3>1. \A w \in T : w[2] - w[1] \in Nat
      BY <1>2
    <3> QED BY <3>1
  <2>2. PICK d \in D : \A e \in D : d <= e
    <3> HIDE DEF D
    <3> QED BY <2>1, SmallestOf
  <2>3. PICK w \in T : d = w[2] - w[1]
    BY <2>2
  <2>4. PICK m : m = Narrowed(list, u, w)
    OBVIOUS
  <2>5. m \in S /\ m[2] - m[1] < d
    <3>1. w \in S /\ w[1] < w[2]
      BY <1>2
    <3> QED BY <2>3, <2>4, <3>1, WindowNarrows
  <2>6. m \in T => m[2] - m[1] \in D
    OBVIOUS
  <2>7. m \notin T
    <3>1. d \in Nat /\ m[2] - m[1] \in Int
      BY <2>1, <2>5
    <3> HIDE DEF D
    <3> QED BY <2>2, <2>5, <2>6, <3>1
  <2> QED BY <2>4, <2>7
<1>3. \A w \in T : w[1] \in Int /\ w[2] \in Int
  OBVIOUS
<1> QED BY <1>1, <1>2, <1>3

\* What the bisection says of every window.
Bisected(list, u, n, lb) ==
  /\ lb \in [(0..n) \X (0..n) -> 0..n]
  /\ LowerBound(list, u) = n - lb[<<0, n>>]
  /\ \A w \in (0..n) \X (0..n) :
       lb[w] = IF w[1] >= w[2] THEN w[1] ELSE lb[Narrowed(list, u, w)]

\* It is so of any list, in order or not.
LEMMA LowerBoundRecurs ==
  ASSUME NEW list, NEW u, NEW n \in Nat, n = Len(list)
  PROVE  \E lb : Bisected(list, u, n, lb)
<1> DEFINE S == (0..n) \X (0..n)
           V == 0..n
           next == [w \in S |-> Narrowed(list, u, w)]
           G == [w \in S |-> [x \in V |-> x]]
           B == [w \in S |-> w[1]]
           mid(w) == w[1] + (w[2] - w[1]) \div 2
           v(y, w) == IF w[1] >= w[2] THEN w[1]
                      ELSE IF Less(u, uri[list[n - mid(w)]]) THEN y[<<mid(w) + 1, w[2]>>]
                      ELSE y[<<w[1], mid(w)>>]
<1>1. Ends(S, next)
  BY BisectionEnds
<1>2. G \in [S -> [V -> V]] /\ B \in [S -> V]
  OBVIOUS
<1>3. PICK f \in [S -> V] : Along(S, next, G, B, f)
  <2> HIDE DEF S, V, next, G, B
  <2> QED BY <1>1, <1>2, RecursionAlong
<1>4. ASSUME NEW w \in S, NEW y
      PROVE  v(y, w) = IF w[1] >= w[2] THEN w[1] ELSE y[Narrowed(list, u, w)]
  <2>1. w[1] \in Int /\ w[2] \in Int
    OBVIOUS
  <2>2. CASE w[1] >= w[2]
    BY <2>2
  <2>3. CASE ~(w[1] >= w[2])
    <3>1. Narrowed(list, u, w) =
            IF Less(u, uri[list[n - mid(w)]]) THEN <<mid(w) + 1, w[2]>> ELSE <<w[1], mid(w)>>
      BY <2>3 DEF Narrowed
    <3> HIDE DEF mid
    <3> QED BY <2>3, <3>1
  <2> QED BY <2>2, <2>3
<1>5. ASSUME NEW w \in S PROVE f[w] = v(f, w)
  <2>1. f[w] = IF next[w] \in S THEN f[next[w]] ELSE w[1]
    <3>1. next[w] \in S => f[next[w]] \in V
      <4> HIDE DEF S, V, next
      <4> QED BY <1>3
    <3>2. f[w] = IF next[w] \in S THEN G[w][f[next[w]]] ELSE B[w]
      <4> HIDE DEF S, V, next, G, B
      <4> QED BY <1>3 DEF Along
    <3>3. B[w] = w[1] /\ \A x \in V : G[w][x] = x
      OBVIOUS
    <3> HIDE DEF S, V, next, G, B
    <3> QED BY <3>1, <3>2, <3>3
  <2>2. next[w] = Narrowed(list, u, w)
    OBVIOUS
  <2>3. w[1] \in Int /\ w[2] \in Int
    OBVIOUS
  <2>4. CASE w[1] >= w[2]
    <3>1. next[w] = <<n + 1, 0>>
      BY <2>2, <2>4 DEF Narrowed
    <3>2. <<n + 1, 0>> \notin S
      OBVIOUS
    <3>3. f[w] = w[1]
      BY <2>1, <3>1, <3>2
    <3> QED BY <1>4, <2>4, <3>3
  <2>5. CASE ~(w[1] >= w[2])
    <3>1. Narrowed(list, u, w) \in S
      <4>1. w[1] < w[2]
        BY <2>3, <2>5
      <4> QED BY <4>1, WindowNarrows
    <3>2. f[w] = f[Narrowed(list, u, w)]
      BY <2>1, <2>2, <3>1
    <3> QED BY <1>4, <2>5, <3>2
  <2> QED BY <2>4, <2>5
<1>6. f = [w \in S |-> v(f, w)]
  <2> HIDE DEF S, V, v
  <2> QED BY <1>3, <1>5
<1> DEFINE h == CHOOSE y : y = [w \in S |-> v(y, w)]
<1>7. h = [w \in S |-> v(h, w)]
  <2> HIDE DEF S, v
  <2> QED BY <1>6
<1>8. LowerBound(list, u) = n - h[<<0, n>>]
  BY DEF LowerBound
<1> HIDE DEF h
<1>9. \A w \in S : h[w] = IF w[1] >= w[2] THEN w[1] ELSE h[Narrowed(list, u, w)]
  <2> HIDE DEF S, v
  <2>1. \A w \in S : h[w] = v(h, w)
    BY <1>7
  <2> QED BY <1>4, <2>1
<1> DEFINE T == {w \in S : h[w] \notin V}
<1>10. T = {}
  <2> SUFFICES ASSUME T # {} PROVE FALSE
    OBVIOUS
  <2>1. PICK w \in T : next[w] \notin T
    <3>1. T \in SUBSET S
      OBVIOUS
    <3> HIDE DEF S, T, next
    <3> QED BY <1>1, <3>1 DEF Ends
  <2>2. w \in S /\ h[w] \notin V /\ w[1] \in V /\ w[2] \in V
    OBVIOUS
  <2>3. ~(w[1] >= w[2])
    BY <1>9, <2>2
  <2>4. h[w] = h[next[w]]
    BY <1>9, <2>2, <2>3
  <2>5. next[w] \in S
    <3>1. w[1] < w[2]
      BY <2>2, <2>3
    <3> QED BY <2>2, <3>1, WindowNarrows
  <2> QED BY <2>1, <2>2, <2>4, <2>5
<1>11. h \in [S -> V]
  <2>1. \A w \in S : h[w] \in V
    BY <1>10
  <2> HIDE DEF S, V, v, T
  <2> QED BY <1>7, <2>1
<1> HIDE DEF v, next, G, B, mid
<1> QED BY <1>8, <1>9, <1>11 DEF Bisected
-----------------------------------------------------------------------------
(* What the bisection finds in a sorted list *)

\* The bisection's answer from a window is where the docs greater than u end, from the end.
Splits(list, u, i) ==
  \A k \in 0..(Len(list) - 1) : Less(u, uri[list[Len(list) - k]]) <=> k < i

\* The docs that are greater than u are at the end of the list.
GreaterLast(list, u) ==
  \A k, l \in 0..(Len(list) - 1) :
    k < l /\ Less(u, uri[list[Len(list) - l]]) => Less(u, uri[list[Len(list) - k]])

\* The end of those docs is inside of a window.
Brackets(list, u, w) ==
  /\ w[1] <= w[2]
  /\ \A k \in 0..(Len(list) - 1) :
       /\ k < w[1] => Less(u, uri[list[Len(list) - k]])
       /\ w[2] <= k => ~Less(u, uri[list[Len(list) - k]])

\* A window that has the end inside of it is narrowed to one that has it too.
LEMMA BracketsNarrow ==
  ASSUME NEW list, NEW u, NEW n \in Nat, n = Len(list), GreaterLast(list, u),
         NEW w \in (0..n) \X (0..n), w[1] < w[2], Brackets(list, u, w)
  PROVE  Brackets(list, u, Narrowed(list, u, w))
<1>1. PICK a, b, m : a = w[1] /\ b = w[2] /\ m = w[1] + (w[2] - w[1]) \div 2
  OBVIOUS
<1>2. PICK next : next = Narrowed(list, u, w)
  OBVIOUS
<1>3. /\ m \in 0..(n - 1) /\ a <= m /\ m < b
      /\ next = IF Less(u, uri[list[n - m]]) THEN <<m + 1, b>> ELSE <<a, m>>
      /\ next[1] <= next[2]
  BY <1>1, <1>2, WindowNarrows
<1> DEFINE Above(k) == Less(u, uri[list[n - k]])
<1>4. \A k, l \in 0..(n - 1) : k < l /\ Above(l) => Above(k)
  BY DEF GreaterLast
<1>5. \A k \in 0..(n - 1) : (k < a => Above(k)) /\ (b <= k => ~Above(k))
  BY <1>1 DEF Brackets
<1>6. next = IF Above(m) THEN <<m + 1, b>> ELSE <<a, m>>
  BY <1>3
<1>7. a \in Int /\ b \in Int
  BY <1>1
<1> SUFFICES \A k \in 0..(n - 1) : (k < next[1] => Above(k)) /\ (next[2] <= k => ~Above(k))
  BY <1>2, <1>3 DEF Brackets
<1> HIDE DEF Above
<1>8. CASE Above(m)
  <2>1. next[1] = m + 1 /\ next[2] = b
    BY <1>6, <1>8
  <2>2. \A k \in 0..(n - 1) : k < m + 1 => k < m \/ k = m
    BY <1>3
  <2> QED BY <1>3, <1>4, <1>5, <1>8, <2>1, <2>2
<1>9. CASE ~Above(m)
  <2>1. next[1] = a /\ next[2] = m
    BY <1>6, <1>9
  <2>2. \A k \in 0..(n - 1) : m <= k => m < k \/ k = m
    BY <1>3
  <2> QED BY <1>3, <1>4, <1>5, <1>9, <2>1, <2>2
<1> QED BY <1>8, <1>9

\* So the bisection finds the last doc that is not greater, where the greater ones are last.
LEMMA LowerBoundSplits ==
  ASSUME NEW list, NEW u, NEW n \in Nat, n = Len(list), GreaterLast(list, u)
  PROVE  /\ LowerBound(list, u) \in 0..n
         /\ Splits(list, u, n - LowerBound(list, u))
<1> DEFINE S == (0..n) \X (0..n)
<1>1. PICK lb : Bisected(list, u, n, lb)
  BY LowerBoundRecurs
<1>2. /\ lb \in [S -> 0..n]
      /\ LowerBound(list, u) = n - lb[<<0, n>>]
      /\ \A w \in S : lb[w] = IF w[1] >= w[2] THEN w[1] ELSE lb[Narrowed(list, u, w)]
  BY <1>1 DEF Bisected
<1> DEFINE T == {w \in S : Brackets(list, u, w) /\ ~Splits(list, u, lb[w])}
<1>3. T = {}
  <2> SUFFICES ASSUME T # {} PROVE FALSE
    OBVIOUS
  <2>1. PICK w \in T : Narrowed(list, u, w) \notin T
    <3>1. T \in SUBSET S
      OBVIOUS
    <3>2. \A w \in T : w \in S
      OBVIOUS
    <3>3. Ends(S, [w \in S |-> Narrowed(list, u, w)])
      BY BisectionEnds
    <3>4. PICK w \in T : [x \in S |-> Narrowed(list, u, x)][w] \notin T
      <4> HIDE DEF S, T
      <4> QED BY <3>1, <3>3 DEF Ends
    <3> HIDE DEF S, T
    <3> QED BY <3>2, <3>4
  <2>2. w \in S /\ Brackets(list, u, w) /\ ~Splits(list, u, lb[w])
    OBVIOUS
  <2>3. w[1] \in 0..n /\ w[2] \in 0..n
    BY <2>2
  <2>4. CASE w[1] >= w[2]
    <3>1. lb[w] = w[1]
      BY <1>2, <2>2, <2>4
    <3>2. w[1] = w[2]
      BY <2>2, <2>3, <2>4 DEF Brackets
    <3>3. \A k \in 0..(n - 1) : k < w[1] \/ w[2] <= k
      BY <2>3, <3>2
    <3>4. \A k \in 0..(n - 1) : k < w[1] => ~(w[2] <= k)
      BY <2>3, <3>2
    <3> QED BY <2>2, <3>1, <3>2, <3>3, <3>4 DEF Brackets, Splits
  <2>5. CASE w[1] < w[2]
    <3>1. PICK m : m = Narrowed(list, u, w)
      OBVIOUS
    <3>2. m \in S
      BY <2>2, <2>5, <3>1, WindowNarrows
    <3>3. Brackets(list, u, m)
      BY <2>2, <2>5, <3>1, BracketsNarrow
    <3>4. ~(w[1] >= w[2])
      BY <2>3, <2>5
    <3>5. lb[w] = lb[m]
      BY <1>2, <2>2, <3>1, <3>4
    <3>6. m \in T
      BY <2>2, <3>2, <3>3, <3>5
    <3> QED BY <2>1, <3>1, <3>6
  <2> QED BY <2>3, <2>4, <2>5
<1>4. <<0, n>> \in S /\ Brackets(list, u, <<0, n>>)
  <2>1. \A k \in 0..(n - 1) : ~(k < 0) /\ ~(n <= k)
    OBVIOUS
  <2> QED BY <2>1 DEF Brackets
<1>5. Splits(list, u, lb[<<0, n>>]) /\ lb[<<0, n>>] \in 0..n
  BY <1>2, <1>3, <1>4
<1>6. PICK i : i = lb[<<0, n>>]
  OBVIOUS
<1>7. n - (n - i) = i /\ n - i \in 0..n
  BY <1>5, <1>6
<1> HIDE DEF S, T
<1> QED BY <1>2, <1>5, <1>6, <1>7

\* A list in the order of the URIs of its docs.
Sorted(list) == \A i, j \in DOMAIN list : i < j => Less(uri[list[i]], uri[list[j]])

\* That order is a strict one.
LEMMA LessIsStrict ==
  ASSUME NEW u \in Nat \X Nat, NEW v \in Nat \X Nat, NEW w \in Nat \X Nat
  PROVE  ~Less(u, u) /\ ~Transits(u, u) /\ (Less(u, v) => ~Less(v, u)) /\ (Less(u, v) /\ Less(v, w) => Less(u, w))
BY DEF Less, Transits

\* Whatever a doc has for a URI, it is a pair of numbers.
LEMMA URIsArePairs == \A u \in URIs \union {NoURI} : u \in Nat \X Nat
<1>1. Tops \subseteq Nat /\ {0} \union Subs \subseteq Nat
  BY URIsAssumption
<1>2. \A u \in Tops \X ({0} \union Subs) : u \in Nat \X Nat
  BY <1>1
<1>3. NoURI \in Nat \X Nat
  BY DEF NoURI
<1> QED BY <1>2, <1>3 DEF URIs

\* A doc of a sorted list is where the bisection for its URI arrives.
LEMMA SortedFinds ==
  ASSUME ArchivesTypeOK, NEW list \in Seq(Docs), Sorted(list), NEW i \in DOMAIN list
  PROVE  LowerBound(list, uri[list[i]]) = i
<1> DEFINE u == uri[list[i]]
<1>1. PICK n \in Nat : n = Len(list) /\ DOMAIN list = 1..n
  BY LenProperties
<1>2. \A j \in 1..n : uri[list[j]] \in Nat \X Nat
  <2>1. \A j \in 1..n : list[j] \in Docs
    BY <1>1, ElementOfSeq
  <2> QED BY <2>1, URIsArePairs DEF ArchivesTypeOK
<1>3. ASSUME NEW j \in 1..n PROVE Less(u, uri[list[j]]) <=> i < j
  <2>1. uri[list[j]] \in Nat \X Nat /\ u \in Nat \X Nat
    BY <1>1, <1>2
  <2>2. i < j \/ j = i \/ j < i
    BY <1>1
  <2>3. j = i => ~Less(u, uri[list[j]]) /\ ~(i < j)
    BY <1>1, <2>1, LessIsStrict
  <2>4. i < j => Less(u, uri[list[j]])
    BY <1>1 DEF Sorted
  <2>5. j < i => Less(uri[list[j]], u) /\ ~(i < j)
    BY <1>1 DEF Sorted
  <2>6. Less(uri[list[j]], u) => ~Less(u, uri[list[j]])
    BY <2>1, LessIsStrict
  <2> HIDE DEF u
  <2> QED BY <2>2, <2>3, <2>4, <2>5, <2>6
<1> HIDE DEF u
<1>4. \A k \in 0..(n - 1) : n - k \in 1..n
  OBVIOUS
<1>5. \A k \in 0..(n - 1) : Less(u, uri[list[n - k]]) <=> i < n - k
  BY <1>3, <1>4
<1>6. GreaterLast(list, u)
  <2>1. \A k, l \in 0..(n - 1) : k < l /\ i < n - l => i < n - k
    BY <1>1
  <2> QED BY <1>1, <1>5, <2>1 DEF GreaterLast
<1>7. PICK b : b = LowerBound(list, u)
  OBVIOUS
<1>8. b \in 0..n /\ Splits(list, u, n - b)
  BY <1>1, <1>6, <1>7, LowerBoundSplits
<1>9. \A k \in 0..(n - 1) : i < n - k <=> k < n - b
  BY <1>1, <1>5, <1>8 DEF Splits
<1>10. b = i
  <2>1. n - i \in 0..(n - 1)
    BY <1>1
  <2>2. ~(n - i < n - b)
    <3>1. ~(i < n - (n - i))
      BY <1>1
    <3> QED BY <1>9, <2>1, <3>1
  <2>3. n - i - 1 \in 0..(n - 1) => n - i - 1 < n - b
    <3>1. i < n - (n - i - 1)
      BY <1>1
    <3> QED BY <1>9, <3>1
  <2> QED BY <1>1, <1>8, <2>2, <2>3
<1> QED BY <1>7, <1>10 DEF u

\* docLookup finds the doc that has a URI wherever the list it bisects is in order: in the
\* DOM's list, and in the list of an archive for a URI the search for which descends there.
FoundWhereSorted ==
  \A a \in Zips \union {DOM} : \A d \in Range(docs[a]) :
    Sorted(docs[a]) /\ (a = DOM \/ Scope(uri[d]) = a) => Match(uri[d]) = d

LEMMA SortedIsSearched == ArchivesTypeOK => FoundWhereSorted
<1> SUFFICES ASSUME ArchivesTypeOK, NEW a \in Zips \union {DOM}, NEW d \in Range(docs[a]),
                    Sorted(docs[a]), a = DOM \/ Scope(uri[d]) = a
             PROVE  Match(uri[d]) = d
  BY DEF FoundWhereSorted
<1>1. docs[a] \in Seq(Docs) /\ d \in Docs
  <2>1. docs[a] \in Seq(Docs)
    BY DEF ArchivesTypeOK, Archs, Roots
  <2> QED BY <2>1, ElementOfSeq, LenProperties DEF Range
<1>2. PICK i \in DOMAIN docs[a] : docs[a][i] = d
  BY DEF Range
<1>3. LowerBound(docs[a], uri[d]) = i
  BY <1>1, <1>2, SortedFinds
<1>4. Scope(uri[d]) = a
  <2> SUFFICES ASSUME a = DOM PROVE Scope(uri[d]) = DOM
    OBVIOUS
  <2>1. uri[d] \in Nat \X Nat
    BY <1>1, URIsArePairs DEF ArchivesTypeOK
  <2>2. ~Transits(uri[d], uri[d])
    BY <2>1, LessIsStrict
  <2> QED BY <1>2, <1>3, <2>2 DEF Scope
<1> QED BY <1>2, <1>3, <1>4 DEF Match

\* A doc is found by its URI wherever its list is in order, whatever calls led there.
THEOREM SortedIsFound == ArchivesSpec => []FoundWhereSorted
BY Typing, SortedIsSearched, PTL
=============================================================================
