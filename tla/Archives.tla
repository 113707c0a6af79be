------------------------------ MODULE Archives ------------------------------
(***************************************************************************)
(* The docs of a daeDOM and the lists that house them.                     *)
(*                                                                         *)
(* Every archive keeps a list _docs that its lookups search by bisection,  *)
(* in the order of the docs' URIs.  The DOM is the outermost archive.      *)
(* _closedDocs is a second root: it houses, unsorted, the docs that have   *)
(* no URI yet, whose URI is changing, or that are closed, until nothing    *)
(* but its own list refers to them.                                        *)
(*                                                                         *)
(* setURI() and close() call the client (resolveURI, closeURI) half way.   *)
(* The client may then use the library again, so each of the two is a      *)
(* frame on the stack of a thread: one action begins it and another one    *)
(* finishes it when the client returns.  The library takes no locks, and   *)
(* a multi-thread client serializes its calls: everything between two      *)
(* callbacks is one step.                                                  *)
(*                                                                         *)
(* A failed assert() ends the program; `aborted' names the assertion.  (The *)
(* sources cannot be built without assertions: #error under NDEBUG.)       *)
(***************************************************************************)
EXTENDS Common, Integers, Sequences, SequencesExt, FiniteSets

CONSTANTS
  Zips,         \* the nested archives (daeArchive) that may exist
  DOM, Closed,  \* the DOM, and its member _closedDocs
  Freed,        \* a pointer into memory that was deleted
  Threads,      \* the client's threads
  Tops, Subs,   \* URIs are <<top, 0>>, or <<top, sub>> inside of it
  MaxDepth      \* bound on the nesting of callbacks in one thread

Docs == Documents \union Zips
Roots == {DOM, Closed}
Archs == Zips \union Roots

URIs == Tops \X ({0} \union Subs)
NoURI == <<0, 0>>

ASSUME DocsAssumption ==
  /\ Documents \intersect Zips = {}
  /\ DOM # Closed
  /\ Roots \intersect Docs = {}
  /\ {Nothing, Freed} \intersect (Docs \union Roots) = {}
  /\ Nothing # Freed

ASSUME URIsAssumption ==
  /\ Tops \subseteq Nat \ {0}
  /\ Subs \subseteq Nat \ {0}

ASSUME MaxDepthAssumption == MaxDepth \in Nat

VARIABLES
  docs,      \* daeArchive::_docs: the list of every archive
  archive,   \* daeDoc::_archive
  uri,       \* daeDoc::_uri
  link,      \* daeDoc::_link: the index document of an archive
  filled,    \* documents that have contents; an element refers to its document
  held,      \* docs the client holds a reference to
  op,        \* daeDoc::_current_operation
  opThread,  \* daeDoc::_operation_thread_id
  stack,     \* the operations every thread is in the middle of, innermost first
  aborted    \* Nothing, or the assertion that failed

archivesVars == <<docs, archive, uri, link, filled, held, op, opThread, stack, aborted>>

Frames == [kind : {"close", "setURI"}, doc : Docs]

Assertions == {"op mismatch", "close of a closed doc", "closeURI did not close",
               "uproot", "unsorted"}
-----------------------------------------------------------------------------
(* Order and nesting of URIs. *)

Less(u, v) == u[1] < v[1] \/ (u[1] = v[1] /\ u[2] < v[2])

\* u is inside of v.
Transits(u, v) == u[1] = v[1] /\ u[2] # v[2] /\ v[2] = 0

\* std::lower_bound over the reversed list: the place of the last doc that is
\* not greater than u, provided the list is sorted, and 0 where there is none.
LowerBound(list, u) ==
  LET n == Len(list)
      lb[w \in (0..n) \X (0..n)] ==
        LET first == w[1]
            last == w[2]
            mid == first + (last - first) \div 2
        IN  IF first >= last THEN first
            ELSE IF Less(u, uri[list[n - mid]]) THEN lb[<<mid + 1, last>>] ELSE lb[<<first, mid>>]
  IN  n - lb[<<0, n>>]

\* The archive that a lookup of u in the DOM ends up searching.
Scope(u) ==
  LET i == LowerBound(docs[DOM], u)
      d == docs[DOM][i]
  IN  IF i \in DOMAIN docs[DOM] /\ d \in Zips /\ Transits(u, uri[d]) THEN d ELSE DOM

\* docLookup: the doc whose URI is u, if the search meets it.
Match(u) ==
  LET list == docs[Scope(u)]
      i == LowerBound(list, u)
  IN  IF i \in DOMAIN list /\ uri[list[i]] = u THEN list[i] ELSE Nothing
-----------------------------------------------------------------------------
(* Where docs are, and what keeps them. *)

DOMIsOpen == archive[DOM] = DOM

Listed(d) == \E a \in Archs : d \in Range(docs[a])

\* Mutant: setURI takes no reference to its doc.
LockedByClose(d) ==
  \E t \in Threads : \E i \in DOMAIN stack[t] : stack[t][i] = [kind |-> "close", doc |-> d]

\* The caller of close() and setURI() itself hold a reference until they are done.
Locked(d) == \E t \in Threads : \E i \in DOMAIN stack[t] : stack[t][i].doc = d

\* References other than those of lists.
Referenced(d) ==
  d \in held \/ d \in filled \/ Locked(d) \/ \E a \in Zips : link[a] = d

Live(d) == Listed(d) \/ Referenced(d)

\* isClosed(): the outermost archive is not the DOM.
IsClosed(d) == DOM \notin {archive[d], archive[archive[d]]} \/ ~DOMIsOpen

InArchive(d, a) == archive[d] # Freed /\ (a = archive[d] \/ a = archive[archive[d]])

\* The client can call a doc's methods through a reference that it holds.  A doc
\* whose archive was deleted is out of bounds: every method would follow _archive.
Usable(d) == DOMIsOpen /\ d \in held /\ archive[d] # Freed

Without(list, d) == RemoveAt(list, CHOOSE i \in DOMAIN list : list[i] = d)

\* Mutant: the doc is not taken out of its list.
NotUprooted(a, d) == [docs EXCEPT ![Closed] = Append(@, d)]

\* _uprootDoc followed by push_back on _closedDocs.
Rehoused(a, d) == [docs EXCEPT ![a] = Without(@, d), ![Closed] = Append(@, d)]

\* _compactDocs: `kept' is `list' without the docs outside of `keep'.
Compacts(list, keep, kept) ==
  /\ Range(kept) = Range(list) \intersect keep
  /\ \A i, j \in DOMAIN kept : i < j =>
       \E k, l \in DOMAIN list : k < l /\ list[k] = kept[i] /\ list[l] = kept[j]

\* The lists without repetition: the only ones there are, see OnePlace.
Listings ==
  UNION {{s \in [1..n -> Docs] : IsInjective(s)} :
         n \in 0..Cardinality(Docs)}
-----------------------------------------------------------------------------
ArchivesTypeOK ==
  /\ docs \in [Archs -> Seq(Docs)]
  /\ archive \in [Docs \union Roots -> Archs \union {Freed}]
  /\ uri \in [Docs -> URIs \union {NoURI}]
  /\ link \in [Zips -> Documents \union {Nothing}]
  /\ filled \subseteq Documents
  /\ held \subseteq Docs
  /\ op \in [Docs -> {"none", "close", "setURI"}]
  /\ opThread \in [Docs -> Threads \union {Nothing}]
  /\ stack \in [Threads -> Seq(Frames)]
  /\ aborted \in Assertions \union {Nothing}

ArchivesInit ==
  /\ docs = [a \in Archs |-> <<>>]
  /\ archive = [d \in Docs \union Roots |-> IF d = DOM THEN DOM ELSE Closed]
  /\ uri = [d \in Docs |-> NoURI]
  /\ link = [a \in Zips |-> Nothing]
  /\ filled = {}
  /\ held = {}
  /\ op = [d \in Docs |-> "none"]
  /\ opThread = [d \in Docs |-> Nothing]
  /\ stack = [t \in Threads |-> <<>>]
  /\ aborted = Nothing

Abort(assertion) ==
  /\ aborted' = assertion
  /\ UNCHANGED <<docs, archive, uri, link, filled, held, op, opThread, stack>>

Push(t, kind, d) ==
  /\ stack' = [stack EXCEPT ![t] = <<[kind |-> kind, doc |-> d]>> \o @]
  /\ op' = [op EXCEPT ![d] = kind]
  /\ opThread' = [opThread EXCEPT ![d] = t]

\* Mutant: a return that leaves _current_operation as it is.
PopOnly(t) ==
  /\ stack' = [stack EXCEPT ![t] = Tail(@)]
  /\ UNCHANGED <<op, opThread>>

\* The client's callback returns: the operation is over.
Pop(t) ==
  /\ op' = [op EXCEPT ![Head(stack[t]).doc] = "none"]
  /\ stack' = [stack EXCEPT ![t] = Tail(@)]
  /\ UNCHANGED opThread

InFrame(t, kind) == stack[t] # <<>> /\ Head(stack[t]).kind = kind
-----------------------------------------------------------------------------
(* Creation, references, contents. *)

\* The constructors put a doc on the list of _closedDocs; its creator holds it.
NewDoc(d) ==
  /\ DOMIsOpen
  /\ ~Live(d)
  /\ docs' = [docs EXCEPT ![Closed] = Append(@, d)]
  /\ archive' = [archive EXCEPT ![d] = Closed]
  /\ uri' = [uri EXCEPT ![d] = NoURI]
  /\ held' = held \union {d}
  /\ UNCHANGED <<link, filled, op, opThread, stack, aborted>>

\* The client's last reference goes away.
Release(d) ==
  /\ d \in held
  /\ held' = held \ {d}
  /\ UNCHANGED <<docs, archive, uri, link, filled, op, opThread, stack, aborted>>

\* getDoc(URI), and so openDoc or closeDoc: lookup from the DOM.
GetDoc(u) ==
  /\ DOMIsOpen
  /\ Match(u) # Nothing
  /\ held' = held \union {Match(u)}
  /\ UNCHANGED <<docs, archive, uri, link, filled, op, opThread, stack, aborted>>

\* A document is read into, or elements are added to it; the client does so with
\* open documents and with new ones.
Fill(d) ==
  /\ Usable(d)
  /\ uri[d] = NoURI \/ ~IsClosed(d)
  /\ filled' = filled \union {d}
  /\ UNCHANGED <<docs, archive, uri, link, held, op, opThread, stack, aborted>>

\* setDocument: the index document of an archive has to be inside of it.
SetDocument(a, d) ==
  /\ Usable(a) /\ Usable(d)
  /\ InArchive(d, a)
  /\ link' = [link EXCEPT ![a] = d]
  /\ UNCHANGED <<docs, archive, uri, filled, held, op, opThread, stack, aborted>>
-----------------------------------------------------------------------------
(* setURI() of a doc's own URI. *)

\* Mutant: the operation in progress is not looked at.
BeginSetURIAnyway(t, d, u) ==
  /\ Usable(d) /\ Len(stack[t]) < MaxDepth
  /\ Push(t, "setURI", d)
  /\ uri' = [uri EXCEPT ![d] = u]
  /\ IF archive[d] = Closed
     THEN UNCHANGED <<docs, archive>>
     ELSE /\ docs' = Rehoused(archive[d], d)
          /\ archive' = [archive EXCEPT ![d] = Closed]
  /\ UNCHANGED <<link, filled, held, aborted>>

\* Mutant: the doc has no archive while it is moving.
BeginSetURIUnhoused(t, d, u) ==
  /\ Usable(d) /\ op[d] = "none" /\ Len(stack[t]) < MaxDepth
  /\ Push(t, "setURI", d)
  /\ uri' = [uri EXCEPT ![d] = u]
  /\ docs' = IF archive[d] = Closed THEN docs ELSE Rehoused(archive[d], d)
  /\ archive' = [archive EXCEPT ![d] = Nothing]
  /\ UNCHANGED <<link, filled, held, aborted>>

\* _movingDoc parks the doc in _closedDocs, the new URI is set, and the client
\* is asked to resolve it.
BeginSetURI(t, d, u) ==
  /\ Usable(d) /\ op[d] = "none" /\ Len(stack[t]) < MaxDepth
  /\ Push(t, "setURI", d)
  /\ uri' = [uri EXCEPT ![d] = u]
  /\ IF archive[d] = Closed
     THEN UNCHANGED <<docs, archive>>
     ELSE /\ docs' = Rehoused(archive[d], d)
          /\ archive' = [archive EXCEPT ![d] = Closed]
  /\ UNCHANGED <<link, filled, held, aborted>>

\* On the thread that is already at it, setURI() is recursive; there is no
\* hookup, the outer call will see to it.  In the middle of a close it asserts.
\* (Any other thread gets DAE_NOT_NOW, and nothing changes.)
RecursiveSetURI(t, d, u) ==
  /\ Usable(d) /\ opThread[d] = t
  /\ \/ /\ op[d] = "setURI"
        /\ uri' = [uri EXCEPT ![d] = u]
        /\ UNCHANGED <<docs, archive, link, filled, held, op, opThread, stack, aborted>>
     \/ op[d] = "close" /\ Abort("op mismatch")

\* _setURI_rebaseNest: the URIs inside of the archive follow its own.
Rebased(d) ==
  [x \in Docs |-> IF d \in Zips /\ x \in Range(docs[d])
                  THEN <<uri[d][1], uri[x][2]>> ELSE uri[x]]

\* _whatsupDoc, the hint that _docHookup leaves for _whatsupDocInsert: the index
\* (from 0) of the lower bound; _whatsupDocInsert makes room in front of it.
Hint(a, u) ==
  LET i == LowerBound(docs[a], u)
      hint == IF i = 0 THEN 0 ELSE i - 1
  IN  1 + (IF hint \in 0..Len(docs[a]) THEN hint ELSE Len(docs[a]))

SortedAt(list, i, u) ==
  /\ i > 1 => Less(uri[list[i - 1]], u)
  /\ i < Len(list) => Less(u, uri[list[i]])

\* The client has resolved the URI: _docHookup finds the doc its place.  Where a
\* doc has the same URI, _closedDoc would replace it; it first uproots the
\* replacement from this list, but the replacement is parked in _closedDocs.
FinishSetURI(t) ==
  /\ InFrame(t, "setURI")
  /\ LET d == Head(stack[t]).doc
         u == uri[d]
         a == Scope(u)
         i == Hint(a, u)
     IN  \/ /\ Match(u) # Nothing
            /\ Abort("uproot")
         \/ /\ Match(u) = Nothing /\ ~SortedAt(docs[a], i, u)
            /\ Abort("unsorted")
         \/ /\ Match(u) = Nothing /\ SortedAt(docs[a], i, u)
            /\ docs' = [docs EXCEPT ![Closed] = Without(@, d),
                                    ![a] = InsertAt(@, i, d)]
            /\ archive' = [archive EXCEPT ![d] = a]
            /\ uri' = Rebased(d)
            /\ Pop(t)
            /\ UNCHANGED <<link, filled, held, aborted>>
-----------------------------------------------------------------------------
(* close() *)

\* The index links that are gone once d is closed.
Unlinked(d, a) ==
  [z \in Zips |-> IF z = d \/ (z = a /\ link[z] = d) THEN Nothing ELSE link[z]]

\* Mutant: an archive does not pass atomize on to its docs.
AtomizedAlone(d) == {d}

\* __daeDoc__v1__atomize: the documents that lose their contents with d.
Atomized(d) == IF d \in Zips THEN Range(docs[d]) ELSE {d}

\* _closedDoc: the doc moves to _closedDocs, and it is atomized.  An archive
\* atomizes its docs, then drops the ones that nothing else refers to.
CloseDoc(d) ==
  /\ archive[d] # Freed
  /\ archive' = IF IsClosed(d) THEN archive ELSE [archive EXCEPT ![d] = Closed]
  /\ link' = Unlinked(d, archive'[d])
  /\ LET moved == IF IsClosed(d) THEN docs ELSE Rehoused(archive[d], d)
         keep == {x \in Docs : x \in held \/ Locked(x) \/ \E z \in Zips : link'[z] = x}
     IN  IF d \in Documents
         THEN docs' = moved
         ELSE \E kept \in Listings :
                Compacts(docs[d], keep, kept) /\ docs' = [moved EXCEPT ![d] = kept]
  /\ filled' = filled \ Atomized(d)
  /\ UNCHANGED <<uri, held, aborted>>

\* Mutant: an open doc is closed without asking the client.
BeginCloseUnasked(t, d) ==
  /\ Usable(d) /\ op[d] = "none" /\ Len(stack[t]) < MaxDepth
  /\ \/ /\ uri[d] = NoURI \/ ~IsClosed(d)
        /\ CloseDoc(d)
        /\ UNCHANGED <<op, opThread, stack>>
     \/ /\ uri[d] # NoURI /\ IsClosed(d)
        /\ Abort("close of a closed doc")

\* closeURI() asks the client; a doc without a URI is closed unconditionally.
BeginClose(t, d) ==
  /\ Usable(d) /\ op[d] = "none" /\ Len(stack[t]) < MaxDepth
  /\ \/ /\ uri[d] = NoURI
        /\ CloseDoc(d)
        /\ UNCHANGED <<op, opThread, stack>>
     \/ /\ uri[d] # NoURI /\ IsClosed(d)
        /\ Abort("close of a closed doc")
     \/ /\ uri[d] # NoURI /\ ~IsClosed(d)
        /\ Push(t, "close", d)
        /\ UNCHANGED <<docs, archive, uri, link, filled, held, aborted>>

\* The client may close the doc itself in closeURI(): same thread, no question.
RecursiveClose(t, d) ==
  /\ Usable(d) /\ opThread[d] = t
  /\ \/ op[d] = "close" /\ CloseDoc(d) /\ UNCHANGED <<op, opThread, stack>>
     \/ op[d] = "setURI" /\ Abort("op mismatch")

\* closeURI() returns: DAE_OK says that it closed the doc; NOT_IMPLEMENTED
\* leaves it to the library; any other code is a veto.
FinishClose(t, verdict) ==
  /\ InFrame(t, "close")
  /\ LET d == Head(stack[t]).doc
     IN  \/ /\ verdict = "OK" /\ archive[d] # Freed
            /\ IF IsClosed(d)
               THEN Pop(t) /\ UNCHANGED <<docs, archive, uri, link, filled, held, aborted>>
               ELSE Abort("closeURI did not close")
         \/ /\ verdict = "NOT_IMPLEMENTED"
            /\ Pop(t) /\ CloseDoc(d)
         \/ /\ verdict = "ERROR"
            /\ Pop(t) /\ UNCHANGED <<docs, archive, uri, link, filled, held, aborted>>
-----------------------------------------------------------------------------
(* Compaction, and the end of the DOM. *)

\* Mutant: the client's references are not counted.
ReferencedByLibrary(x, i, gone) ==
  \/ x \in filled \/ Locked(x)
  \/ \E z \in Zips : link[z] = x /\ ~(z \in gone /\ \E j \in 1..(i - 1) : docs[Closed][j] = z)

\* Mutant: the references of a document's elements are not counted.
ReferencedByClient(x, i, gone) ==
  \/ x \in held \/ Locked(x)
  \/ \E z \in Zips : link[z] = x /\ ~(z \in gone /\ \E j \in 1..(i - 1) : docs[Closed][j] = z)

\* References to x other than lists', when the pass over _closedDocs has come to
\* the doc at i: an archive deleted on the way there has let go of its index.
ReferencedAt(x, i, gone) ==
  \/ x \in held \/ x \in filled \/ Locked(x)
  \/ \E z \in Zips : link[z] = x /\ ~(z \in gone /\ \E j \in 1..(i - 1) : docs[Closed][j] = z)

\* clear_closedDocs: one pass, that compacts an archive's list, then drops the
\* archive.  An archive without references is deleted, with its list and link.
ClearClosedDocs ==
  /\ DOMIsOpen
  /\ LET list == docs[Closed]
         closed == Zips \intersect Range(list)
         gone == {z \in closed : z \notin held /\ ~Locked(z)}
         At(d) == CHOOSE i \in DOMAIN list : list[i] = d
     IN  \E rest \in Listings, kept \in [closed \ gone -> Listings] :
           /\ Compacts(list, {d \in Range(list) : ReferencedAt(d, At(d), gone)}, rest)
           /\ \A z \in closed \ gone :
                Compacts(docs[z], {d \in Docs : ReferencedAt(d, At(z), gone)}, kept[z])
           /\ docs' = [a \in Archs |-> IF a = Closed THEN rest
                                       ELSE IF a \in gone THEN <<>>
                                       ELSE IF a \in closed THEN kept[a] ELSE docs[a]]
           /\ archive' = [d \in Docs \union Roots |->
                            IF archive[d] \in gone THEN Freed ELSE archive[d]]
           /\ link' = [z \in Zips |-> IF z \in gone THEN Nothing ELSE link[z]]
  /\ UNCHANGED <<uri, filled, held, op, opThread, stack, aborted>>

\* Mutant: archives do not pass atomize on to their docs.
OutermostDocs == {d \in Documents : archive[d] = DOM}

\* The documents that the DOM atomizes: those on its list, or on that of an archive there.
OpenDocs == {d \in Documents : archive[d] # Freed /\ ~IsClosed(d)}

\* close() of the DOM, with no operation in progress: everything it houses is
\* atomized, and all the lists let go of their docs.
CloseDOM ==
  /\ DOMIsOpen
  /\ \A t \in Threads : stack[t] = <<>>
  /\ archive' = [archive EXCEPT ![DOM] = Closed]
  /\ filled' = filled \ OpenDocs
  /\ docs' = [a \in Archs |-> <<>>]
  /\ UNCHANGED <<uri, link, held, op, opThread, stack, aborted>>
-----------------------------------------------------------------------------
Operation(t) ==
  \/ \E d \in Docs : BeginClose(t, d) \/ RecursiveClose(t, d)
  \/ \E d \in Documents, u \in URIs : BeginSetURI(t, d, u) \/ RecursiveSetURI(t, d, u)
  \/ \E a \in Zips, u \in Tops \X {0} : BeginSetURI(t, a, u) \/ RecursiveSetURI(t, a, u)

Return(t) ==
  \/ FinishSetURI(t)
  \/ \E verdict \in {"OK", "NOT_IMPLEMENTED", "ERROR"} : FinishClose(t, verdict)

Client ==
  \/ \E d \in Docs : NewDoc(d) \/ Release(d)
  \/ \E u \in URIs : GetDoc(u)
  \/ \E d \in Documents : Fill(d)
  \/ \E a \in Zips, d \in Documents : SetDocument(a, d)
  \/ ClearClosedDocs
  \/ CloseDOM

ArchivesNext == aborted = Nothing /\ (Client \/ \E t \in Threads : Operation(t) \/ Return(t))

ArchivesSpec == ArchivesInit /\ [][ArchivesNext]_archivesVars

\* The client's callbacks return, however often they use the library before.
CallbacksReturn ==
  \A t \in Threads : \A depth \in 1..MaxDepth :
    SF_archivesVars(aborted = Nothing /\ Len(stack[t]) = depth /\ Return(t))

FairSpec == ArchivesSpec /\ CallbacksReturn
-----------------------------------------------------------------------------
(* Safety *)

\* A doc is housed at most once: a list holds only docs that point back to its
\* archive, and none of them twice.  Every transfer takes a doc out of one list
\* and puts it into another by hand (_uprootDoc, _whatsupDocInsert).
OnePlace ==
  \A a \in Archs : IsInjective(docs[a]) /\ \A d \in Range(docs[a]) : archive[d] = a

\* Nothing that is referred to gets lost: as long as the DOM is open, such a doc
\* is on the list of its archive, through moves, closures and compactions.
Housed ==
  DOMIsOpen => \A d \in Docs :
    Referenced(d) /\ archive[d] # Freed => d \in Range(docs[archive[d]])

\* A doc whose URI is changing is parked in _closedDocs until it is hooked up,
\* whatever the client does in resolveURI; clear_closedDocs leaves it there.
ParkedWhileMoving ==
  \A d \in Docs : op[d] = "setURI" =>
    archive[d] = Closed /\ d \in Range(docs[Closed])

\* _doOperation is an exclusive lock on the doc: an operation is marked exactly
\* as long as one call is at it, on the thread that is marked.
OneOperation ==
  /\ \A t \in Threads : \A i \in DOMAIN stack[t] :
       LET frame == stack[t][i]
       IN  /\ op[frame.doc] = frame.kind /\ opThread[frame.doc] = t
           /\ \A j \in DOMAIN stack[t] : stack[t][j].doc = frame.doc => j = i
  /\ \A d \in Docs : op[d] # "none" => Locked(d)

\* A closed document has no contents, and neither have those of a closed archive.
\* (A document without a URI is new; one that is moving, or whose archive is, is
\* on the way.)
ClosedIsEmpty ==
  DOMIsOpen => \A d \in filled : archive[d] # Freed /\ IsClosed(d) =>
    uri[d] = NoURI \/ \E x \in {d, archive[d]} \intersect Docs : op[x] = "setURI"

\* Closing the DOM unloads every document that ever had a URI.
DOMClosedIsEmpty == ~DOMIsOpen => \A d \in filled : uri[d] = NoURI

\* The client has a say: a doc with a URI leaves the open tree only in an operation
\* on it or its archive, which asked closeURI or is moving it, or with the DOM.
CloseByConsent ==
  [][\A d \in Docs :
       Live(d) /\ uri[d] # NoURI /\ archive[d] # Freed /\ ~IsClosed(d) /\ IsClosed(d)' =>
         \/ ~DOMIsOpen'
         \/ \E x \in {d, archive[d]} \intersect Docs : op[x] = "close" \/ op'[x] = "setURI"]_archivesVars

\* Compaction spares what is open: clear_closedDocs drops only closed docs, and
\* never a document with contents.
CompactionSparesOpenDocs ==
  [][ClearClosedDocs => \A d \in Docs :
       Listed(d) /\ ~Listed(d)' => IsClosed(d) /\ d \notin filled]_archivesVars

\* Liveness: no doc is stuck in an operation, provided that callbacks return.
OperationsEnd ==
  \A d \in Docs : op[d] # "none" ~> op[d] = "none" \/ aborted # Nothing
-----------------------------------------------------------------------------
(* What all of this implements *)

Follow(u, v) == <<u[1], v[2]>>

\* The lists, links, callers and references are left out; _closedDocs is the place
\* of what is nowhere else.
Promised == INSTANCE Library WITH
  Parked <- Closed, Lost <- Freed, Inside <- Follow,
  place <- [d \in Docs |-> archive[d]],
  name <- uri,
  busy <- op,
  loaded <- filled,
  over <- ~DOMIsOpen

\* The lists, moves, closures and compactions together behave as a Library: a doc
\* leaves its place only to be renamed or closed after the client was asked, it
\* arrives in the open tree, nothing else takes its contents or its URI, and a
\* document with contents never loses its archive.
ImplementsLibrary == Promised!Spec
-----------------------------------------------------------------------------
(* What the sources say and the code does not do *)

\* daeDocument.h, hasOwnURI: "when a URI is resolved it will find the document".
FoundByURI ==
  aborted = Nothing /\ DOMIsOpen =>
    \A d \in Docs : archive[d] # Freed /\ Live(d) /\ ~IsClosed(d) => Match(uri[d]) = d

\* daeDocument.h, hasOwnURI: "if the URI is changed to one of another document's,
\* it will replace that document": the replacement does not fail an assertion.
Replaces == aborted # "uproot"

\* dae.h, _closedDocs: "It's required to keep the docs until their references are
\* let go of", and "docs and getArchive() require a local archive".
ArchiveOutlivesItsDocs ==
  DOMIsOpen => \A d \in Docs : Live(d) => archive[d] # Freed
=============================================================================
