------------------------------ MODULE Requests ------------------------------
(***************************************************************************)
(* I/O requests: daeArchive::_read2() (src/dom/src/dae/dae.cpp) and        *)
(* daeDoc::_write2() (daeDocument.cpp), with the scopes of daeRAII.hpp.     *)
(*                                                                         *)
(* A request is carried out by a plugin, which learns of it through a       *)
(* pointer that the request sets and puts back. Plugins and the platform    *)
(* are client code, and may make requests of their own from where they are  *)
(* called: `calls' is the stack of requests that are under way, the last    *)
(* one innermost. That an IO is closed and a plugin is unplugged when the    *)
(* call that got it ends goes without saying here: the scopes see to it.    *)
(*                                                                         *)
(* A document that is open has the name that lookups find it by. It is       *)
(* blank, half read or whole. Of daeDoc::close() and setURI(), which are in  *)
(* Archives, only the outcomes are left.                                   *)
(***************************************************************************)
EXTENDS Naturals, FiniteSets, SequencesExt

CONSTANTS Docs, URIs, Plugins,    \* Plugins live on; the built-in one is made for a call
          BuiltIn, WholeDOM, NoDoc, NoURI,
          MaxCalls                \* bound: requests within requests

ASSUME RequestsAssumption ==
  /\ BuiltIn \notin Plugins /\ NoURI \notin URIs /\ MaxCalls \in Nat \ {0}
  /\ WholeDOM \notin Docs /\ NoDoc \notin Docs \union {WholeDOM}

VARIABLES calls,      \* the requests under way
          request,    \* daeIOPlugin::_request: the call that a plugin has the request of, or 0
          named,      \* the URI by which a document is found
          state,      \* what a document has been given
          kept,       \* the documents that the platform would not have closed
          stopped     \* an assertion failed, or a null pointer was followed

requestsVars == <<calls, request, named, state, kept, stopped>>

\* Where a call has come to: in what the plugin or the platform does at the time.
Places == {"adding", "preparing", "reading", "naming", "closing", "opening", "writing"}

Call == [op : {"read", "write"}, uri : URIs \union {NoURI}, plugin : Plugins \union {BuiltIn},
         doc : Docs \union {WholeDOM, NoDoc}, at : Places \union {"looping"}, blank : BOOLEAN,
         ok : BOOLEAN, saved : 0..MaxCalls, pending : SUBSET Docs]

RequestsTypeOK ==
  /\ calls \in Seq(Call) /\ Len(calls) <= MaxCalls
  /\ request \in [Plugins -> 0..MaxCalls]
  /\ named \in [Docs -> URIs \union {NoURI}]
  /\ state \in [Docs -> {"none", "bare", "blank", "half", "whole"}]
  /\ kept \subseteq Docs /\ stopped \in BOOLEAN

RequestsInit ==
  /\ calls = <<>> /\ request = [p \in Plugins |-> 0]
  /\ named = [d \in Docs |-> NoURI] /\ state = [d \in Docs |-> "none"]
  /\ kept = {} /\ stopped = FALSE

Innermost == Last(calls)
IsAt(op, place) == ~stopped /\ calls # <<>> /\ Innermost.op = op /\ Innermost.at = place

\* The innermost call goes on at another place.
Goes(call) == calls' = Append(Front(calls), call) /\ UNCHANGED request

Stops == stopped' = TRUE /\ UNCHANGED <<calls, request, named, state, kept>>
-----------------------------------------------------------------------------
\* The plugin is told what is asked of it. Without one, the built-in plugin is taken, if
\* there is a local URI; else a null pointer is followed.
Begins(call) ==
  /\ Len(calls) < MaxCalls
  /\ calls' = Append(calls, call)
  /\ request' = [p \in Plugins |-> IF p = call.plugin THEN Len(calls) + 1 ELSE request[p]]
  /\ UNCHANGED <<named, state, kept, stopped>>

\* What the plugin had for a request before, should this one be nested.
Saved(p) == IF p \in Plugins THEN request[p] ELSE 0

\* Mutant: what the plugin had is forgotten.
PutBackNothing(p, saved) == IF p \in Plugins THEN [request EXCEPT ![p] = 0] ELSE request

\* daeRAII::Reset
PutBack(p, saved) == IF p \in Plugins THEN [request EXCEPT ![p] = saved] ELSE request

\* The call ends; a loop over the documents of the DOM goes by the outcome.
Returns(ok) ==
  LET outer == Front(calls)
  IN  /\ calls' = IF outer # <<>> /\ Last(outer).at = "looping"
                  THEN [outer EXCEPT ![Len(outer)].ok = ok] ELSE outer
      /\ request' = PutBack(Innermost.plugin, Innermost.saved)

\* The client has the floor between requests, and in whatever a request calls: a doc
\* without a URI is neither named nor asked about.
ClientHasFloor ==
  ~stopped /\ (calls # <<>> => /\ Innermost.at \in Places
                              /\ (Innermost.at = "naming" => Innermost.uri # NoURI)
                              /\ (Innermost.at = "closing" => named[Innermost.doc] # NoURI))
-----------------------------------------------------------------------------
(* _read2() *)

BeginRead(u, p, blank) ==
  /\ ClientHasFloor
  /\ IF u = NoURI /\ p = BuiltIn THEN Len(calls) < MaxCalls /\ Stops
     ELSE Begins([op |-> "read", uri |-> u, plugin |-> p, doc |-> NoDoc, at |-> "adding",
                  blank |-> blank, ok |-> TRUE, saved |-> Saved(p), pending |-> {}])

\* addDoc() fails, or has no doc to give.
AddNothing(ok) ==
  /\ IsAt("read", "adding") /\ Innermost.plugin # BuiltIn
  /\ Returns(ok)
  /\ UNCHANGED <<named, state, kept, stopped>>

\* addDoc() makes a document, or an archive without one, which is in order unless there
\* is metadata for its root. A plugin may have filled out a document that was to be new.
AddDoc(d, given) ==
  /\ IsAt("read", "adding") /\ state[d] = "none"
  /\ given = "blank" \/ (Innermost.plugin # BuiltIn /\ given \in {"bare", "whole"})
  /\ IF given = "whole" /\ ~Innermost.blank THEN Stops
     ELSE /\ state' = [state EXCEPT ![d] = given]
          /\ \/ /\ Goes([Innermost EXCEPT !.doc = d,
                                    !.at = IF given = "blank" THEN "preparing" ELSE "naming"])
             \/ given = "bare" /\ Returns(FALSE)
          /\ UNCHANGED <<named, kept, stopped>>

\* personalizeDocument(), then a root or an IO to read from.
Prepare(opened) ==
  /\ IsAt("read", "preparing")
  /\ \/ /\ Innermost.blank
        /\ Goes([Innermost EXCEPT !.at = "naming"])
        /\ state' \in {[state EXCEPT ![Innermost.doc] = "whole"], state}
     \/ /\ ~Innermost.blank /\ opened
        /\ Goes([Innermost EXCEPT !.at = "reading"])
        /\ state' = [state EXCEPT ![Innermost.doc] = "half"]
     \/ /\ ~Innermost.blank /\ ~opened
        /\ Returns(FALSE)
        /\ UNCHANGED state
  /\ UNCHANGED <<named, kept, stopped>>

\* readContent()
ReadContent(ok) ==
  /\ IsAt("read", "reading")
  /\ Goes([Innermost EXCEPT !.at = "naming", !.ok = ok])
  /\ state' = IF ok THEN [state EXCEPT ![Innermost.doc] = "whole"] ELSE state
  /\ UNCHANGED <<named, kept, stopped>>

\* Mutant: a document that could not be read is left as it is.
FinishesUnclosed == Returns(Innermost.ok)

\* What is left to do once the doc is named, or is not.
Finishes ==
  IF Innermost.ok THEN Returns(TRUE) ELSE Goes([Innermost EXCEPT !.at = "closing"])

\* setURI(), whose outcome is not looked at. If the URI is that of an open doc, then the
\* replacement fails an assertion, see Archives.
NameDoc(hooked) ==
  /\ IsAt("read", "naming")
  /\ hooked => Innermost.uri # NoURI
  /\ IF hooked /\ \E d \in Docs \ {Innermost.doc} : named[d] = Innermost.uri THEN Stops
     ELSE /\ named' = IF hooked THEN [named EXCEPT ![Innermost.doc] = Innermost.uri] ELSE named
          /\ Finishes
          /\ UNCHANGED <<state, kept, stopped>>

\* close(): the platform may refuse, but is not asked of a document without a URI.
CloseHalfRead(consent) ==
  /\ IsAt("read", "closing")
  /\ named[Innermost.doc] = NoURI => consent
  /\ Returns(FALSE)
  /\ named' = IF consent THEN [named EXCEPT ![Innermost.doc] = NoURI] ELSE named
  /\ state' = IF consent THEN [state EXCEPT ![Innermost.doc] = "blank"] ELSE state
  /\ kept' = IF consent THEN kept ELSE kept \union {Innermost.doc}
  /\ UNCHANGED stopped
-----------------------------------------------------------------------------
(* _write2() *)

Writing(d, p) ==
  [op |-> "write", uri |-> NoURI, plugin |-> p, doc |-> d, at |-> "opening", blank |-> FALSE,
   ok |-> TRUE, saved |-> Saved(p), pending |-> {}]

BeginWrite(d, p) ==
  /\ ClientHasFloor
  /\ d \in Docs => named[d] # NoURI
  /\ Begins(Writing(d, p))

OpenIO(opened) ==
  /\ IsAt("write", "opening")
  /\ IF opened THEN Goes([Innermost EXCEPT !.at = "writing"]) ELSE Returns(FALSE)
  /\ UNCHANGED <<named, state, kept, stopped>>

\* writeContent(), or writeRequest(), which may leave it to the library to write the docs
\* of a DOM one by one.
WriteContent(ok) ==
  /\ IsAt("write", "writing")
  /\ \/ Returns(ok)
     \/ /\ Innermost.doc = WholeDOM /\ ok
        /\ Goes([Innermost EXCEPT !.at = "looping", !.pending = {d \in Docs : named[d] # NoURI}])
  /\ UNCHANGED <<named, state, kept, stopped>>

\* The docs come in the order of the list; those that are opened meanwhile are passed over.
WriteNext(d, p) ==
  /\ IsAt("write", "looping") /\ Innermost.ok /\ d \in Innermost.pending /\ Len(calls) < MaxCalls
  /\ calls' = Append(Append(Front(calls), [Innermost EXCEPT !.pending = @ \ {d}]), Writing(d, p))
  /\ request' = [q \in Plugins |-> IF q = p THEN Len(calls) + 1 ELSE request[q]]
  /\ UNCHANGED <<named, state, kept, stopped>>

EndLoop ==
  /\ IsAt("write", "looping") /\ (~Innermost.ok \/ Innermost.pending = {})
  /\ Returns(Innermost.ok)
  /\ UNCHANGED <<named, state, kept, stopped>>
-----------------------------------------------------------------------------
(* The client, apart from its requests: it closes a document, or lets go of a closed one. *)

InUse(d) == \E i \in DOMAIN calls : calls[i].doc \in {d, WholeDOM}

CloseIdle(d) ==
  /\ ClientHasFloor /\ ~InUse(d) /\ named[d] # NoURI
  /\ named' = [named EXCEPT ![d] = NoURI] /\ state' = [state EXCEPT ![d] = "blank"]
  /\ kept' = kept \ {d}
  /\ UNCHANGED <<calls, request, stopped>>

LetGo(d) ==
  /\ ClientHasFloor /\ ~InUse(d) /\ named[d] = NoURI /\ state[d] # "none"
  /\ state' = [state EXCEPT ![d] = "none"] /\ kept' = kept \ {d}
  /\ UNCHANGED <<calls, request, named, stopped>>

RequestsNext ==
  \/ \E p \in Plugins \union {BuiltIn} :
       \/ \E u \in URIs \union {NoURI}, blank \in BOOLEAN : BeginRead(u, p, blank)
       \/ \E d \in Docs \union {WholeDOM} : BeginWrite(d, p)
       \/ \E d \in Docs : WriteNext(d, p)
  \/ \E ok \in BOOLEAN :
       \/ AddNothing(ok) \/ Prepare(ok) \/ ReadContent(ok) \/ NameDoc(ok)
       \/ CloseHalfRead(ok) \/ OpenIO(ok) \/ WriteContent(ok)
  \/ \E d \in Docs :
       (\E given \in {"blank", "bare", "whole"} : AddDoc(d, given)) \/ CloseIdle(d) \/ LetGo(d)
  \/ EndLoop

RequestsSpec == RequestsInit /\ [][RequestsNext]_requestsVars
-----------------------------------------------------------------------------
(* Properties *)

\* Whatever requests a plugin is given from within its own, getRequest() is that of the
\* innermost call that it serves, and never that of a call that is over, whose request
\* was a local variable of its caller ("The I/O plugin uses these methods to query the
\* request object").
RequestInForce ==
  \A p \in Plugins :
    LET serves == {i \in DOMAIN calls : calls[i].plugin = p}
    IN  request[p] = (IF serves = {} THEN 0 ELSE CHOOSE i \in serves : \A j \in serves : j <= i)

\* No document is found by its URI while it is being read, nor after its reading failed,
\* but for the moment in which _read2() closes it and where the platform would not have
\* it closed ("Close the document to curtail unexpected accidents for users?").
HalfReadUnseen ==
  \A d \in Docs : named[d] # NoURI /\ state[d] = "half" =>
    d \in kept \/ \E i \in DOMAIN calls : calls[i].doc = d /\ calls[i].at = "closing"
=============================================================================
