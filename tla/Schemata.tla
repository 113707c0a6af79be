----------------------------- MODULE Schemata ------------------------------
(***************************************************************************)
(* The schemata of documents: daeDocument::_get_and_or_use_xs_schema()     *)
(* (src/dom/src/dae/daeDocument.cpp), which an element of a namespace that *)
(* is new to its parent calls, and the counter by which a schema knows of  *)
(* the documents that use it.                                              *)
(*                                                                         *)
(* What is not on the list of the document yet is left to the client, who  *)
(* may have other elements created in the document before it answers:      *)
(* `asked' is the stack of the calls that are waiting.                     *)
(***************************************************************************)
EXTENDS Naturals, SequencesExt

CONSTANTS Hosts,              \* documents
          Schemas, Namespaces, NamespaceOf,
          AnySchema,          \* domAny_xs, of any namespace
          NoSchema,
          MaxEntries, MaxAsked \* bounds: of the list of a document, and of calls within calls

ASSUME SchemataAssumption ==
  /\ NamespaceOf \in [Schemas -> Namespaces]
  /\ AnySchema \notin Schemas /\ NoSchema \notin Schemas \union {AnySchema}
  /\ IsFiniteSet(Hosts) /\ MaxEntries \in Nat /\ MaxAsked \in Nat

VARIABLES schemata, \* _schemata
          users,    \* XS::Schema::_users
          asked,    \* calls of introduceToDocument(), the last one innermost
          ended     \* an assertion failed, or a null schema was written to

schemataVars == <<schemata, users, asked, ended>>

Countable == Schemas \union {AnySchema}
Entry == [namespace : Namespaces, schema : Countable \union {NoSchema}]

PlacesOf(h, namespace) == {i \in DOMAIN schemata[h] : schemata[h][i].namespace = namespace}

\* std::swap(_schemata[0],_schemata[i])
ToFront(list, i) == [list EXCEPT ![1] = list[i], ![i] = list[1]]

\* The first entry of the namespace goes to the front; or else, the client is asked.
GetAndOrUse(h, namespace) ==
  LET found == PlacesOf(h, namespace) IN
  /\ IF found # {}
     THEN /\ schemata' = [schemata EXCEPT ![h] =
                            ToFront(@, CHOOSE i \in found : \A j \in found : i <= j)]
          /\ UNCHANGED asked
     ELSE /\ Len(asked) < MaxAsked
          /\ asked' = Append(asked, [host |-> h, namespace |-> namespace,
                                     at |-> Len(schemata[h]) + 1])
          /\ UNCHANGED schemata
  /\ UNCHANGED <<users, ended>>

\* Mutant: the schema of any namespace goes uncounted.
CountsOwn(schema) == schema \in Schemas

Counts(schema) == schema # NoSchema

\* What the client makes of it is entered, and changes places with the first entry as it
\* was found missing: others may have been entered since.
Introduced(schema) ==
  LET call == Last(asked) IN
  /\ asked # <<>> /\ Len(schemata[call.host]) < MaxEntries
  /\ IF schema \in Schemas /\ NamespaceOf[schema] # call.namespace
     THEN ended' = TRUE /\ UNCHANGED <<schemata, users, asked>>
     ELSE /\ asked' = Front(asked)
          /\ schemata' = [schemata EXCEPT ![call.host] =
               ToFront(Append(@, [namespace |-> call.namespace, schema |-> schema]), call.at)]
          /\ users' = IF Counts(schema) THEN [users EXCEPT ![schema] = @ + 1] ELSE users
          /\ UNCHANGED ended

Entries(h, schema) == {i \in DOMAIN schemata[h] : schemata[h][i].schema = schema}

\* ~daeDocument: an entry without a schema is not looked out for. Nobody is in a call
\* of the document that is destroyed. Another one can be made in its place.
Destroyed(h) ==
  /\ schemata[h] # <<>> /\ \A i \in DOMAIN asked : asked[i].host # h
  /\ IF Entries(h, NoSchema) # {}
     THEN ended' = TRUE /\ UNCHANGED <<schemata, users>>
     ELSE /\ users' = [s \in Countable |-> users[s] - Cardinality(Entries(h, s))]
          /\ schemata' = [schemata EXCEPT ![h] = <<>>]
          /\ UNCHANGED ended
  /\ UNCHANGED asked
-----------------------------------------------------------------------------
SchemataTypeOK ==
  /\ schemata \in [Hosts -> Seq(Entry)]
  /\ users \in [Countable -> Nat]
  /\ Len(asked) <= MaxAsked
  /\ ended \in BOOLEAN

SchemataInit ==
  /\ schemata = [h \in Hosts |-> <<>>] /\ users = [s \in Countable |-> 0]
  /\ asked = <<>> /\ ended = FALSE

SchemataNext ==
  /\ ~ended
  /\ \/ \E h \in Hosts, namespace \in Namespaces : GetAndOrUse(h, namespace)
     \/ \E schema \in Countable \union {NoSchema} : Introduced(schema)
     \/ \E h \in Hosts : Destroyed(h)

SchemataSpec == SchemataInit /\ [][SchemataNext]_schemataVars
-----------------------------------------------------------------------------
\* A schema counts the entries that documents have of it, so that at zero it can be
\* unloaded: also when the client adds to a list while it is asked about it, when
\* documents share a schema, and when one of them is destroyed.
UsersBalance ==
  \A s \in Countable :
    users[s] = Cardinality({at \in Hosts \X (1..MaxEntries) : at[2] \in Entries(at[1], s)})
=============================================================================
