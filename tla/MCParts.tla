------------------------------ MODULE MCParts ------------------------------
(***************************************************************************)
(* The parts of the library that share no state with each other, each      *)
(* checked on its own: `subject' is the part whose steps are taken.        *)
(***************************************************************************)
EXTENDS References, Strings, Shares, MCContents, Uris, Queries, Arrays, Requests,
        Bases, Schemata

CONSTANTS collada, math  \* two schemas

VARIABLE subject

MCNamespaceOf == (collada :> "collada") @@ (math :> "math")

Parts == {"references", "strings", "shares", "contents", "uris", "queries", "arrays", "requests",
          "bases", "schemata"}

PartsInit ==
  /\ subject \in Parts
  /\ ReferencesInit /\ StringsInit /\ SharesInit /\ ContentsInit
  /\ UrisInit /\ QueriesInit /\ ArraysInit /\ RequestsInit
  /\ BasesInit /\ SchemataInit

PartsNext ==
  \/ /\ subject = "references" /\ ReferencesNext
     /\ UNCHANGED <<subject, stringsVars, sharesVars, contentsVars, location,
                    queriesVars, arraysVars, requestsVars, basesVars, schemataVars>>
  \/ /\ subject = "strings" /\ StringsNext
     /\ UNCHANGED <<subject, referencesVars, sharesVars, contentsVars, location,
                    queriesVars, arraysVars, requestsVars, basesVars, schemataVars>>
  \/ /\ subject = "shares" /\ SharesNext
     /\ UNCHANGED <<subject, referencesVars, stringsVars, contentsVars, location,
                    queriesVars, arraysVars, requestsVars, basesVars, schemataVars>>
  \/ /\ subject = "contents" /\ ContentsNext
     /\ UNCHANGED <<subject, referencesVars, stringsVars, sharesVars, location,
                    queriesVars, arraysVars, requestsVars, basesVars, schemataVars>>
  \/ /\ subject = "uris" /\ UrisNext
     /\ UNCHANGED <<subject, referencesVars, stringsVars, sharesVars, contentsVars,
                    queriesVars, arraysVars, requestsVars, basesVars, schemataVars>>
  \/ /\ subject = "queries" /\ QueriesNext
     /\ UNCHANGED <<subject, referencesVars, stringsVars, sharesVars, contentsVars,
                    location, arraysVars, requestsVars, basesVars, schemataVars>>
  \/ /\ subject = "arrays" /\ ArraysNext
     /\ UNCHANGED <<subject, referencesVars, stringsVars, sharesVars, contentsVars,
                    location, queriesVars, requestsVars, basesVars, schemataVars>>
  \/ /\ subject = "requests" /\ RequestsNext
     /\ UNCHANGED <<subject, referencesVars, stringsVars, sharesVars, contentsVars,
                    location, queriesVars, arraysVars, basesVars, schemataVars>>
  \/ /\ subject = "bases" /\ BasesNext
     /\ UNCHANGED <<subject, referencesVars, stringsVars, sharesVars, contentsVars,
                    location, queriesVars, arraysVars, requestsVars, schemataVars>>
  \/ /\ subject = "schemata" /\ SchemataNext
     /\ UNCHANGED <<subject, referencesVars, stringsVars, sharesVars, contentsVars,
                    location, queriesVars, arraysVars, requestsVars, basesVars>>

PartsVars ==
  <<subject, referencesVars, stringsVars, sharesVars, contentsVars, location,
    queriesVars, arraysVars, requestsVars, basesVars, schemataVars>>

PartsSpec == PartsInit /\ [][PartsNext]_PartsVars /\ WF_referencesVars(LibraryRuns)

\* Properties that quantify over much are evaluated in the part that they are about alone:
\* references resolve as RFC 3986 says but where they are known not to, from every location;
ReferencesResolve == subject = "uris" => DepartsAsListed

\* insert() makes room and changes nothing else, at every index of every array.
InsertionsSound == subject = "arrays" => InsertKeepsItems

\* Every part keeps to its types.
PartsTypeOK ==
  CASE subject = "references" -> ReferencesTypeOK [] subject = "strings" -> StringsTypeOK
    [] subject = "shares" -> SharesTypeOK [] subject = "contents" -> ContentsTypeOK
    [] subject = "uris" -> UrisTypeOK [] subject = "queries" -> QueriesTypeOK
    [] subject = "arrays" -> ArraysTypeOK [] subject = "requests" -> RequestsTypeOK
    [] subject = "bases" -> BasesTypeOK [] subject = "schemata" -> SchemataTypeOK
=============================================================================
