-------------------------------- MODULE MCDOM --------------------------------
(***************************************************************************)
(* The two layers of a DOM, the docs in their archives and the elements in  *)
(* their documents, in one run. They share no state: `subject' is the one   *)
(* that is explored. The elements are explored in three instances, `cast'   *)
(* being the elements and documents that one uses, and `names' its ids and  *)
(* sids.                                                                   *)
(***************************************************************************)
EXTENDS MCArchives, MCElements

VARIABLES subject, cast, names

\* Trees of three elements in one document, with no placeholder but that of a replacement
\* under way; placeholders, type lookups and removeChildElement, with two elements in two
\* documents; and two ids there.
Sizes == [trees |-> <<3, 1, 1, 1>>, slots |-> <<2, 2, 1, 0>>, ids |-> <<2, 2, 2, 0>>]

Of(S, n) == {P \in SUBSET S : Cardinality(P) = n}

DOMInit ==
  /\ Init /\ ArchivesInit
  /\ \/ /\ subject \in DOMAIN Sizes
        /\ LET n == Sizes[subject]
           IN  /\ cast \in {E \union D : E \in Of(Elements, n[1]), D \in Of(Documents, n[2])}
               /\ names \in {I \union S \union {Nothing} : I \in Of(IDs, n[3]), S \in Of(SIDs, n[4])}
     \/ subject = "archives" /\ cast = {} /\ names = {}

\* What a step may change in each instance of the elements.
Within ==
  /\ content' \union touched' \union vacant' \subseteq cast
  /\ \A e \in content' : parent'[e] \in cast
  /\ \A e \in Elements : IF e \in cast THEN {id'[e], sid'[e]} \subseteq names
                        ELSE id'[e] = Nothing /\ sid'[e] = Nothing
  /\ \A d \in Documents \ cast : entries'[d] = {}
  /\ subject = "trees" => vacant' = {} \/ assigning' # Nothing
  /\ subject = "slots" \/ (enabled' = {} /\ leaked' = {})
  /\ assigning' # Nothing => assigning'[2] \in cast

DOMNext ==
  /\ UNCHANGED <<subject, cast, names>>
  /\ \/ subject = "archives" /\ ArchivesNext /\ UNCHANGED vars
     \/ subject \in DOMAIN Sizes /\ Next /\ Within /\ UNCHANGED archivesVars

DOMSpec == DOMInit /\ [][DOMNext]_<<vars, archivesVars, subject, cast, names>>

DOMView ==
  IF subject = "archives" THEN ArchivesView ELSE <<subject, cast, names, View>>
=============================================================================
