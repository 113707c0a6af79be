------------------------------ MODULE Queries ------------------------------
(***************************************************************************)
(* Queries of a tree of elements: daeElement::getChild(), getDescendant() *)
(* and _sidLookup() (src/dom/src/dae/daeElement.cpp), and                  *)
(* the search of the SID resolver (src/dom/src/dae/daeSIDResolver.cpp).    *)
(*                                                                         *)
(* The tree is that of one document below Root. An element has at most one *)
(* SID, and is a <technique_common>, a <technique> for a profile or        *)
(* another element, which is plain. The document's map of SIDs holds the   *)
(* elements that have one, in any order.                                   *)
(***************************************************************************)
EXTENDS Integers, FiniteSets, SequencesExt

CONSTANTS Nodes, Root,         \* elements; the root of the document is one
          SIDs, NoSID,
          Profiles, NoProfile,
          Plain, Common

NoNode == "none"

ASSUME QueriesAssumption ==
  /\ IsFiniteSet(Nodes) /\ Root \in Nodes /\ NoNode \notin Nodes
  /\ NoSID \notin SIDs /\ {NoProfile, Plain, Common} \intersect Profiles = {}

VARIABLES below,    \* the children of each element, in order
          above,    \* the parent of each element
          sid,      \* the SID of each element
          sort      \* plain, common, or the profile of a technique
queriesVars == <<below, above, sid, sort>>

Sorts == {Plain, Common} \union Profiles

InTree == {Root} \union {n \in Nodes : above[n] # NoNode}

QueriesTypeOK ==
  /\ below \in [Nodes -> Seq(Nodes)] /\ above \in [Nodes -> Nodes \union {NoNode}]
  /\ \A n, p \in Nodes : n \in Range(below[p]) <=> above[n] = p
  /\ sid \in [Nodes -> SIDs \union {NoSID}] /\ sort \in [Nodes -> Sorts]

QueriesInit ==
  /\ below = [n \in Nodes |-> <<>>]
  /\ above = [n \in Nodes |-> NoNode]
  /\ sid = [n \in Nodes |-> NoSID]
  /\ sort = [n \in Nodes |-> Plain]

Fresh == CHOOSE n \in Nodes : n \notin InTree

\* Mutant: the element is in the array, and has no parent.
GraftUnparented(p, i, s, k) ==
  /\ InTree # Nodes /\ p \in InTree
  /\ i \in 1..(Len(below[p]) + 1)
  /\ below' = [below EXCEPT ![p] = InsertAt(@, i, Fresh)]
  /\ sid' = [sid EXCEPT ![Fresh] = s]
  /\ sort' = [sort EXCEPT ![Fresh] = k]
  /\ UNCHANGED above

\* An element is placed with its SID; its children follow.
Graft(p, i, s, k) ==
  /\ InTree # Nodes /\ p \in InTree
  /\ i \in 1..(Len(below[p]) + 1)
  /\ below' = [below EXCEPT ![p] = InsertAt(@, i, Fresh)]
  /\ above' = [above EXCEPT ![Fresh] = p]
  /\ sid' = [sid EXCEPT ![Fresh] = s]
  /\ sort' = [sort EXCEPT ![Fresh] = k]

Prune(n) ==
  /\ n # Root /\ n \in InTree /\ below[n] = <<>>
  /\ \E i \in DOMAIN below[above[n]] :
       /\ below[above[n]][i] = n
       /\ below' = [below EXCEPT ![above[n]] = RemoveAt(@, i)]
  /\ above' = [above EXCEPT ![n] = NoNode]
  /\ sid' = [sid EXCEPT ![n] = NoSID]
  /\ sort' = [sort EXCEPT ![n] = Plain]

Rename(n, s) ==
  /\ n \in InTree /\ s # sid[n]
  /\ sid' = [sid EXCEPT ![n] = s]
  /\ UNCHANGED <<below, above, sort>>

QueriesNext ==
  \/ \E p \in Nodes, i \in 1..Cardinality(Nodes), s \in SIDs \union {NoSID}, k \in Sorts :
       Graft(p, i, s, k)
  \/ \E n \in Nodes : Prune(n)
  \/ \E n \in Nodes, s \in SIDs \union {NoSID} : Rename(n, s)

QueriesSpec == QueriesInit /\ [][QueriesNext]_queriesVars
-----------------------------------------------------------------------------
\* A matcher is the set of the elements that it matches.
FirstOf(s, matching) ==
  LET hits == {i \in 1..Len(s) : s[i] \in matching}
  IN  IF hits = {} THEN NoNode ELSE s[CHOOSE i \in hits : \A j \in hits : i <= j]

\* getChild()
ChildFound(n, matching) == FirstOf(below[n], matching)

\* getDescendant(): "Process one level before adding the next to the array". The loop
\* around both of its loops has an increment of its own.
DescendantFound(n, matching) ==
  LET search[elts \in Seq(Nodes), i \in Nat] ==
        LET level == SubSeq(elts, i, Len(elts))
        IN  IF level = <<>> THEN NoNode
            ELSE IF FirstOf(level, matching) # NoNode THEN FirstOf(level, matching)
            ELSE search[elts \o FlattenSeq([j \in 1..Len(level) |-> below[level[j]]]),
                        Len(elts) + 2]
  IN  search[below[n], 1]

\* An element and those it is below, nearest first.
Line(n) ==
  LET line[m \in Nodes] == IF above[m] = NoNode THEN <<m>> ELSE <<m>> \o line[above[m]]
  IN  line[n]

Beyond == Cardinality(Nodes)    \* UINT_MAX

\* Mutant: the elements of other profiles count.
DistanceInAnyProfile(scope, e, profile) ==
  LET line == Line(e)
      hits == {i \in 1..Len(line) : line[i] = scope}
  IN  IF hits = {} THEN Beyond ELSE (CHOOSE i \in hits : TRUE) - 1

\* _computeDistance(): the way up from an element to the scope. An element on it that is
\* of another profile ends it, and the scope is one of them.
Distance(scope, e, profile) ==
  LET line == Line(e)
      Bails(m) == \/ sort[m] = Common /\ profile # NoProfile
                  \/ sort[m] \in Profiles /\ profile # sort[m]
      hits == {i \in 1..Len(line) : line[i] = scope /\ \A j \in 1..i : ~Bails(line[j])}
  IN  IF hits = {} THEN Beyond ELSE (CHOOSE i \in hits : TRUE) - 1

\* far: how far each of the matches is.
Nearest(matches, far) ==
  IF \A e \in matches : far[e] = Beyond THEN {NoNode}
  ELSE {e \in matches : \A f \in matches : far[e] <= far[f]}

\* _find(): any one of these is found. A SID that many string references share is
\* looked for among the children first.
Find(scope, s, profile, frequent) ==
  LET matches == {e \in InTree : sid[e] = s}
      child == ChildFound(scope, matches)
  IN  IF frequent /\ child # NoNode THEN {child}
      ELSE Nearest(matches, [e \in matches |-> Distance(scope, e, profile)])

\* _sidLookup(): it knows no profiles.
SidLookup(scope, s, frequent) ==
  LET matches == {e \in InTree : sid[e] = s}
      child == ChildFound(scope, matches)
      Far(e) == LET hits == {i \in 1..Len(Line(e)) : Line(e)[i] = scope}
                IN  IF hits = {} THEN Beyond ELSE (CHOOSE i \in hits : TRUE) - 1
  IN  IF frequent /\ child # NoNode THEN {child}
      ELSE Nearest(matches, [e \in matches |-> Far(e)])

\* Mutant: every SID is looked for below the element that is named first.
ResolvesFromTheStart(from, names, profile) ==
  IF names = <<>> THEN {from} ELSE Find(from, Last(names), profile, FALSE)

\* _resolve_exported(): each SID of a reference is looked for below the element of the
\* one before it.
Resolves(from, names, profile) ==
  LET found[i \in 0..Len(names)] ==
        IF i = 0 THEN {from}
        ELSE UNION {IF e = NoNode THEN {NoNode} ELSE Find(e, names[i], profile, FALSE) :
                      e \in found[i - 1]}
  IN  found[Len(names)]
-----------------------------------------------------------------------------
\* Properties.

Entered(m, profile) == /\ sort[m] = Common => profile = NoProfile
                       /\ sort[m] \in Profiles => profile = sort[m]

\* A breadth-first search down from a scope, among the elements that may be entered.
Level(scope, depth, entered) ==
  LET level[d \in 0..depth] ==
        entered \intersect (IF d = 0 THEN {scope} ELSE UNION {Range(below[n]) : n \in level[d - 1]})
  IN  level[depth]
ByLevels(scope, s, entered) ==
  LET At(d) == {m \in Level(scope, d, entered) : sid[m] = s}
      depths == {d \in 0..(Cardinality(Nodes) - 1) : At(d) # {}}
  IN  IF depths = {} THEN {NoNode} ELSE At(CHOOSE d \in depths : \A c \in depths : d <= c)

\* The shortcut for frequent SIDs looks neither at the scope nor at the profile.
ShortcutHolds(scope, s, profile) ==
  sid[scope] # s /\ \A m \in {scope} \union Range(below[scope]) : Entered(m, profile)

\* The search up from the elements with a SID finds what a breadth-first search down from
\* the scope finds, for every profile and also by the shortcut (daeSIDResolver.cpp,
\* _find(): "Implements a breadth-first SID search by using the database"; _sidLookup()
\* is the same without profiles).
FindsByLevels ==
  \A scope \in InTree, s \in SIDs :
    /\ \A profile \in Profiles \union {NoProfile} :
         LET nearest == ByLevels(scope, s, {m \in Nodes : Entered(m, profile)})
         IN  /\ Find(scope, s, profile, FALSE) \subseteq nearest
             /\ ShortcutHolds(scope, s, profile) => Find(scope, s, profile, TRUE) \subseteq nearest
    /\ LET nearest == ByLevels(scope, s, Nodes)
       IN  /\ SidLookup(scope, s, FALSE) \subseteq nearest
           /\ sid[scope] # s => SidLookup(scope, s, TRUE) \subseteq nearest

\* The SIDs of elements on the way down from another resolve to the last of them, when
\* each of them is the only one of its name below the element before it, however often
\* the name occurs elsewhere (_resolve_exported(): "Find the element matching each SID").
AddressesResolve ==
  \A from \in InTree, length \in 1..(Cardinality(Nodes) - 1) :
    \A down \in [1..length -> {m \in InTree : sid[m] # NoSID}] :
      LET steps == <<from>> \o down
      IN  /\ \A i \in 1..length : steps[i] \in Range(Tail(Line(down[i])))
          /\ \A i \in 1..length, m \in InTree :
               steps[i] \in Range(Line(m)) /\ sid[m] = sid[down[i]] => m = down[i]
          => \A profile \in Profiles \union {NoProfile} :
               (\A m \in Range(Line(Last(down))) : from \in Range(Line(m)) => Entered(m, profile))
                 => Resolves(from, [i \in 1..length |-> sid[down[i]]], profile) = {Last(down)}

\* An element that matches and is below another is found from there (getDescendant(),
\* "Performs a breadth-first search and returns a matching descendant element").
DescendantsFound ==
  \A n \in InTree, s \in SIDs :
    (\E m \in InTree : sid[m] = s /\ n \in Range(Tail(Line(m)))) =>
      DescendantFound(n, {e \in InTree : sid[e] = s}) # NoNode
=============================================================================
