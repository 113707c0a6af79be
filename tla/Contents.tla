------------------------------ MODULE Contents ------------------------------
(***************************************************************************)
(* The contents-array of one element (src/dom/include/dae/daeContent.h,    *)
(* src/dom/src/dae/daeMetaElement.cpp, daeMetaElementAttribute.cpp).       *)
(*                                                                         *)
(* Children of every name, placeholders and text share one array. A child  *)
(* has an ID, that is a name and an index among the children of the name,  *)
(* and an ordinal, that is its place in the schema: the schema here is an   *)
(* xs:sequence of named elements that occurs up to Cycles times. Ordinals   *)
(* count down from Top; 0 is for children the schema has no place for. The  *)
(* array never shrinks: a removed child turns into an empty text node. The  *)
(* array keeps a cursor where the next child is likely to be asked for.     *)
(*                                                                         *)
(* Positions count from 1; the 0-filled memory behind the array reads as    *)
(* Terminator. Text takes one node. `failed' names an assertion that failed: *)
(* the build has them on, so nothing happens after it.                      *)
(***************************************************************************)
EXTENDS Integers, Sequences, FiniteSetsExt

CONSTANTS Order,       \* the names of the sequence, in the schema's order
          MaxOccurs,   \* [names of the sequence -> how often each may occur in a row]
          Cycles,      \* how often the sequence may occur
          Unnamed,     \* the name of children that are not in the schema
          NoName,
          MaxNodes     \* bound: length of the array

Named == {Order[i] : i \in DOMAIN Order}

ASSUME ContentsAssumption ==
  /\ Cycles \in Nat \ {0} /\ MaxNodes \in Nat
  /\ Order \in Seq(Named) /\ \A i \in DOMAIN Order : Order[i] \notin {Unnamed, NoName}
  /\ MaxOccurs \in [Named -> Nat \ {0}]
  /\ Unnamed # NoName

VARIABLES
  contents,  \* [nodes, count (per name), cursor, failed]
  disturbed  \* history: whether a call was made that the array is not up to

contentsVars == <<contents, disturbed>>

Position(n) == CHOOSE i \in DOMAIN Order : Order[i] = n
Top == Cycles * Len(Order)
Ordinals == 0..(Top + 1)

Child(n, i, o, empty) == [name |-> n, index |-> i, ordinal |-> o, empty |-> empty]
Text == Child(NoName, 0, Top + 1, TRUE)
Terminator == Child(NoName, 0, 0, TRUE)

ContentsTypeOK ==
  /\ \A i \in DOMAIN contents.nodes :
       contents.nodes[i] \in
         [name : Named \union {Unnamed, NoName}, index : 0..MaxNodes, ordinal : Ordinals,
          empty : BOOLEAN]
  /\ contents.count \in [Named \union {Unnamed} -> 0..MaxNodes]
  /\ contents.failed \in {"", "cursor", "count", "resize"}
  /\ disturbed \in BOOLEAN

ContentsInit ==
  /\ contents = [nodes |-> <<>>, count |-> [n \in Named \union {Unnamed} |-> 0],
                 cursor |-> 1, failed |-> ""]
  /\ disturbed = FALSE

End(c) == Len(c.nodes) + 1
At(c, i) == IF i \in DOMAIN c.nodes THEN c.nodes[i] ELSE Terminator
HasText(c, i) == At(c, i).ordinal > Top

\* "The built-in cursor cannot rest on text."
Skipping(c, i) == Min({j \in i..End(c) : ~HasText(c, j)})
-----------------------------------------------------------------------------
(* Finding a child: _get() *)

IsChild(c, i, n, k) == At(c, i).name = n /\ At(c, i).index = k /\ i < End(c)

\* Mutant: the search does not go back to the start of the array.
SearchedAhead(c, from, n, k) ==
  LET ahead == {i \in from..Len(c.nodes) : IsChild(c, i, n, k)}
  IN  IF ahead # {} THEN Min(ahead) ELSE 0

\* __reset_cursor(): from the cursor to the end, then the rest; 0 if there is none.
Searched(c, from, n, k) ==
  LET ahead == {i \in from..Len(c.nodes) : IsChild(c, i, n, k)}
      behind == {i \in 1..(from - 1) : IsChild(c, i, n, k)}
  IN  IF ahead # {} THEN Min(ahead) ELSE IF behind # {} THEN Min(behind) ELSE 0

\* __get1(): the child, and the cursor behind it.
Get1(c, from, n, k) ==
  LET it == IF IsChild(c, from, n, k) THEN from ELSE Searched(c, from, n, k)
  IN  [it |-> it, cursor |-> IF it = 0 THEN from ELSE Skipping(c, it + 1)]

\* __get2(): random access from the cursor, if it is on the first of the name;
\* where it is on another name, the first of the name is looked for.
Get2(c, from, n, k) ==
  IF IsChild(c, from + k, n, k) THEN [it |-> from + k, cursor |-> from]
  ELSE IF At(c, from).name = n THEN Get1(c, from, n, k)
  ELSE LET first == Searched(c, from, n, 0)
       IN  IF first = 0 THEN [it |-> 0, cursor |-> from]
           ELSE IF IsChild(c, first + k, n, k) THEN [it |-> first + k, cursor |-> first]
           ELSE Get1(c, first, n, k)

Get(c, n, k) == Get2(c, c.cursor, n, k)
-----------------------------------------------------------------------------
(* Placing a child: the content model *)

\* Mutant: it never rewinds.
FuzzyLowerBoundFromCursor(c, o) ==
  Min({i \in c.cursor..End(c) : At(c, i).ordinal <= o})

\* "If the cursor is on an ordinal that is equal to @a o, it doesn't rewind."
FuzzyLowerBound(c, o) ==
  LET from == IF At(c, c.cursor).ordinal >= o THEN c.cursor ELSE 1
  IN  Min({i \in from..End(c) : At(c, i).ordinal <= o})

\* _rewind_ordinal(): behind the last child before i with an ordinal above o.
Rewound(c, i, o) ==
  1 + Max({0} \union {j \in 1..(i - 1) : ~HasText(c, j) /\ At(c, j).ordinal > o})

UpperBoundWithText(c, o) == Rewound(c, FuzzyLowerBound(c, o - 1), o - 1)

\* What __place() answers: whether ordinal o may be had, the insertion point (0: not
\* looked for), and where the cursor is left.
Answer(ok, o, at, cursor) == [ok |-> ok, ordinal |-> o, at |-> at, cursor |-> cursor]

\* daeElementCM::__place(): "designed to avoid counting unbounded blocks".
PlaceElement(c, n, count, o) ==
  LET it == FuzzyLowerBound(c, o)
      first == 1 + Max({0} \union {j \in 1..(it - 1) : ~HasText(c, j) /\ At(c, j).ordinal # o})
      past == Min({j \in it..End(c) : ~HasText(c, j) /\ At(c, j).ordinal # o})
      like == {j \in first..(past - 1) : At(c, j).ordinal = o}
  IN  IF count < MaxOccurs[n] THEN Answer(TRUE, o, 0, c.cursor)
      ELSE IF At(c, it).ordinal # o
        THEN Answer(TRUE, o, Rewound(c, it, At(c, it).ordinal), it)
      ELSE IF MaxOccurs[n] = 1 THEN Answer(FALSE, o, 0, it)
      ELSE IF Cardinality(like) < MaxOccurs[n]
        THEN Answer(TRUE, o, 1 + Max(like), Skipping(c, first))
      ELSE Answer(FALSE, o, 0, past)

\* daeCM::__placeT() of the sequence, with __between(): the occurrences of the sequence from
\* the first down, as far as they "intersect" the ordinals up to a. Occurrence q has the
\* ordinals up to q * N. The step over those that do not is taken on top of the loop's own.
PlaceFrom(c, n, count, a) ==
  LET N == Len(Order)
      place[q \in Int] ==
        [cursor \in 1..End(c) |->
           LET o == q * N
               own == o - Position(n) + 1
               try == PlaceElement([c EXCEPT !.cursor = cursor], n, count, own)
           IN  IF q <= 0 THEN Answer(FALSE, 0, 0, cursor)
               ELSE IF o - N > a THEN place[q - ((o - a) \div N) - 1][cursor]
               ELSE IF own - 1 > a THEN place[q - 1][cursor]
               ELSE IF try.ok THEN try
               ELSE place[q - 1][try.cursor]]
  IN  place[Cycles][c.cursor]

PlaceBetween(c, n, count, a) ==
  IF n \in Named THEN PlaceFrom(c, n, count, a) ELSE Answer(FALSE, 0, 0, c.cursor)

\* default_insertion_point_to_back() or, where there is no place,
\* set_insertion_point_et_cetera_to_extra().
Completed(c, p) ==
  IF ~p.ok THEN [p EXCEPT !.ordinal = 0, !.at = End(c)]
  ELSE IF p.at = 0 THEN [p EXCEPT !.at = UpperBoundWithText(c, p.ordinal)]
  ELSE p

\* _placeElement()
Placement(c, n) == Completed(c, PlaceBetween(c, n, c.count[n], 2 * Top))
-----------------------------------------------------------------------------
(* Changes of the array, as functions from array to array *)

\* _insert_child() at i, which takes the cursor along, and the counter of the name.
Inserted(c, i, child) ==
  [c EXCEPT !.nodes = SubSeq(@, 1, i - 1) \o <<child>> \o SubSeq(@, i, Len(@)),
            !.cursor = i, !.count[child.name] = @ + 1]

\* _addWID() and _setWID3() of a child that is not there: the index is the count.
Added(c, n, empty) ==
  LET p == Placement(c, n)
  IN  Inserted(c, p.at, Child(n, c.count[n], p.ordinal, empty))

\* Mutant: the cursor stays where the child was.
VacatedUnderCursor(c, it) ==
  [c EXCEPT !.nodes[it] = Text, !.count[c.nodes[it].name] = @ - 1]

\* _remove_child() and the counter: the node is an empty text now.
Vacated(c, it) ==
  LET gone == [c EXCEPT !.nodes[it] = Text, !.count[c.nodes[it].name] = @ - 1]
  IN  [gone EXCEPT !.cursor = IF @ = it THEN Skipping(gone, it) ELSE @]

\* Mutant: the last child of the name keeps its index.
RemovedUntangled(c, it) == Vacated(c, it)

\* _removeWID(). A placeholder just goes. An element's ID is taken over by the last of
\* its name; the search for that one starts where it would be if all of them were in a
\* row, and "all cursors are held to the same requirements as the built-in cursor".
Removed(c, it) ==
  LET child == c.nodes[it]
      last == c.count[child.name] - 1
      guess == it + last - child.index
      heir == Get1(c, guess, child.name, last).it
  IN  IF child.empty THEN Vacated(c, it)
      ELSE IF guess \notin 1..End(c) \/ HasText(c, guess) \/ heir = 0
        THEN [c EXCEPT !.failed = "cursor"]
      ELSE Vacated([c EXCEPT !.nodes[heir].index = child.index], it)

\* _insert_move_operation within the array: "EDGE-CASE".
Moved(c, it, n) ==
  LET child == c.nodes[it]
      p == Placement(c, n)
      out == Removed([c EXCEPT !.cursor = p.cursor], it)
      untangled == child.index # out.count[child.name]
      count == IF untangled THEN c.count[n] - 1 ELSE c.count[n]
  IN  IF out.failed # "" THEN out
      ELSE IF untangled /\ count # out.count[child.name] THEN [out EXCEPT !.failed = "count"]
      ELSE Inserted(out, p.at, Child(n, count, p.ordinal, FALSE))

\* _resizeWID2() to a smaller size, one ID after the other, and resize()'s assertion.
Shrunk(c, n, size) ==
  LET after[k \in size..c.count[n]] ==
        LET before == after[k - 1]
            found == Get(before, n, k - 1)
            looked == [before EXCEPT !.cursor = found.cursor]
        IN  IF k = size THEN c
            ELSE IF found.it = 0 \/ before.failed # "" THEN looked
            ELSE Removed(looked, found.it)
  IN  after[c.count[n]]

Grown(c, n, size) ==
  LET after[k \in c.count[n]..size] == IF k = c.count[n] THEN c ELSE Added(after[k - 1], n, TRUE)
  IN  after[size]

Resized(c, n, size) ==
  LET shrunk == Shrunk(c, n, size)
  IN  IF c.count[n] <= size THEN Grown(c, n, size)
      ELSE IF shrunk.failed = "" /\ shrunk.count[n] # size THEN [shrunk EXCEPT !.failed = "resize"]
      ELSE shrunk

\* pushBackWRT(): the reader puts a child behind the last one that has an ordinal, as
\* far as the schema allows it there; or else behind everything, among the unnamed.
ReadBack(c) ==
  IF At(c, c.cursor).ordinal = 0
  THEN 1 + Max({0} \union {i \in 1..(c.cursor - 1) : At(c, i).ordinal # 0})
  ELSE Min({i \in c.cursor..End(c) : At(c, i).ordinal = 0})

ReadCursor(c) ==
  [c EXCEPT !.cursor = IF At(c, @).ordinal = 0 THEN ReadBack(c) ELSE @]

ReadOnto(c) ==
  LET onto == Max({0} \union {i \in 1..(ReadBack(c) - 1) : i = 1 \/ ~HasText(c, i)})
  IN  IF onto = 0 THEN Top ELSE At(c, onto).ordinal

ReadPlacement(c, n) == PlaceBetween(ReadCursor(c), n, c.count[n], ReadOnto(c))

Read(c, n) ==
  LET p == ReadPlacement(c, n)
      unnamed == Child(Unnamed, c.count[n], 0, FALSE)
  IN  IF p.ok THEN Inserted(c, ReadBack(c), Child(n, c.count[n], p.ordinal, FALSE))
      ELSE [Inserted(c, End(c), unnamed) EXCEPT !.cursor = p.cursor]
-----------------------------------------------------------------------------
(* The calls of the client *)

\* dae_Array's operators: the child is looked for, which leaves the cursor elsewhere.
Found(n, k) == Get(contents, n, k).it
Looked(n, k) == [contents EXCEPT !.cursor = Get(contents, n, k).cursor]

Look(n, k) == contents' = Looked(n, k) /\ UNCHANGED disturbed

AddWID(n) ==
  /\ \E empty \in BOOLEAN : contents' = Added(Looked(n, contents.count[n]), n, empty)
  /\ UNCHANGED disturbed

\* The ref of a slot that is there: a placeholder is populated, an element vacated.
SetWID(n, k) ==
  /\ Found(n, k) # 0
  /\ contents' = [Looked(n, k) EXCEPT !.nodes[Found(n, k)].empty = ~@]
  /\ UNCHANGED disturbed

\* The history of what the array is not up to.
Disturbing(call) == disturbed' = (disturbed \/ call)

\* A placeholder that is not the last of its name leaves a gap behind.
RemoveWID(n, k) ==
  /\ Found(n, k) # 0
  /\ contents' = Removed(Looked(n, k), Found(n, k))
  /\ Disturbing(contents.nodes[Found(n, k)].empty /\ k + 1 # contents.count[n])

\* A child of the same parent: to the end of an array, or onto a placeholder. The
\* operation has one way to count, for what is not the last of the array it moves to
\* the end of; it is also right for the last of another array.
MoveWID(n, k, m) ==
  /\ Found(n, k) # 0 /\ ~contents.nodes[Found(n, k)].empty
  /\ contents' = Moved(Looked(m, contents.count[m]), Found(n, k), m)
  /\ Disturbing(~((n = m) <=> (k + 1 # contents.count[n])))

MoveOntoWID(n, k, m, j) ==
  /\ Found(n, k) # 0 /\ ~contents.nodes[Found(n, k)].empty
  /\ Found(m, j) # 0 /\ contents.nodes[Found(m, j)].empty
  /\ LET out == Removed(Looked(m, j), Found(n, k))
     IN  contents' = IF out.failed # "" THEN out
                     ELSE [out EXCEPT !.nodes[Found(m, j)].empty = FALSE]
  /\ UNCHANGED disturbed

ResizeWID(n, size) == contents' = Resized(contents, n, size) /\ UNCHANGED disturbed

\* The reader is up to documents in the order of the schema: it looks for a place from the
\* ordinal of the last child down, but an occurrence of the sequence that this one is in
\* the middle of offers all of its places; and what has no place keeps its name's index.
PushBackWRT(n) ==
  LET p == ReadPlacement(contents, n)
  IN  /\ contents' = Read(contents, n)
      /\ Disturbing(~(n = Unnamed \/ (p.ok /\ p.ordinal <= ReadOnto(contents))))

\* __insert() of a comment or of mixed text before i.
InsertText(i) ==
  LET mixed == [contents EXCEPT
                  !.nodes = SubSeq(@, 1, i - 1) \o <<Text>> \o SubSeq(@, i, Len(@))]
  IN  contents' = [mixed EXCEPT !.cursor = Skipping(mixed, i)] /\ UNCHANGED disturbed

ContentsNext ==
  /\ contents.failed = ""
  /\ \/ \E n \in Named \union {Unnamed}, k \in 0..(MaxNodes - 1) :
          Look(n, k) \/ SetWID(n, k) \/ RemoveWID(n, k) \/ ResizeWID(n, k)
     \/ \E n \in Named \union {Unnamed} : AddWID(n) \/ PushBackWRT(n)
     \/ \E n, m \in Named \union {Unnamed}, k, j \in 0..(MaxNodes - 1) :
          MoveWID(n, k, m) \/ MoveOntoWID(n, k, m, j)
     \/ \E i \in 1..End(contents) : InsertText(i)
  /\ Len(contents'.nodes) <= MaxNodes

ContentsSpec == ContentsInit /\ [][ContentsNext]_contentsVars
-----------------------------------------------------------------------------
(* Properties *)

\* "Note that removals in the middle of the array shifts higher subscripts": the indices
\* of the children of a name are 0 to size() - 1, each once, whatever was removed.
SubscriptsDense ==
  contents.failed = "" =>
    \A n \in Named \union {Unnamed} :
      LET children == {i \in DOMAIN contents.nodes : contents.nodes[i].name = n}
      IN  /\ Cardinality(children) = contents.count[n]
          /\ {contents.nodes[i].index : i \in children} = 0..(contents.count[n] - 1)

\* Additions are placed "with an appropriate ordinal": the array is in the order of the
\* schema, with what the schema has no place for at the back, and no place is taken more
\* often than the schema allows.
SchemaOrder ==
  LET ordinal == [i \in DOMAIN contents.nodes |-> contents.nodes[i].ordinal]
      children == {i \in DOMAIN ordinal : ordinal[i] <= Top}
  IN  /\ \A i, j \in children : i < j => ordinal[i] >= ordinal[j]
      /\ \A i \in children :
           ordinal[i] > 0 =>
             Cardinality({j \in children : ordinal[j] = ordinal[i]})
               <= MaxOccurs[contents.nodes[i].name]

\* Both are so until a call is made that the array is not up to (see Disturbing), through
\* every sequence of the others: an element's subscript is taken over by the last of its name,
DenseUntilDisturbed == disturbed \/ SubscriptsDense

\* and the placement procedures, which search the array by its ordinals from wherever the
\* cursor is, find the place.
OrderedUntilDisturbed == disturbed \/ SchemaOrder

\* "It cannot be greater than the content-array's size(). It cannot be left in a text
\* node": the cursor that all algorithms start from, after every change.
CursorRests == contents.cursor \in 1..End(contents) /\ ~HasText(contents, contents.cursor)

\* _get() finds a child from wherever the cursor rests, and only the one asked for: the
\* shortcuts for random access and for the next child do not lose it. (They take it that
\* where a name has children, one of them is the first.)
GetFinds ==
  contents.failed = "" /\ ~disturbed =>
    \A n \in Named \union {Unnamed}, k \in 0..MaxNodes, from \in 1..End(contents) :
      ~HasText(contents, from) =>
        LET got == Get2(contents, from, n, k)
        IN  /\ IF \E i \in DOMAIN contents.nodes : IsChild(contents, i, n, k)
               THEN IsChild(contents, got.it, n, k) ELSE got.it = 0
            /\ ~HasText(contents, got.cursor)
=============================================================================
