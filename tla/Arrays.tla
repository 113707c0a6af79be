------------------------------- MODULE Arrays -------------------------------
(***************************************************************************)
(* The growing array (src/dom/include/dae/daeArray.h) that attributes,     *)
(* lists of docs and results of queries are kept in.                       *)
(*                                                                         *)
(* Indices count from 0, as in the code. An operand is a value, or a       *)
(* reference to an item of the array itself: that is read when the code    *)
(* reads it, which may be after the items have moved to a larger block.    *)
(***************************************************************************)
EXTENDS Integers, SequencesExt

CONSTANTS Items, DefaultItem,   \* DefaultItem is what T() makes
          Freed,                \* what a reference into a freed block reads
          MinCapacity,          \* half of the least capacity _grow3() reserves
          MaxItems,             \* bound: items of the array
          Outside               \* TRUE: no operand refers into the array

ASSUME ArraysAssumption ==
  /\ DefaultItem \notin Items /\ Freed \notin Items \union {DefaultItem}
  /\ {MinCapacity, MaxItems} \subseteq Nat \ {0} /\ Outside \in BOOLEAN

VARIABLES array, capacity, overrun    \* overrun: an index has left the array
arraysVars == <<array, capacity, overrun>>

ArraysTypeOK ==
  /\ array \in Seq(Items \union {DefaultItem, Freed}) /\ Len(array) <= capacity
  /\ capacity \in Nat /\ overrun \in BOOLEAN

Value(v) == [at |-> -1, value |-> v]
Operands == {Value(v) : v \in Items} \union
            (IF Outside THEN {} ELSE {[at |-> i, value |-> DefaultItem] : i \in 0..(Len(array) - 1)})

\* What an operand reads as while the items are s.
Reads(operand, s, moved) ==
  IF operand.at < 0 THEN operand.value ELSE IF moved THEN Freed ELSE s[operand.at + 1]

Filled(n, v) == [i \in 1..n |-> v]

\* grow(), _grow3(): the capacity that is left for n items.
Reserved(n) == LET doubled == 2 * (IF capacity <= 1 THEN MinCapacity ELSE capacity)
            IN  IF n <= capacity THEN capacity ELSE IF doubled > n THEN doubled ELSE n
-----------------------------------------------------------------------------
\* setCount(): the new items are copies of the operand.
Sized(s, n, operand) ==
  IF n <= Len(s) THEN SubSeq(s, 1, n)
  ELSE s \o Filled(n - Len(s), Reads(operand, s, n > capacity))

\* set(), and push_back() at the index behind the last item.
SetAt(s, index, operand) ==
  LET sized == IF index < Len(s) THEN s ELSE Sized(s, index + 1, Value(DefaultItem))
  IN  [sized EXCEPT ![index + 1] = Reads(operand, sized, index + 1 > capacity)]

\* Mutant: the loop that moves the items up ends one too early.
ItemsInsertedShort(s, index, n, operand) ==
  LET count == IF index >= Len(s) THEN index + n ELSE Len(s) + n
      sized == Sized(s, count, Value(DefaultItem))
  IN  [i \in 1..count |->
         IF i \in (index + 1)..(index + n) THEN Reads(operand, sized, count > capacity)
         ELSE IF index < Len(s) /\ i > index + n + 1 THEN sized[i - n] ELSE sized[i]]

\* insert(): the items from the index on move up, last one first; the operand is read
\* after that.
ItemsInserted(s, index, n, operand) ==
  LET count == IF index >= Len(s) THEN index + n ELSE Len(s) + n
      sized == Sized(s, count, Value(DefaultItem))
      shifted == [i \in 1..count |-> IF index < Len(s) /\ i > index + n THEN sized[i - n] ELSE sized[i]]
  IN  [i \in 1..count |-> IF i \in (index + 1)..(index + n)
                          THEN Reads(operand, shifted, count > capacity) ELSE shifted[i]]

\* removeIndex()
Without(s, index) == [i \in 1..(Len(s) - 1) |-> IF i > index THEN s[i + 1] ELSE s[i]]

\* find()
Finds(s, v) == {i \in 0..(Len(s) - 1) : s[i + 1] = v /\ \A j \in 1..i : s[j] # v}
-----------------------------------------------------------------------------
Becomes(s) ==
  /\ ~overrun /\ Len(s) <= MaxItems
  /\ array' = s
  /\ capacity' = Reserved(Len(s))
  /\ UNCHANGED overrun

SetCount(n, operand) == Becomes(Sized(array, n, operand))
SetItem(index, operand) == Becomes(SetAt(array, index, operand))

\* With nothing to insert in front of the first item the loop's index, which is unsigned,
\* passes zero without being less.
Insert(index, n, operand) ==
  IF index + n = 0 /\ array # <<>>
  THEN ~overrun /\ overrun' = TRUE /\ UNCHANGED <<array, capacity>>
  ELSE Becomes(ItemsInserted(array, index, n, operand))

RemoveIndex(index) == index < Len(array) /\ Becomes(Without(array, index))

\* remove(): the first item that is equal.
RemoveItem(v) == \E index \in Finds(array, v) : Becomes(Without(array, index))

\* appendUnique()
AppendUnique(v) == Finds(array, v) = {} /\ Becomes(SetAt(array, Len(array), Value(v)))

\* clear()
ClearItems == Becomes(<<>>)

ArraysInit == array = <<>> /\ capacity = 0 /\ overrun = FALSE

ArraysNext ==
  \/ \E n \in 0..MaxItems, operand \in Operands : SetCount(n, operand)
  \/ \E index \in 0..(MaxItems - 1), operand \in Operands : SetItem(index, operand)
  \/ \E index, n \in 0..MaxItems, operand \in Operands : Insert(index, n, operand)
  \/ \E index \in 0..(MaxItems - 1) : RemoveIndex(index)
  \/ \E v \in Items : RemoveItem(v)
  \/ \E v \in Items : AppendUnique(v)
  \/ ClearItems

ArraysSpec == ArraysInit /\ [][ArraysNext]_arraysVars
-----------------------------------------------------------------------------
\* Properties.

\* Inserting makes room and changes nothing else, whatever the capacity and wherever the
\* value comes from: the items before the index stay, those from it on follow the new
\* ones, and a place that is skipped holds T() ("Inserts the specified number of elements
\* at a specific location in the array", insert()).
InsertKeepsItems ==
  ~overrun =>
    \A index, n \in 0..MaxItems, operand \in Operands :
      LET padded == array \o Filled(index - Len(array), DefaultItem)
      IN  ItemsInserted(array, index, n, operand) =
            SubSeq(padded, 1, index) \o Filled(n, Reads(operand, array, FALSE))
              \o SubSeq(padded, index + 1, Len(padded))
=============================================================================
