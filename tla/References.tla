----------------------------- MODULE References -----------------------------
(***************************************************************************)
(* Reference counting in the DOM (src/dom/include/dae/daeRefCountedObj.h,  *)
(* daeSmartRef.h, DAEP.h, src/dom/src/dae/dae.cpp): who counts on whom, and *)
(* what one call of a client sets off.                                     *)
(*                                                                         *)
(* An object is referenced by the client's smart references (held), by the *)
(* library's list of documents (listed), by the slot of the contents-array *)
(* it is in (content), and by every object that has it for a parent: "post *)
(* 2.5 reparenting does double ref-counting via the parents". The last     *)
(* reference deletes the object, its destructor releases the parent, and   *)
(* so on upwards. A document has an embedded URI, a subobject: its counter  *)
(* stands at a baseline below zero, written 0 here, and every release of it *)
(* asks whether the document may go.                                       *)
(*                                                                         *)
(* A call is a sequence of tasks in `work', a call stack: what a task sets  *)
(* off runs before what follows it. References that live on the C++ stack  *)
(* are the "release" tasks that end their scope. The client acts when the  *)
(* stack is empty. `fault' says that freed memory was used, or an assertion *)
(* failed; nothing happens after it.                                       *)
(***************************************************************************)
EXTENDS Integers, Sequences, FiniteSets

CONSTANTS Elements, Documents,
          MaxHeld    \* bound: smart references of the client to one object

ASSUME ReferencesAssumption ==
  /\ MaxHeld \in Nat \ {0} /\ Elements \intersect Documents = {}
  /\ IsFiniteSet(Elements) /\ IsFiniteSet(Documents)

VARIABLES alive, refs, parent, content, held, listed, uriRefs, uriHeld, work, fault,
          dropped    \* history: whether a move let go of the last reference to its source

counts == <<refs, uriRefs>>
tree == <<parent, content>>
client == <<held, uriHeld>>
referencesVars == <<alive, counts, tree, client, listed, work, fault, dropped>>

Objects == Elements \union Documents

Task(name, x, y) == [name |-> name, on |-> x, with |-> y]

\* What can go wrong, or nothing.
Faults == {"", "release of a deleted object", "second deletion of an object",
           "a parent for or from a deleted object", "contents of a deleted element",
           "this can't be the only reference"}

StateTypeOK ==
  /\ alive \subseteq Objects
  /\ refs \in [Objects -> Int] /\ uriRefs \in [Documents -> Int]
  /\ parent \in [Objects -> Objects]
  /\ content \in [Objects -> SUBSET Elements]
  /\ held \in [Objects -> 0..MaxHeld] /\ uriHeld \in [Documents -> 0..MaxHeld]
  /\ listed \in [Documents -> {"open", "closed", "gone"}]
  /\ \A i \in DOMAIN work : {work[i].on, work[i].with} \subseteq Objects
  /\ fault \in Faults

ReferencesTypeOK == StateTypeOK /\ dropped \in BOOLEAN

\* An object that is its own parent counts on nobody. Documents stand for that:
\* what they count on, their DOM, outlives them.
ReferencesInit ==
  /\ alive = Documents
  /\ refs = [x \in Objects |-> IF x \in Documents THEN 1 ELSE 0]
  /\ parent = [x \in Objects |-> x]
  /\ content = [x \in Objects |-> {}]
  /\ held = [x \in Objects |-> 0]
  /\ listed = [d \in Documents |-> "open"]
  /\ uriRefs = [d \in Documents |-> 0] /\ uriHeld = [d \in Documents |-> 0]
  /\ work = <<>> /\ fault = "" /\ dropped = FALSE

Children(x) == {y \in alive : parent[y] = x /\ y # x}

\* isContent()
InContent(c) == c \in content[parent[c]]
-----------------------------------------------------------------------------
(* What the library does with the task at the top of its stack. *)

Runs(name) == fault = "" /\ work # <<>> /\ Head(work).name = name

Calls(tasks) == work' = tasks \o Tail(work)

Fault(what) ==
  fault' = what /\ work' = <<>> /\ UNCHANGED <<alive, counts, tree, client, listed>>

\* _release(), and _compact() where it releases: one reference less, and at zero
\* the object's __0() runs.
Release ==
  /\ Runs("release")
  /\ LET x == Head(work).on
     IN  \/ x \notin alive /\ Fault("release of a deleted object")
         \/ /\ x \in alive
            /\ refs' = [refs EXCEPT ![x] = @ - 1]
            /\ Calls(IF refs[x] - 1 <= 0 THEN <<Task("zero", x, x)>> ELSE <<>>)
            /\ UNCHANGED <<alive, tree, client, listed, uriRefs, fault>>

\* A subobject's __0() is its parent's when the counter is at the baseline.
ReleaseUri ==
  /\ Runs("release uri")
  /\ LET d == Head(work).on
     IN  \/ d \notin alive /\ Fault("release of a deleted object")
         \/ /\ d \in alive
            /\ uriRefs' = [uriRefs EXCEPT ![d] = @ - 1]
            /\ Calls(IF uriRefs[d] - 1 <= 0 THEN <<Task("zero", d, d)>> ELSE <<>>)
            /\ UNCHANGED <<alive, refs, tree, client, listed, fault>>

\* "Return if the object class/complex has outstanding refs."
Outstanding(x) == x \in Documents /\ (0 < refs[x] \/ uriRefs[x] > 0)

\* Mutant: the destructor does not let go of the parent.
DestructKeepsParent(x) ==
  /\ refs' = [refs EXCEPT ![x] = 0] /\ Calls(<<>>)

\* ~Object(): the parent's counter goes down, and its __0() runs at zero.
Destruct(x) ==
  LET p == parent[x]
  IN  IF p = x THEN refs' = refs /\ Calls(<<>>)
      ELSE /\ refs' = [refs EXCEPT ![p] = @ - 1]
           /\ Calls(IF refs[p] = 1 THEN <<Task("zero", p, p)>> ELSE <<>>)

\* __0(). An element's arrays are freed without a look at what is in them.
Zero ==
  /\ Runs("zero")
  /\ LET x == Head(work).on
     IN  \/ x \notin alive /\ Fault("second deletion of an object")
         \/ /\ x \in alive /\ Outstanding(x)
            /\ Calls(<<>>)
            /\ UNCHANGED <<alive, counts, tree, client, listed, fault>>
         \/ /\ x \in alive /\ ~Outstanding(x)
            /\ Destruct(x)
            /\ alive' = alive \ {x}
            /\ parent' = [parent EXCEPT ![x] = x]
            /\ UNCHANGED <<content, client, listed, uriRefs, fault>>

\* The child is in the contents of its old parent, which nothing else refers to:
\* to let go of it there deletes it, with the child still to be taken out of it.
LosesSource(c, p) ==
  c \in content[parent[c]] /\ parent[c] # p /\ refs[parent[c]] = 1

\* Mutant: the new parent is not referenced.
ReparentUncounted ==
  /\ Runs("reparent")
  /\ LET c == Head(work).on
         p == Head(work).with
     IN  /\ dropped' = (dropped \/ LosesSource(c, p))
         /\ \/ ~({c, p} \subseteq alive) /\ Fault("a parent for or from a deleted object")
            \/ /\ {c, p} \subseteq alive
               /\ parent' = [parent EXCEPT ![c] = p]
               /\ Calls(<<Task("release", parent[c], parent[c])>>)
               /\ UNCHANGED <<alive, refs, content, client, listed, uriRefs, fault>>

\* _reparent_element_to_element(): the new parent is referenced before the old
\* one is released.
Reparent ==
  /\ Runs("reparent")
  /\ LET c == Head(work).on
         p == Head(work).with
     IN  /\ dropped' = (dropped \/ LosesSource(c, p))
         /\ \/ ~({c, p} \subseteq alive) /\ Fault("a parent for or from a deleted object")
            \/ /\ {c, p} \subseteq alive
               /\ refs' = [refs EXCEPT ![p] = @ + 1]
               /\ parent' = [parent EXCEPT ![c] = p]
               /\ Calls(<<Task("release", parent[c], parent[c])>>)
               /\ UNCHANGED <<alive, content, client, listed, uriRefs, fault>>

\* A slot that is new to the child: is_content, and a reference of its own.
Enter ==
  /\ Runs("enter")
  /\ LET c == Head(work).on
         p == Head(work).with
     IN  \/ ~({c, p} \subseteq alive) /\ Fault("contents of a deleted element")
         \/ /\ {c, p} \subseteq alive
            /\ content' = [content EXCEPT ![p] = @ \union {c}]
            /\ refs' = [refs EXCEPT ![c] = @ + 1]
            /\ Calls(<<>>)
            /\ UNCHANGED <<alive, parent, client, listed, uriRefs, fault>>

\* remove() and insert() of a move, with the reference handed over by the slots.
Hand ==
  /\ Runs("hand")
  /\ LET c == Head(work).on
         q == Head(work).with
         p == parent[c]
     IN  \/ ~({c, q, p} \subseteq alive) /\ Fault("contents of a deleted element")
         \/ /\ {c, q, p} \subseteq alive
            /\ content' = [[content EXCEPT ![q] = @ \ {c}] EXCEPT ![p] = @ \union {c}]
            /\ Calls(<<>>)
            /\ UNCHANGED <<alive, counts, parent, client, listed, fault>>

\* Mutant: nothing keeps the child through the notification.
VacateUnheld ==
  /\ Runs("vacate")
  /\ LET c == Head(work).on
         q == Head(work).with
     IN  \/ /\ ~({c, q} \subseteq alive) \/ refs[c] <= 1
            /\ Fault("this can't be the only reference")
         \/ /\ {c, q} \subseteq alive /\ refs[c] > 1
            /\ content' = [content EXCEPT ![q] = @ \ {c}]
            /\ Calls(<<Task("release", c, c)>>)
            /\ UNCHANGED <<alive, counts, parent, client, listed, fault>>

\* _remove_operation and _vacate_operation, under the reference of their caller
\* that keeps the child "viable through daeNoteChange()": the slot's reference
\* goes, which "can't be the only reference", then the caller's.
Vacate ==
  /\ Runs("vacate")
  /\ LET c == Head(work).on
         q == Head(work).with
     IN  \/ /\ ~({c, q} \subseteq alive) \/ refs[c] + 1 <= 1
            /\ Fault("this can't be the only reference")
         \/ /\ {c, q} \subseteq alive /\ refs[c] + 1 > 1
            /\ content' = [content EXCEPT ![q] = @ \ {c}]
            /\ Calls(<<Task("release", c, c)>>)
            /\ UNCHANGED <<alive, counts, parent, client, listed, fault>>

\* __clear2(): a child's descendants are cleared, then the child is vacated.
Clear ==
  /\ Runs("clear")
  /\ LET e == Head(work).on
     IN  \/ e \notin alive /\ Fault("contents of a deleted element")
         \/ e \in alive /\ content[e] = {} /\ Calls(<<>>) /\ UNCHANGED fault
         \/ /\ e \in alive
            /\ \E c \in content[e] :
                 Calls(<<Task("clear", c, c), Task("vacate", c, e), Task("clear", e, e)>>)
            /\ UNCHANGED fault
  /\ UNCHANGED <<alive, counts, tree, client, listed>>

\* Mutant: the loop does not get past a document that is held.
CompactStays ==
  /\ Runs("compact")
  /\ LET d == Head(work).on
     IN  \/ refs[d] > 1 /\ UNCHANGED <<work, listed>>
         \/ /\ refs[d] <= 1
            /\ listed' = [listed EXCEPT ![d] = "gone"]
            /\ Calls(<<Task("release", d, d)>>)
  /\ UNCHANGED <<alive, counts, tree, client, fault>>

\* _compactDocs(): the list lets go of a document it is the only one to hold.
Compact ==
  /\ Runs("compact")
  /\ LET d == Head(work).on
     IN  \/ refs[d] > 1 /\ Calls(<<>>) /\ UNCHANGED listed
         \/ /\ refs[d] <= 1
            /\ listed' = [listed EXCEPT ![d] = "gone"]
            /\ Calls(<<Task("release", d, d)>>)
  /\ UNCHANGED <<alive, counts, tree, client, fault>>

LibraryRuns ==
  \/ Reparent
  \/ /\ Release \/ ReleaseUri \/ Zero \/ Enter \/ Hand \/ Vacate \/ Clear \/ Compact
     /\ UNCHANGED dropped
-----------------------------------------------------------------------------
(* The calls of the client. *)

Starts(tasks) == work' = tasks /\ UNCHANGED <<alive, counts, tree>>

\* The smallest set around `from' that has the parents, or the contents, of its members.
Upward(from) ==
  {x \in Objects : \A S \in SUBSET Objects :
     from \subseteq S /\ (\A y \in S : parent[y] \in S) => x \in S}

Downward(from) ==
  {x \in Objects : \A S \in SUBSET Objects :
     from \subseteq S /\ (\A y \in S : content[y] \subseteq S) => x \in S}

\* What a client gets to from the open documents and from what it holds.
InReach ==
  Downward(Upward({x \in Objects : held[x] > 0}
                  \union {d \in Documents : listed[d] = "open" \/ uriHeld[d] > 0}))

\* add() without placement, or add() into the contents of p.
Create(p, e) ==
  /\ p \in InReach /\ e \notin alive
  /\ alive' = alive \union {e}
  /\ parent' = [parent EXCEPT ![e] = p]
  /\ refs' = [refs EXCEPT ![e] = 1, ![p] = @ + 1]
  /\ \/ /\ held' = [held EXCEPT ![e] = 1]
        /\ content' = [content EXCEPT ![e] = {}]
     \/ /\ content' = [content EXCEPT ![e] = {}, ![p] = @ \union {e}]
        /\ UNCHANGED held
  /\ UNCHANGED <<listed, uriRefs, uriHeld, work>>

Hold(x) ==
  /\ x \in InReach /\ held[x] < MaxHeld
  /\ held' = [held EXCEPT ![x] = @ + 1]
  /\ refs' = [refs EXCEPT ![x] = @ + 1]
  /\ UNCHANGED <<alive, tree, listed, uriRefs, uriHeld, work>>

HoldUri(d) ==
  /\ d \in InReach /\ uriHeld[d] < MaxHeld
  /\ uriHeld' = [uriHeld EXCEPT ![d] = @ + 1]
  /\ uriRefs' = [uriRefs EXCEPT ![d] = @ + 1]
  /\ UNCHANGED <<alive, tree, listed, refs, held, work>>

Drop(x) ==
  /\ held[x] > 0
  /\ held' = [held EXCEPT ![x] = @ - 1]
  /\ Starts(<<Task("release", x, x)>>)
  /\ UNCHANGED <<uriHeld, listed>>

DropUri(d) ==
  /\ uriHeld[d] > 0
  /\ uriHeld' = [uriHeld EXCEPT ![d] = @ - 1]
  /\ Starts(<<Task("release uri", d, d)>>)
  /\ UNCHANGED <<held, listed>>

\* "Databases MUST IMPLEMENT CYCLE CHECKS", and the built-in one does not: that no
\* element becomes its own ancestor is up to the client here. It is not only about
\* trees: a removed element keeps its parent, so to put that parent into it makes a
\* cycle that is never freed. A move out of a document halts the program (see
\* Elements).
Placeable(p, c) ==
  /\ {p, c} \subseteq InReach
  /\ c \notin Upward({p})
  /\ InContent(c) => parent[c] \in Elements

\* The decision is made by isContent(), when it is the child's turn.
Placing(p, c) ==
  <<Task("reparent", c, p),
    IF InContent(c) THEN Task("hand", c, parent[c]) ELSE Task("enter", c, p)>>

Place(p, c) ==
  /\ Placeable(p, c)
  /\ Starts(Placing(p, c)) /\ UNCHANGED <<client, listed>>

\* _setWID3(): what the slot holds is vacated and let go of, then c is placed.
Replace(p, x, c) ==
  /\ Placeable(p, c) /\ x \in content[p] \ {c}
  /\ Starts(<<Task("vacate", x, p)>> \o Placing(p, c)) /\ UNCHANGED <<client, listed>>

RemoveChild(c) ==
  /\ c \in InReach /\ InContent(c)
  /\ Starts(<<Task("vacate", c, parent[c])>>) /\ UNCHANGED <<client, listed>>

ClearContents(e) ==
  /\ e \in InReach
  /\ Starts(<<Task("clear", e, e)>>) /\ UNCHANGED <<client, listed>>

\* Closing atomizes the document and compacts the list of the closed ones.
CloseDocument(d) ==
  /\ listed[d] = "open"
  /\ listed' = [listed EXCEPT ![d] = "closed"]
  /\ Starts(<<Task("clear", d, d), Task("compact", d, d)>>) /\ UNCHANGED client

\* clear_closedDocs()
CompactClosed(d) ==
  /\ listed[d] = "closed"
  /\ Starts(<<Task("compact", d, d)>>) /\ UNCHANGED <<client, listed>>

ClientCalls ==
  /\ fault = "" /\ work = <<>> /\ UNCHANGED <<fault, dropped>>
  /\ \/ \E p \in Objects, e \in Elements : Create(p, e) \/ Place(p, e)
     \/ \E p \in Objects, x, c \in Elements : Replace(p, x, c)
     \/ \E x \in Objects : Hold(x) \/ Drop(x)
     \/ \E c \in Elements : RemoveChild(c) \/ ClearContents(c)
     \/ \E d \in Documents : HoldUri(d) \/ DropUri(d) \/ CloseDocument(d) \/ CompactClosed(d)

ReferencesNext == LibraryRuns \/ ClientCalls

\* A call that has begun runs on: nothing in it waits.
ReferencesSpec ==
  ReferencesInit /\ [][ReferencesNext]_referencesVars /\ WF_referencesVars(LibraryRuns)
-----------------------------------------------------------------------------
(* Properties *)

Pending(name, x) == Cardinality({i \in DOMAIN work : work[i].name = name /\ work[i].on = x})

\* Every counter is the number of those who count, after every step: the client's
\* references, the list's, the slot's, the children's, and the references on the
\* C++ stack that the rest of the call releases. (A source that a move let go of is
\* deleted with a child in its contents, and what its slot counts is lost.)
Counted ==
  fault = "" /\ ~dropped =>
    /\ \A x \in alive :
         refs[x] = held[x]
                   + (IF x \in Documents /\ listed[x] # "gone" THEN 1 ELSE 0)
                   + Cardinality({e \in alive : x \in content[e]})
                   + Cardinality(Children(x)) + Pending("release", x)
    /\ \A d \in Documents \intersect alive : uriRefs[d] = uriHeld[d] + Pending("release uri", d)

\* Nothing refers to a deleted object: no reference of the client or of the list,
\* no slot, no parent; and no call in progress trips over one, fails the assertion
\* that a removed child is held elsewhere, or deletes an object twice. There is one
\* thing that can make it so: a move out of contents that nothing else refers to.
NeverDangling ==
  ~dropped =>
    /\ fault = ""
    /\ \A x \in Objects \ alive : held[x] = 0 /\ content[x] = {}
    /\ \A d \in Documents \ alive : listed[d] = "gone" /\ uriHeld[d] = 0
    /\ \A x \in alive : parent[x] \in alive /\ content[x] \subseteq alive

\* Between calls, what is left is what somebody refers to: every living object is
\* held, listed, in a contents-array, or above something that is. Only a tree that was
\* never cleared can leak.
OnlyTreesLeak ==
  work = <<>> /\ fault = "" =>
    alive \subseteq
      Upward({x \in alive : \/ held[x] > 0 \/ InContent(x)
                           \/ (x \in Documents /\ (listed[x] # "gone" \/ uriHeld[x] > 0))})

\* However long the cascade of deletions and clearings, the call returns.
CallsReturn == work # <<>> ~> work = <<>>
=============================================================================
