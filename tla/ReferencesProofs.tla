-------------------------- MODULE ReferencesProofs --------------------------
(***************************************************************************)
(* Proofs about References, for any number of elements and documents, and  *)
(* for cascades of any depth: counters count, nothing that is referred to  *)
(* is deleted, and between calls only what somebody refers to is left.     *)
(*                                                                         *)
(* The inductive invariant has two sides. RefsInv holds until a move lets   *)
(* go of the last reference to the element it takes the child out of:      *)
(* Forest says what the tree is like, also half way through a move; Counts *)
(* is the property of counters; Due says that what reached zero is being   *)
(* deleted. The rest is about the stack: TasksOK is what each task relies  *)
(* on, and what protects the objects it names from the deletions before    *)
(* its turn; Shape and Ordered are about its place among the others, and   *)
(* SourceOK about the source of a move. Doomed holds after such a move, on *)
(* every path it can take from there.                                      *)
(***************************************************************************)
EXTENDS References, FiniteSetTheorems, SequenceTheorems, TLAPS

TaskNames == {"release", "release uri", "zero", "reparent", "enter", "hand",
              "vacate", "clear", "compact"}
Tasks == [name : TaskNames, on : Objects, with : Objects]

Typed == StateTypeOK /\ work \in Seq(Tasks)

Closure(f, from) ==
  {x \in Objects : \A S \in SUBSET Objects :
     from \subseteq S /\ (\A y \in S : f[y] \in S) => x \in S}

On(w) == {w[i] : i \in DOMAIN w}

SlotsOf(c) == {e \in alive : c \in content[e]}

Forest ==
  /\ fault = ""
  /\ \A x \in alive : parent[x] \in alive /\ content[x] \subseteq alive
  /\ \A x \in Objects \ alive : parent[x] = x /\ content[x] = {} /\ held[x] = 0
  /\ \A d \in Documents \ alive : listed[d] = "gone" /\ uriHeld[d] = 0
  /\ \A d \in Documents : parent[d] = d
  /\ \A e \in Elements \intersect alive : e \notin Closure(parent, {parent[e]})
  /\ \A e \in Objects : \A c \in content[e] :
       /\ parent[c] = e \/ Task("hand", c, e) \in On(work)
       /\ \A g \in Objects : c \in content[g] => g = e

\* What counts on x: the client and the list; these, the slots and the children; and the stack.
Kept(x) == held[x] + (IF x \in Documents /\ listed[x] # "gone" THEN 1 ELSE 0)

Slots(x) == Cardinality(SlotsOf(x))
Kids(x) == Cardinality(Children(x))
Stacked(x) == Pending("release", x)

Fixed(x) == Kept(x) + Slots(x) + Kids(x)

Referred(x) == Fixed(x) + Stacked(x)

Counts ==
  /\ \A x \in alive : refs[x] = Referred(x)
  /\ \A d \in Documents \intersect alive : uriRefs[d] = uriHeld[d] + Pending("release uri", d)

\* What keeps x from being deleted, whoever else lets go of it.
Needed(x) == refs[x] > 0 \/ (x \in Documents /\ uriRefs[x] > 0)

Due == \A x \in alive : Needed(x) \/ (work # <<>> /\ Head(work) = Task("zero", x, x))

Roots ==
  {x \in alive : held[x] > 0 \/ (x \in Documents /\ (listed[x] # "gone" \/ uriHeld[x] > 0))}

\* What stays for the rest of the call unless the call itself takes it out of a slot.
Protected(x) == x \in alive /\ (x \in Closure(parent, Roots) \/ SlotsOf(x) # {})

TaskOK(t) ==
  /\ t.name = "release" => t.on \in alive
  /\ t.name = "release uri" => t.on \in Documents \intersect alive
  /\ t.name = "zero" => t.on \in alive /\ (t.on \in Elements => refs[t.on] = 0)
  /\ t.name = "reparent" =>
       /\ t.on \in Elements /\ t.on \notin Closure(parent, {t.with})
       /\ Protected(t.on) /\ Protected(t.with)
  /\ t.name = "enter" =>
       /\ t.on \in Elements /\ Protected(t.on) /\ SlotsOf(t.on) = {}
       /\ parent[t.on] = t.with \/ \E u \in On(work) : u.name = "reparent"
       /\ \A u \in On(work) : u.name = "reparent" => u.with = t.with
  /\ t.name = "hand" => t.on \in content[t.with] /\ t.with \in Elements
  /\ t.name = "vacate" => t.on \in content[t.with] /\ parent[t.on] = t.with
  /\ t.name = "clear" => Protected(t.on)
  /\ t.name = "compact" => t.on \in Documents /\ listed[t.on] # "gone"

TasksOK == \A t \in On(work) : TaskOK(t)

Places(t) == t.name \in {"reparent", "enter", "hand"}
Clears(t) == t.name \in {"vacate", "clear"}

\* The element whose contents are cleared.
Cleared(t) == IF t.name = "vacate" THEN t.with ELSE t.on

\* The place of a task on the stack w.
ShapeOf(w) ==
  /\ \A i \in DOMAIN w :
       /\ w[i].name = "zero" => i = 1
       /\ w[i].name \in {"enter", "hand", "compact"} => i = Len(w)
       /\ w[i].name = "reparent" =>
            i = Len(w) - 1 /\ w[i].on = w[Len(w)].on /\ w[Len(w)].name \in {"enter", "hand"}
  /\ \A i, j \in DOMAIN w : w[i].name = "clear" => ~Places(w[j])

\* A clearing works its way down: what is below on the stack is above in the tree. And what
\* is vacated for another child is neither that child nor where it goes.
Precedes(f, t, u) ==
  Clears(t) => /\ Clears(u) => u.on \in Closure(f, {Cleared(t)})
               /\ Places(u) => t.on # u.on
               /\ u.name = "reparent" => t.on # u.with

OrderedBy(f, w) == \A i, j \in DOMAIN w : i < j => Precedes(f, w[i], w[j])

Shape == ShapeOf(work)
Ordered == OrderedBy(parent, work)

RefsInv == Typed /\ Forest /\ Counts /\ Due /\ TasksOK /\ Shape /\ Ordered

\* The contents that a child is taken out of are its parent's; or the child has got its new
\* parent, the old one is being let go of, and something else refers to it.
SourceOK ==
  \A t \in On(work) : t.name = "hand" /\ parent[t.on] # t.with =>
    /\ Fixed(t.with) > 0
    /\ \A u \in On(work) : u = t \/ (u.name = "release" /\ u.on = t.with)

\* Nothing else refers to it, and the call ends in a fault: the source is deleted before the
\* child is taken out of it.
Doomed ==
  fault = "" => \E c, q \in Elements : LET h == Task("hand", c, q) IN
    \/ work = <<Task("release", q, q), h>> /\ refs[q] = 1
    \/ work = <<Task("zero", q, q), h>>
    \/ q \notin alive /\ (work = <<h>> \/ \E x : work = <<Task("zero", x, x), h>>)

EitherInv == dropped \in BOOLEAN /\ (IF dropped THEN Doomed ELSE RefsInv /\ SourceOK)
-----------------------------------------------------------------------------
(* What is above in a tree, for any function that gives each object a parent. *)

Parents == [Objects -> Objects]

LEMMA UpwardIs == \A from : Upward(from) = Closure(parent, from)
BY DEF Upward, Closure

LEMMA UpwardWillBe == \A from : Upward(from)' = Closure(parent', from')
BY DEF Upward, Closure

LEMMA ClosureCloses ==
  ASSUME NEW f \in Parents, NEW from \in SUBSET Objects
  PROVE  /\ from \subseteq Closure(f, from) /\ Closure(f, from) \subseteq Objects
         /\ \A y \in Closure(f, from) : f[y] \in Closure(f, from)
BY DEF Closure, Parents

LEMMA ClosureLeast ==
  ASSUME NEW f, NEW from, NEW S \in SUBSET Objects, from \subseteq S, \A y \in S : f[y] \in S
  PROVE  Closure(f, from) \subseteq S
BY DEF Closure

\* What is above something is one of them, or the parent of another one above it.
LEMMA ClosureFrom ==
  ASSUME NEW f \in Parents, NEW from \in SUBSET Objects, NEW x \in Closure(f, from), x \notin from
  PROVE  \E y \in Closure(f, from) : f[y] = x /\ y # x
<1> SUFFICES ASSUME \A y \in Closure(f, from) : f[y] = x => y = x PROVE FALSE
  OBVIOUS
<1> DEFINE S == Closure(f, from) \ {x}
<1>1. S \in SUBSET Objects /\ from \subseteq S /\ \A y \in S : f[y] \in S
  BY ClosureCloses
<1> QED BY <1>1, ClosureLeast

LEMMA ClosureChain ==
  ASSUME NEW f \in Parents, NEW from \in SUBSET Objects, NEW y \in Closure(f, from)
  PROVE  Closure(f, {y}) \subseteq Closure(f, from)
BY ClosureCloses, ClosureLeast

LEMMA ClosureGrows ==
  ASSUME NEW f \in Parents, NEW from \in SUBSET Objects, NEW more \in SUBSET Objects,
         from \subseteq more
  PROVE  Closure(f, from) \subseteq Closure(f, more)
BY ClosureCloses, ClosureLeast

\* A change outside of what is above does not matter.
LEMMA ClosureAside ==
  ASSUME NEW f \in Parents, NEW g \in Parents, NEW from \in SUBSET Objects, NEW x,
         \A y \in Objects : y # x => g[y] = f[y], x \notin Closure(f, from)
  PROVE  Closure(g, from) = Closure(f, from)
<1> DEFINE C == Closure(f, from)
           D == Closure(g, from)
<1>1. /\ from \subseteq C /\ C \subseteq Objects /\ \A y \in C : f[y] \in C
      /\ from \subseteq D /\ D \subseteq Objects /\ \A y \in D : g[y] \in D
  BY ClosureCloses
<1>2. D \subseteq C
  <2>1. \A y \in C : g[y] \in C
    BY <1>1
  <2> QED BY <1>1, <2>1, ClosureLeast
<1>3. C \subseteq D
  <2>1. \A y \in D : f[y] \in D
    BY <1>1, <1>2
  <2> QED BY <1>1, <2>1, ClosureLeast
<1> QED BY <1>2, <1>3

\* An object that moves with what is below it stays above that.
LEMMA ClosureStays ==
  ASSUME NEW f \in Parents, NEW g \in Parents, NEW from \in SUBSET Objects,
         NEW c \in Closure(f, from), \A y \in Objects : y # c => g[y] = f[y]
  PROVE  c \in Closure(g, from)
<1> SUFFICES ASSUME c \notin Closure(g, from) PROVE FALSE
  OBVIOUS
<1>1. Closure(f, from) = Closure(g, from)
  BY ClosureAside
<1> QED BY <1>1

\* To move c below p makes no cycle unless c is above p.
LEMMA ClosureMoved ==
  ASSUME NEW f \in Parents, NEW g \in Parents, NEW c \in Objects, NEW p \in Objects,
         g[c] = p, \A y \in Objects : y # c => g[y] = f[y], c \notin Closure(f, {p}),
         NEW e \in Objects, e # c => e \notin Closure(f, {f[e]})
  PROVE  e \notin Closure(g, {g[e]})
<1> DEFINE Above == Closure(f, {p})
           C == Closure(f, {f[e]})
<1>1. f[e] \in Objects
  BY DEF Parents
<1>2. Closure(g, {p}) = Above
  BY ClosureAside
<1>3. CASE e = c
  BY <1>2, <1>3
<1>4. CASE e # c /\ c \notin C
  <2>1. Closure(g, {f[e]}) = C
    BY <1>1, <1>4, ClosureAside
  <2> QED BY <1>4, <2>1
<1>5. CASE e # c /\ c \in C
  <2>1. /\ f[e] \in C /\ C \subseteq Objects /\ \A y \in C : f[y] \in C
        /\ p \in Above /\ Above \subseteq Objects /\ \A y \in Above : f[y] \in Above
    BY <1>1, ClosureCloses
  <2>2. \A y \in C \union Above : g[y] \in C \union Above
    BY <2>1
  <2>3. Closure(g, {f[e]}) \subseteq C \union Above
    <3> HIDE DEF C, Above
    <3>1. C \union Above \in SUBSET Objects /\ {f[e]} \subseteq C \union Above
      BY <2>1
    <3> QED BY <2>2, <3>1, ClosureLeast
  <2>4. e \notin Above
    <3> SUFFICES ASSUME e \in Above PROVE FALSE
      OBVIOUS
    <3>1. f[e] \in Above
      BY <2>1
    <3>2. C \subseteq Above
      BY <3>1, ClosureChain
    <3> QED BY <1>5, <3>2
  <2> QED BY <1>5, <2>3, <2>4
<1> QED BY <1>3, <1>4, <1>5
-----------------------------------------------------------------------------
(* What is on the stack. *)

PendingIn(s, name, x) == Cardinality({i \in DOMAIN s : s[i].name = name /\ s[i].on = x})

Is(t, name, x) == t.name = name /\ t.on = x

\* How many of a set of at most one task are like that.
Among(new, k, y) == IF \E u \in new : Is(u, k, y) THEN 1 ELSE 0

\* The stack w has those of s, and the new ones.
Adds(w, s, new) ==
  \A k, y : /\ PendingIn(w, k, y) \in Nat /\ PendingIn(s, k, y) \in Nat
            /\ PendingIn(w, k, y) = PendingIn(s, k, y) + Among(new, k, y)

LEMMA AmongIs ==
  /\ \A k, y : Among({}, k, y) = 0
  /\ \A t, k, y : /\ Is(t, k, y) => Among({t}, k, y) = 1
                  /\ ~Is(t, k, y) => Among({t}, k, y) = 0
BY DEF Among

LEMMA PendingNobody == \A name, x : PendingIn(<<>>, name, x) = 0
<1> TAKE name, x
<1>1. DOMAIN <<>> = {}
  OBVIOUS
<1> DEFINE S == {i \in DOMAIN <<>> : <<>>[i].name = name /\ <<>>[i].on = x}
<1>2. \A i : i \notin S
  BY <1>1
<1>3. S = {}
  BY <1>2
<1> QED BY <1>3, FS_EmptySet DEF PendingIn

LEMMA PendingTail ==
  ASSUME NEW s \in Seq(Tasks), s # <<>>, NEW name, NEW x
  PROVE  /\ PendingIn(s, name, x) \in Nat /\ PendingIn(Tail(s), name, x) \in Nat
         /\ PendingIn(s, name, x)
              = PendingIn(Tail(s), name, x) + (IF Is(Head(s), name, x) THEN 1 ELSE 0)
<1> DEFINE M(i) == s[i].name = name /\ s[i].on = x
           S == {i \in DOMAIN s : M(i)}
           T == {i \in DOMAIN Tail(s) : Tail(s)[i].name = name /\ Tail(s)[i].on = x}
           R == {i \in 2..Len(s) : M(i)}
           f == [i \in R |-> i - 1]
<1>1. /\ Len(s) \in Nat \ {0} /\ DOMAIN s = 1..Len(s) /\ DOMAIN Tail(s) = 1..(Len(s) - 1)
      /\ Head(s) = s[1] /\ \A i \in 1..(Len(s) - 1) : Tail(s)[i] = s[i + 1]
  OBVIOUS
<1>2. IsFiniteSet(R) /\ IsFiniteSet(S)
  <2>1. IsFiniteSet(1..Len(s)) /\ R \in SUBSET (1..Len(s)) /\ S \in SUBSET (1..Len(s))
    BY <1>1, FS_Interval
  <2> QED BY <2>1, FS_Subset
<1>3. f \in Bijection(R, T)
  <2>1. \A i \in R : i - 1 \in T
    BY <1>1
  <2>2. f \in [R -> T] /\ \A a, b \in R : f[a] = f[b] => a = b
    BY <2>1, <1>1
  <2>3. \A j \in T : j + 1 \in R /\ f[j + 1] = j
    BY <1>1
  <2> QED BY <2>2, <2>3 DEF Bijection, Injection, Surjection, IsInjective
<1>4. IsFiniteSet(T) /\ Cardinality(T) = Cardinality(R)
  <2>1. ExistsBijection(R, T)
    BY <1>3 DEF ExistsBijection
  <2> QED BY <2>1, <1>2, FS_Bijection
<1>5. Cardinality(R) \in Nat /\ Cardinality(S) \in Nat
  BY <1>2, FS_CardinalityType
<1>6. S = IF Is(Head(s), name, x) THEN R \union {1} ELSE R
  BY <1>1 DEF Is
<1>7. 1 \notin R
  BY <1>1
<1>8. Cardinality(S) = Cardinality(R) + (IF Is(Head(s), name, x) THEN 1 ELSE 0)
  <2> HIDE DEF S, R
  <2>1. Cardinality(R \union {1}) = Cardinality(R) + 1
    BY <1>2, <1>7, FS_AddElement
  <2> QED BY <1>5, <1>6, <2>1
<1> QED BY <1>4, <1>5, <1>8 DEF PendingIn

Put(t, s) == <<t>> \o s

LEMMA NothingFirst == \A s \in Seq(Tasks) : <<>> \o s = s
OBVIOUS

LEMMA AddsTail == ASSUME NEW s \in Seq(Tasks), s # <<>> PROVE Adds(s, Tail(s), {Head(s)})
<1> SUFFICES ASSUME NEW k, NEW y
             PROVE  /\ PendingIn(s, k, y) \in Nat /\ PendingIn(Tail(s), k, y) \in Nat
                    /\ PendingIn(s, k, y) = PendingIn(Tail(s), k, y) + Among({Head(s)}, k, y)
  BY DEF Adds
<1>1. Among({Head(s)}, k, y) = IF Is(Head(s), k, y) THEN 1 ELSE 0
  BY AmongIs
<1> QED BY <1>1, PendingTail

LEMMA AddsPut ==
  ASSUME NEW s \in Seq(Tasks), NEW t \in Tasks PROVE Adds(Put(t, s), s, {t})
<1>1. Put(t, s) \in Seq(Tasks) /\ Put(t, s) # <<>>
  BY DEF Put
<1>2. Head(Put(t, s)) = t /\ Tail(Put(t, s)) = s
  BY DEF Put
<1> QED BY <1>1, <1>2, AddsTail

LEMMA NothingMore == \A n \in Nat : n = n + 0
OBVIOUS

LEMMA AddsNothing == ASSUME NEW s \in Seq(Tasks), NEW t \in Tasks PROVE Adds(s, s, {})
<1> SUFFICES ASSUME NEW k, NEW y
             PROVE  /\ PendingIn(s, k, y) \in Nat
                    /\ PendingIn(s, k, y) = PendingIn(s, k, y) + Among({}, k, y)
  BY DEF Adds
<1>1. PendingIn(s, k, y) \in Nat
  BY AddsPut DEF Adds
<1>2. Among({}, k, y) = 0
  BY AmongIs
<1> QED BY <1>1, <1>2, NothingMore

LEMMA BothMore ==
  ASSUME NEW n \in Nat, NEW a, NEW b, NEW v, NEW w, v = n + a, w = n + b, a \in {0, 1}, b \in {0, 1}
  PROVE  w + a = v + b
OBVIOUS

\* One task is done, and others are put there.
LEMMA AddsAfter ==
  ASSUME NEW v, NEW s, NEW w, NEW old, NEW new, Adds(v, s, old), Adds(w, s, new), NEW k, NEW y
  PROVE  /\ PendingIn(v, k, y) \in Nat /\ PendingIn(w, k, y) \in Nat
         /\ PendingIn(w, k, y) + Among(old, k, y) = PendingIn(v, k, y) + Among(new, k, y)
<1>1. /\ PendingIn(v, k, y) \in Nat /\ PendingIn(w, k, y) \in Nat /\ PendingIn(s, k, y) \in Nat
      /\ PendingIn(v, k, y) = PendingIn(s, k, y) + Among(old, k, y)
      /\ PendingIn(w, k, y) = PendingIn(s, k, y) + Among(new, k, y)
  BY DEF Adds
<1>2. Among(old, k, y) \in {0, 1} /\ Among(new, k, y) \in {0, 1}
  BY DEF Among
<1> QED BY <1>1, <1>2, BothMore

LEMMA StackTop ==
  ASSUME NEW w \in Seq(Tasks), w # <<>>
  PROVE  /\ Head(w) \in Tasks /\ Tail(w) \in Seq(Tasks)
         /\ On(w) = {Head(w)} \union On(Tail(w)) /\ Head(w) \in On(w)
<1>1. /\ Len(w) \in Nat \ {0} /\ DOMAIN w = 1..Len(w) /\ DOMAIN Tail(w) = 1..(Len(w) - 1)
      /\ Head(w) = w[1] /\ Head(w) \in Tasks /\ Tail(w) \in Seq(Tasks)
      /\ \A i \in 1..(Len(w) - 1) : Tail(w)[i] = w[i + 1]
  OBVIOUS
<1>2. ASSUME NEW i \in 1..Len(w), i # 1 PROVE i - 1 \in DOMAIN Tail(w) /\ Tail(w)[i - 1] = w[i]
  BY <1>1, <1>2
<1>3. ASSUME NEW i \in 1..(Len(w) - 1) PROVE i + 1 \in DOMAIN w /\ Tail(w)[i] = w[i + 1]
  BY <1>1, <1>3
<1>4. \A t : t \in On(w) <=> t = Head(w) \/ t \in On(Tail(w))
  <2> TAKE t
  <2>1. t \in On(w) <=> \E i \in 1..Len(w) : t = w[i]
    BY <1>1 DEF On
  <2>2. t \in On(Tail(w)) <=> \E i \in 1..(Len(w) - 1) : t = Tail(w)[i]
    BY <1>1 DEF On
  <2>3. (\E i \in 1..(Len(w) - 1) : t = Tail(w)[i]) => \E i \in 1..Len(w) : t = w[i]
    BY <1>1, <1>3
  <2>4. (\E i \in 1..Len(w) : t = w[i]) => t = Head(w) \/ \E i \in 1..(Len(w) - 1) : t = Tail(w)[i]
    BY <1>1, <1>2
  <2>5. t = Head(w) => \E i \in 1..Len(w) : t = w[i]
    BY <1>1
  <2> QED BY <2>1, <2>2, <2>3, <2>4, <2>5
<1> QED BY <1>1, <1>4

LEMMA StackPush ==
  ASSUME NEW s \in Seq(Tasks), NEW t \in Tasks
  PROVE  /\ Put(t, s) \in Seq(Tasks) /\ Put(t, s) # <<>>
         /\ Head(Put(t, s)) = t /\ Tail(Put(t, s)) = s
         /\ On(Put(t, s)) = {t} \union On(s)
<1>1. /\ Put(t, s) \in Seq(Tasks) /\ Put(t, s) # <<>>
      /\ Head(Put(t, s)) = t /\ Tail(Put(t, s)) = s
  BY DEF Put
<1> QED BY <1>1, StackTop

LEMMA StackEmpty == On(<<>>) = {} /\ <<>> \in Seq(Tasks)
<1>1. DOMAIN <<>> = {}
  OBVIOUS
<1> QED BY <1>1 DEF On

NoZero(w) == \A t \in On(w) : t.name # "zero"

LEMMA ShapePop ==
  ASSUME NEW w \in Seq(Tasks), w # <<>>, ShapeOf(w)
  PROVE  ShapeOf(Tail(w)) /\ NoZero(Tail(w))
<1>1. /\ Len(w) \in Nat \ {0} /\ DOMAIN w = 1..Len(w) /\ DOMAIN Tail(w) = 1..(Len(w) - 1)
      /\ Len(Tail(w)) = Len(w) - 1 /\ \A i \in 1..(Len(w) - 1) : Tail(w)[i] = w[i + 1]
  OBVIOUS
<1>2. ASSUME NEW i \in DOMAIN Tail(w)
      PROVE  /\ Tail(w)[i].name # "zero"
             /\ Tail(w)[i].name \in {"enter", "hand", "compact"} => i = Len(Tail(w))
             /\ Tail(w)[i].name = "reparent" =>
                  /\ i = Len(Tail(w)) - 1 /\ Tail(w)[i].on = Tail(w)[Len(Tail(w))].on
                  /\ Tail(w)[Len(Tail(w))].name \in {"enter", "hand"}
  <2>1. i \in Nat \ {0} /\ i + 1 \in DOMAIN w /\ Tail(w)[i] = w[i + 1] /\ i <= Len(w) - 1
        /\ Len(Tail(w)) \in DOMAIN Tail(w) /\ Tail(w)[Len(Tail(w))] = w[Len(w)]
    BY <1>1, <1>2
  <2>2. /\ w[i + 1].name = "zero" => i + 1 = 1
        /\ w[i + 1].name \in {"enter", "hand", "compact"} => i + 1 = Len(w)
        /\ w[i + 1].name = "reparent" =>
             /\ i + 1 = Len(w) - 1 /\ w[i + 1].on = w[Len(w)].on
             /\ w[Len(w)].name \in {"enter", "hand"}
    BY <2>1 DEF ShapeOf
  <2>3. Tail(w)[i].name # "zero"
    BY <2>1, <2>2
  <2>a. Len(Tail(w)) = Len(w) - 1 /\ Len(w) \in Nat /\ i \in Nat
    BY <1>1, <2>1
  <2>b. (i + 1 = Len(w) => i = Len(Tail(w))) /\ (i + 1 = Len(w) - 1 => i = Len(Tail(w)) - 1)
    <3>1. \A n, m, k \in Int :
            m = n - 1 => (k + 1 = n => k = m) /\ (k + 1 = n - 1 => k = m - 1)
      OBVIOUS
    <3>2. Len(Tail(w)) \in Int /\ Len(w) \in Int /\ i \in Int
      BY <1>1, <2>a
    <3> QED BY <2>a, <3>1, <3>2
  <2>4. Tail(w)[i].name \in {"enter", "hand", "compact"} => i = Len(Tail(w))
    BY <2>b, <2>1, <2>2
  <2>5. Tail(w)[i].name = "reparent" =>
          /\ i = Len(Tail(w)) - 1 /\ Tail(w)[i].on = Tail(w)[Len(Tail(w))].on
          /\ Tail(w)[Len(Tail(w))].name \in {"enter", "hand"}
    BY <2>b, <2>1, <2>2
  <2> QED BY <2>3, <2>4, <2>5
<1>3. \A i, j \in DOMAIN Tail(w) : Tail(w)[i].name = "clear" => ~Places(Tail(w)[j])
  <2> TAKE i, j \in DOMAIN Tail(w)
  <2>1. i + 1 \in DOMAIN w /\ Tail(w)[i] = w[i + 1] /\ j + 1 \in DOMAIN w /\ Tail(w)[j] = w[j + 1]
    BY <1>1
  <2> QED BY <2>1 DEF ShapeOf
<1>4. NoZero(Tail(w))
  BY <1>2 DEF NoZero, On
<1> QED BY <1>2, <1>3, <1>4 DEF ShapeOf

LEMMA ShapeTop ==
  ASSUME NEW w \in Seq(Tasks), w # <<>>, ShapeOf(w)
  PROVE  /\ Head(w).name \in {"enter", "hand", "compact"} => Tail(w) = <<>>
         /\ Head(w).name = "reparent" =>
              \E t \in Tasks : Tail(w) = <<t>> /\ t.on = Head(w).on /\ t.name \in {"enter", "hand"}
         /\ Head(w).name = "clear" => \A t \in On(w) : ~Places(t)
<1>1. /\ Len(w) \in Nat \ {0} /\ DOMAIN w = 1..Len(w) /\ Head(w) = w[1] /\ 1 \in DOMAIN w
      /\ Len(Tail(w)) = Len(w) - 1 /\ Tail(w) \in Seq(Tasks)
      /\ \A i \in 1..(Len(w) - 1) : Tail(w)[i] = w[i + 1]
  OBVIOUS
<1>2. Head(w).name \in {"enter", "hand", "compact"} => Tail(w) = <<>>
  <2> SUFFICES ASSUME Head(w).name \in {"enter", "hand", "compact"} PROVE Tail(w) = <<>>
    OBVIOUS
  <2>1. Len(Tail(w)) = 0
    BY <1>1 DEF ShapeOf
  <2>2. \A q \in Seq(Tasks) : Len(q) = 0 => q = <<>>
    OBVIOUS
  <2> QED BY <1>1, <2>1, <2>2
<1>3. ASSUME Head(w).name = "reparent"
      PROVE  \E t \in Tasks : Tail(w) = <<t>> /\ t.on = Head(w).on /\ t.name \in {"enter", "hand"}
  <2>1. /\ Len(w) = 2 /\ w[1].on = w[2].on /\ w[2].name \in {"enter", "hand"}
    BY <1>1, <1>3 DEF ShapeOf
  <2>2. w[2] \in Tasks /\ Len(Tail(w)) = 1 /\ Tail(w)[1] = w[2]
    BY <1>1, <2>1
  <2>3. \A q \in Seq(Tasks) : Len(q) = 1 => q = <<q[1]>>
    OBVIOUS
  <2>4. Tail(w) = <<w[2]>>
    BY <1>1, <2>2, <2>3
  <2> QED BY <1>1, <2>1, <2>2, <2>4
<1>4. Head(w).name = "clear" => \A t \in On(w) : ~Places(t)
  BY <1>1 DEF ShapeOf, On
<1> QED BY <1>2, <1>3, <1>4

LEMMA PushedItems ==
  ASSUME NEW s \in Seq(Tasks), NEW t \in Tasks
  PROVE  /\ Len(s) \in Nat /\ DOMAIN s = 1..Len(s)
         /\ Len(Put(t, s)) = Len(s) + 1 /\ DOMAIN Put(t, s) = 1..(Len(s) + 1)
         /\ Put(t, s)[1] = t
         /\ \A i \in 1..(Len(s) + 1) :
              i # 1 => i - 1 \in 1..Len(s) /\ Put(t, s)[i] = s[i - 1]
<1> DEFINE w == <<t>> \o s
<1>1. w \in Seq(Tasks) /\ Len(s) \in Nat /\ DOMAIN s = 1..Len(s) /\ Len(w) = Len(s) + 1
  OBVIOUS
<1>2. w[1] = t
  OBVIOUS
<1>3. ASSUME NEW i \in 1..(Len(s) + 1), i # 1 PROVE i - 1 \in 1..Len(s) /\ w[i] = s[i - 1]
  <2>1. i - 1 \in 1..Len(s)
    BY <1>1, <1>3
  <2>2. i \in 1..(Len(<<t>>) + Len(s)) /\ i > Len(<<t>>) /\ Len(<<t>>) = 1
    BY <1>1, <1>3
  <2> QED BY <2>1, <2>2
<1> QED BY <1>1, <1>2, <1>3 DEF Put

LEMMA PushedPlaces ==
  ASSUME NEW n \in Nat, NEW k \in 1..(n + 1), k # 1
  PROVE  /\ k \in Nat /\ n # 0 /\ n + 1 \in 1..(n + 1) /\ n + 1 # 1 /\ (n + 1) - 1 = n
         /\ (k - 1 = n => k = n + 1) /\ (k - 1 = n - 1 => k = (n + 1) - 1)
OBVIOUS

LEMMA ShapePush ==
  ASSUME NEW s \in Seq(Tasks), NEW t \in Tasks, ShapeOf(s), NoZero(s),
         t.name \in {"release", "release uri", "zero", "vacate", "clear"},
         t.name = "clear" => \A u \in On(s) : ~Places(u)
  PROVE  ShapeOf(Put(t, s)) /\ (t.name # "zero" => NoZero(Put(t, s)))
<1> DEFINE w == Put(t, s)
<1>1. /\ Len(s) \in Nat /\ Len(w) = Len(s) + 1 /\ DOMAIN w = 1..Len(w) /\ DOMAIN s = 1..Len(s)
      /\ w[1] = t /\ \A i \in DOMAIN w : i # 1 => i - 1 \in DOMAIN s /\ w[i] = s[i - 1]
  BY PushedItems
<1> HIDE DEF w
<1>2. ASSUME NEW i \in DOMAIN w
      PROVE  /\ w[i].name = "zero" => i = 1
             /\ w[i].name \in {"enter", "hand", "compact"} => i = Len(w)
             /\ w[i].name = "reparent" =>
                  /\ i = Len(w) - 1 /\ w[i].on = w[Len(w)].on
                  /\ w[Len(w)].name \in {"enter", "hand"}
  <2>1. CASE i = 1
    BY <1>1, <2>1
  <2>2. CASE i # 1
    <3>a. Len(s) \in Nat /\ Len(w) = Len(s) + 1 /\ i \in 1..Len(w)
      BY <1>1, <1>2
    <3>b. i - 1 \in DOMAIN s /\ w[i] = s[i - 1]
      BY <1>1, <1>2, <2>2
    <3>c. /\ i \in Nat /\ Len(s) # 0 /\ Len(w) \in 1..Len(w) /\ Len(w) # 1 /\ Len(w) - 1 = Len(s)
          /\ (i - 1 = Len(s) => i = Len(w)) /\ (i - 1 = Len(s) - 1 => i = Len(w) - 1)
      <4>1. i \in 1..(Len(s) + 1) /\ i # 1
        BY <3>a, <2>2
      <4>2. /\ i \in Nat /\ Len(s) # 0 /\ Len(s) + 1 \in 1..(Len(s) + 1) /\ Len(s) + 1 # 1
            /\ (Len(s) + 1) - 1 = Len(s)
            /\ (i - 1 = Len(s) => i = Len(s) + 1) /\ (i - 1 = Len(s) - 1 => i = (Len(s) + 1) - 1)
        BY <3>a, <4>1, PushedPlaces
      <4>3. Len(w) = Len(s) + 1
        BY <3>a
      <4> QED BY ONLY <4>2, <4>3
    <3>1. i \in Nat /\ i - 1 \in DOMAIN s /\ w[i] = s[i - 1] /\ Len(s) # 0
      BY <3>b, <3>c
    <3>2. Len(s) \in DOMAIN s /\ w[Len(w)] = s[Len(s)]
      BY <1>1, <3>c
    <3>3. s[i - 1].name # "zero"
      BY <3>1 DEF On, NoZero
    <3>4. /\ s[i - 1].name \in {"enter", "hand", "compact"} => i - 1 = Len(s)
          /\ s[i - 1].name = "reparent" =>
               /\ i - 1 = Len(s) - 1 /\ s[i - 1].on = s[Len(s)].on
               /\ s[Len(s)].name \in {"enter", "hand"}
      BY <3>1 DEF ShapeOf
    <3>5. w[i].name \in {"enter", "hand", "compact"} => i = Len(w)
      BY <3>1, <3>4, <3>c
    <3>6. w[i].name = "reparent" => /\ i = Len(w) - 1 /\ w[i].on = w[Len(w)].on
                                    /\ w[Len(w)].name \in {"enter", "hand"}
      BY <3>1, <3>2, <3>4, <3>c
    <3> QED BY <3>1, <3>3, <3>5, <3>6
  <2> QED BY <2>1, <2>2
<1>3. ASSUME NEW i \in DOMAIN w, NEW j \in DOMAIN w, w[i].name = "clear" PROVE ~Places(w[j])
  <2>1. ~Places(t)
    BY DEF Places
  <2>2. CASE i = 1
    <3>1. t.name = "clear"
      BY <1>1, <1>3, <2>2
    <3>2. j # 1 => w[j] \in On(s)
      BY <1>1 DEF On
    <3> QED BY <1>1, <2>1, <3>1, <3>2
  <2>3. CASE i # 1 /\ j # 1
    BY <1>1, <1>3, <2>3 DEF ShapeOf
  <2> QED BY <1>1, <2>1, <2>2, <2>3
<1>4. t.name # "zero" => NoZero(w)
  BY StackPush DEF NoZero, w
<1> QED BY <1>2, <1>3, <1>4 DEF ShapeOf, w

LEMMA OrderedPop ==
  ASSUME NEW f, NEW w \in Seq(Tasks), w # <<>>, OrderedBy(f, w)
  PROVE  OrderedBy(f, Tail(w)) /\ \A t \in On(Tail(w)) : Precedes(f, Head(w), t)
<1>1. /\ Len(w) \in Nat \ {0} /\ DOMAIN w = 1..Len(w) /\ Head(w) = w[1] /\ 1 \in DOMAIN w
      /\ DOMAIN Tail(w) = 1..(Len(w) - 1)
      /\ \A i \in DOMAIN Tail(w) : i + 1 \in DOMAIN w /\ 1 < i + 1 /\ Tail(w)[i] = w[i + 1]
  OBVIOUS
<1>2. \A i, j \in DOMAIN Tail(w) : i < j => i + 1 < j + 1
  BY <1>1
<1>3. OrderedBy(f, Tail(w))
  BY <1>1, <1>2 DEF OrderedBy
<1>4. ASSUME NEW t \in On(Tail(w)) PROVE Precedes(f, Head(w), t)
  <2>1. PICK i \in DOMAIN Tail(w) : t = Tail(w)[i]
    BY DEF On
  <2>2. i + 1 \in DOMAIN w /\ 1 < i + 1 /\ t = w[i + 1]
    BY <1>1, <2>1
  <2> QED BY <1>1, <2>2 DEF OrderedBy
<1> QED BY <1>3, <1>4

LEMMA OrderedPush ==
  ASSUME NEW f, NEW s \in Seq(Tasks), NEW t \in Tasks, OrderedBy(f, s),
         \A u \in On(s) : Precedes(f, t, u)
  PROVE  OrderedBy(f, Put(t, s))
<1> DEFINE w == Put(t, s)
<1>1. /\ DOMAIN w = 1..(Len(s) + 1) /\ Len(s) \in Nat /\ w[1] = t
      /\ \A i \in DOMAIN w : i # 1 => i - 1 \in DOMAIN s /\ w[i] = s[i - 1]
  BY PushedItems
<1> HIDE DEF w
<1> SUFFICES ASSUME NEW i \in DOMAIN w, NEW j \in DOMAIN w, i < j PROVE Precedes(f, w[i], w[j])
  BY DEF OrderedBy, w
<1>2. j # 1 /\ w[j] \in On(s)
  BY <1>1 DEF On
<1>3. CASE i = 1
  BY <1>1, <1>2, <1>3
<1>4. CASE i # 1
  <2>1. i - 1 \in DOMAIN s /\ j - 1 \in DOMAIN s /\ i - 1 < j - 1
        /\ w[i] = s[i - 1] /\ w[j] = s[j - 1]
    BY <1>1, <1>2, <1>4
  <2> QED BY <2>1 DEF OrderedBy
<1> QED BY <1>3, <1>4

LEMMA OrderedMoved ==
  ASSUME NEW f, NEW g, NEW w \in Seq(Tasks), OrderedBy(f, w),
         \A t \in On(w) : Clears(t) => Closure(f, {Cleared(t)}) \subseteq Closure(g, {Cleared(t)})
  PROVE  OrderedBy(g, w)
BY DEF OrderedBy, Precedes, On

\* A stack of one task, and the last two of a placement.
LEMMA StackOne ==
  ASSUME NEW t \in Tasks
  PROVE  /\ <<t>> \in Seq(Tasks) /\ <<t>> # <<>> /\ Head(<<t>>) = t /\ On(<<t>>) = {t}
         /\ Put(t, <<>>) = <<t>>
         /\ t.name # "reparent" => ShapeOf(<<t>>) /\ (t.name # "zero" => NoZero(<<t>>))
         /\ \A f : OrderedBy(f, <<t>>)
<1>1. /\ <<t>> \in Seq(Tasks) /\ <<t>> # <<>> /\ Head(<<t>>) = t /\ DOMAIN <<t>> = {1}
      /\ <<t>>[1] = t /\ Len(<<t>>) = 1 /\ Put(t, <<>>) = <<t>>
  BY DEF Put
<1>2. On(<<t>>) = {t}
  BY <1>1 DEF On
<1>3. t.name # "reparent" => ShapeOf(<<t>>)
  BY <1>1 DEF ShapeOf, Places
<1>4. t.name # "zero" => NoZero(<<t>>)
  BY <1>2 DEF NoZero
<1>5. \A f : OrderedBy(f, <<t>>)
  BY <1>1 DEF OrderedBy
<1> QED BY <1>1, <1>2, <1>3, <1>4, <1>5

LEMMA StackPair ==
  ASSUME NEW t \in Tasks, NEW u \in Tasks, t.name = "reparent", u.name \in {"enter", "hand"},
         t.on = u.on
  PROVE  /\ <<t, u>> \in Seq(Tasks) /\ <<t, u>> # <<>> /\ On(<<t, u>>) = {t, u}
         /\ ShapeOf(<<t, u>>) /\ NoZero(<<t, u>>) /\ \A f : OrderedBy(f, <<t, u>>)
<1>1. /\ <<t, u>> \in Seq(Tasks) /\ <<t, u>> # <<>> /\ DOMAIN <<t, u>> = {1, 2}
      /\ <<t, u>>[1] = t /\ <<t, u>>[2] = u /\ Len(<<t, u>>) = 2
  OBVIOUS
<1>2. On(<<t, u>>) = {t, u}
  BY <1>1 DEF On
<1>3. ShapeOf(<<t, u>>)
  BY <1>1 DEF ShapeOf, Places
<1>4. NoZero(<<t, u>>)
  BY <1>2 DEF NoZero
<1>5. \A f : OrderedBy(f, <<t, u>>)
  BY <1>1 DEF OrderedBy, Precedes, Clears
<1> QED BY <1>1, <1>2, <1>3, <1>4, <1>5
-----------------------------------------------------------------------------
(* What the counters and the tree say of each other. *)

LEMMA FiniteObjects == IsFiniteSet(Objects) /\ Documents \subseteq Objects /\ Elements \subseteq Objects
BY ReferencesAssumption, FS_Union DEF Objects

LEMMA SomeOf ==
  ASSUME NEW S \in SUBSET Objects
  PROVE  IsFiniteSet(S) /\ Cardinality(S) \in Nat /\ (S # {} => Cardinality(S) > 0)
<1>1. IsFiniteSet(S)
  BY FiniteObjects, FS_Subset
<1>2. Cardinality(S) \in Nat /\ (Cardinality(S) = 0 <=> S = {})
  BY <1>1, FS_CardinalityType, FS_EmptySet
<1> QED BY <1>1, <1>2

LEMMA OneMore ==
  ASSUME NEW S \in SUBSET Objects, NEW x \in Objects, x \notin S
  PROVE  Cardinality(S \union {x}) = Cardinality(S) + 1
BY SomeOf, FS_AddElement

LEMMA OneLess ==
  ASSUME NEW S \in SUBSET Objects, NEW x \in S
  PROVE  Cardinality(S \ {x}) = Cardinality(S) - 1
BY SomeOf, FS_RemoveElement

LEMMA JustOne ==
  ASSUME NEW x \in Objects
  PROVE  Cardinality({x}) = 1 /\ Cardinality({}) = 0
BY FS_Singleton, FS_EmptySet

\* What the counts are made of are numbers.
LEMMA CountsAreNat ==
  Typed => \A x \in Objects :
    /\ SlotsOf(x) \in SUBSET Objects /\ Cardinality(SlotsOf(x)) \in Nat
    /\ Children(x) \in SUBSET Objects /\ Cardinality(Children(x)) \in Nat
    /\ Pending("release", x) \in Nat /\ Pending("release uri", x) \in Nat
    /\ held[x] \in Nat /\ (x \in Documents => uriHeld[x] \in Nat)
<1> SUFFICES ASSUME Typed, NEW x \in Objects
             PROVE  /\ SlotsOf(x) \in SUBSET Objects /\ Cardinality(SlotsOf(x)) \in Nat
                    /\ Children(x) \in SUBSET Objects /\ Cardinality(Children(x)) \in Nat
                    /\ Pending("release", x) \in Nat /\ Pending("release uri", x) \in Nat
                    /\ held[x] \in Nat /\ (x \in Documents => uriHeld[x] \in Nat)
  OBVIOUS
<1>1. SlotsOf(x) \in SUBSET Objects /\ Children(x) \in SUBSET Objects
  BY DEF Typed, StateTypeOK, SlotsOf, Children
<1>2. Cardinality(SlotsOf(x)) \in Nat /\ Cardinality(Children(x)) \in Nat
  BY <1>1, SomeOf
<1>3. Pending("release", x) \in Nat /\ Pending("release uri", x) \in Nat
  <2>1. Task("release", x, x) \in Tasks
    BY DEF Task, Tasks, TaskNames
  <2>2. work \in Seq(Tasks)
    BY DEF Typed
  <2>3. PendingIn(work, "release", x) \in Nat /\ PendingIn(work, "release uri", x) \in Nat
    BY <2>1, <2>2, AddsNothing DEF Adds
  <2> QED BY <2>3 DEF Pending, PendingIn
<1>4. held[x] \in Nat /\ (x \in Documents => uriHeld[x] \in Nat)
  BY ReferencesAssumption DEF Typed, StateTypeOK
<1> QED BY <1>1, <1>2, <1>3, <1>4

\* Whoever is counted on is needed.
LEMMA ReferredIsNeeded ==
  ASSUME Typed, Counts, NEW x \in alive
  PROVE  /\ refs[x] \in Nat
         /\ \/ held[x] > 0 \/ SlotsOf(x) # {} \/ Children(x) # {}
            \/ Pending("release", x) > 0 \/ (x \in Documents /\ listed[x] # "gone")
            => refs[x] > 0
         /\ x \in Documents =>
              uriRefs[x] \in Nat /\ (uriHeld[x] > 0 \/ Pending("release uri", x) > 0 => uriRefs[x] > 0)
<1> DEFINE h == held[x]
           d == IF x \in Documents /\ listed[x] # "gone" THEN 1 ELSE 0
           s == Cardinality(SlotsOf(x))
           k == Cardinality(Children(x))
           r == Pending("release", x)
           u == uriHeld[x]
           v == Pending("release uri", x)
<1>1. x \in Objects
  BY DEF Typed, StateTypeOK
<1>2. h \in Nat /\ s \in Nat /\ k \in Nat /\ r \in Nat /\ d \in {0, 1}
  BY <1>1, CountsAreNat
<1>3. refs[x] = h + d + s + k + r
  BY DEF Counts, Referred, Fixed, Kept, Slots, Kids, Stacked
<1>4. (SlotsOf(x) # {} => s > 0) /\ (Children(x) # {} => k > 0)
  BY <1>1, CountsAreNat, SomeOf
<1>5. x \in Documents /\ listed[x] # "gone" => d > 0
  OBVIOUS
<1>6. x \in Documents => uriRefs[x] = u + v /\ u \in Nat /\ v \in Nat
  BY <1>1, CountsAreNat DEF Counts
<1> HIDE DEF h, d, s, k, r, u, v
<1>7. x \in Documents => uriRefs[x] \in Nat /\ (u > 0 \/ v > 0 => uriRefs[x] > 0)
  BY <1>6
<1>8. refs[x] \in Nat /\ (h > 0 \/ d > 0 \/ s > 0 \/ k > 0 \/ r > 0 => refs[x] > 0)
  BY <1>2, <1>3
<1> QED BY <1>4, <1>5, <1>7, <1>8 DEF h, r, u, v

LEMMA AboveIsAlive ==
  ASSUME Typed, Forest, NEW from \in SUBSET alive
  PROVE  Closure(parent, from) \subseteq alive
<1>1. alive \in SUBSET Objects /\ \A y \in alive : parent[y] \in alive
  BY DEF Typed, StateTypeOK, Forest
<1> QED BY <1>1, ClosureLeast

\* Nothing lives below what has no children.
LEMMA Leaf ==
  ASSUME Typed, Forest, NEW x \in Objects, Children(x) = {}, NEW from \in SUBSET alive, x \notin from
  PROVE  x \notin Closure(parent, from)
<1> SUFFICES ASSUME x \in Closure(parent, from) PROVE FALSE
  OBVIOUS
<1>1. parent \in Parents /\ from \in SUBSET Objects
  BY DEF Typed, StateTypeOK, Parents
<1>2. PICK y \in Closure(parent, from) : parent[y] = x /\ y # x
  BY <1>1, ClosureFrom
<1>3. y \in alive
  BY AboveIsAlive
<1> QED BY <1>2, <1>3 DEF Children

\* What is protected is needed.
LEMMA Survivor ==
  ASSUME Typed, Forest, Counts, NEW x, Protected(x)
  PROVE  x \in alive /\ Needed(x)
<1>1. x \in alive
  BY DEF Protected
<1>2. CASE SlotsOf(x) # {}
  BY <1>1, <1>2, ReferredIsNeeded DEF Needed
<1>3. CASE x \in Roots
  BY <1>1, <1>3, ReferredIsNeeded DEF Roots, Needed
<1>4. CASE x \in Closure(parent, Roots) /\ x \notin Roots
  <2>1. parent \in Parents /\ Roots \in SUBSET alive /\ Roots \in SUBSET Objects
    BY DEF Typed, StateTypeOK, Parents, Roots
  <2>2. PICK y \in Closure(parent, Roots) : parent[y] = x /\ y # x
    BY <1>4, <2>1, ClosureFrom
  <2>3. y \in Children(x)
    BY <2>1, <2>2, AboveIsAlive DEF Children
  <2> QED BY <1>1, <2>3, ReferredIsNeeded DEF Needed
<1> QED BY <1>1, <1>2, <1>3, <1>4 DEF Protected
-----------------------------------------------------------------------------
(* What a task leaves on the stack. *)

LEMMA Popped ==
  ASSUME Typed, Shape, Ordered, work # <<>>
  PROVE  /\ Tail(work) \in Seq(Tasks) /\ ShapeOf(Tail(work)) /\ NoZero(Tail(work))
         /\ OrderedBy(parent, Tail(work))
         /\ Head(work) \in Tasks /\ Head(work) \in On(work)
         /\ On(work) = {Head(work)} \union On(Tail(work))
         /\ \A t \in On(Tail(work)) : t.name # "zero" /\ Precedes(parent, Head(work), t)
         /\ Adds(work, Tail(work), {Head(work)})
<1>1. work \in Seq(Tasks) /\ ShapeOf(work) /\ OrderedBy(parent, work)
  BY DEF Typed, Shape, Ordered
<1>2. Adds(work, Tail(work), {Head(work)})
  BY <1>1, AddsTail
<1>3. ShapeOf(Tail(work)) /\ NoZero(Tail(work))
  BY <1>1, ShapePop
<1>4. /\ OrderedBy(parent, Tail(work))
      /\ \A t \in On(Tail(work)) : Precedes(parent, Head(work), t)
  BY <1>1, OrderedPop
<1> QED BY <1>1, <1>2, <1>3, <1>4, StackTop DEF NoZero

LEMMA Called ==
  ASSUME NEW s \in Seq(Tasks), ShapeOf(s), NoZero(s), NEW t \in Tasks,
         t.name \in {"release", "release uri", "zero"}, NEW new \in SUBSET {t}, NEW w,
         new = {t} => w = Put(t, s), new = {} => w = s
  PROVE  /\ w \in Seq(Tasks) /\ ShapeOf(w) /\ \A f : OrderedBy(f, s) => OrderedBy(f, w)
         /\ On(s) \subseteq On(w) /\ On(w) \subseteq {t} \union On(s)
         /\ new = {t} => w # <<>> /\ Head(w) = t
         /\ new = {} => On(w) = On(s)
         /\ Adds(w, s, new)
<1>1. CASE new = {}
  <2>1. w = s
    BY <1>1
  <2>2. Adds(w, s, new)
    BY <1>1, <2>1, AddsNothing
  <2> QED BY <1>1, <2>1, <2>2
<1>2. CASE new = {t}
  <2>0. w = Put(t, s)
    BY <1>2
  <2>1. w \in Seq(Tasks) /\ w # <<>> /\ Head(w) = t /\ On(w) = {t} \union On(s)
    BY <2>0, StackPush
  <2>2. ShapeOf(w)
    BY <2>0, ShapePush
  <2>3. \A f : OrderedBy(f, s) => OrderedBy(f, w)
    <3>1. \A f, u : Precedes(f, t, u)
      BY DEF Precedes, Clears
    <3> QED BY <2>0, <3>1, OrderedPush
  <2>4. Adds(w, s, new)
    BY <1>2, <2>0, AddsPut
  <2> QED BY <1>2, <2>1, <2>2, <2>3, <2>4
<1> QED BY <1>1, <1>2

LEMMA TasksAre ==
  ASSUME NEW name \in TaskNames, NEW x \in Objects, NEW y \in Objects
  PROVE  /\ Task(name, x, y) \in Tasks /\ Task(name, x, y).name = name
         /\ Task(name, x, y).on = x /\ Task(name, x, y).with = y
BY DEF Task, Tasks

\* The types of a step, from those of the stack.
LEMMA TypedAgain ==
  ASSUME work' \in Seq(Tasks),
         alive' \subseteq Objects, refs' \in [Objects -> Int], uriRefs' \in [Documents -> Int],
         parent' \in [Objects -> Objects], content' \in [Objects -> SUBSET Elements],
         held' \in [Objects -> 0..MaxHeld], uriHeld' \in [Documents -> 0..MaxHeld],
         listed' \in [Documents -> {"open", "closed", "gone"}], fault' \in Faults
  PROVE  Typed'
<1>1. ASSUME NEW w \in Seq(Tasks), NEW i \in DOMAIN w PROVE {w[i].on, w[i].with} \subseteq Objects
  <2>1. w[i] \in Tasks
    OBVIOUS
  <2> QED BY <2>1 DEF Tasks
<1> QED BY <1>1 DEF Typed, StateTypeOK

LEMMA SameTree ==
  ASSUME UNCHANGED <<alive, tree, client, listed>>
  PROVE  /\ \A x : /\ SlotsOf(x)' = SlotsOf(x) /\ Children(x)' = Children(x)
                   /\ Protected(x)' = Protected(x)
BY DEF tree, client, SlotsOf, Children, Protected, Roots

\* A task that waits is not disturbed by a step that leaves the tree and the client alone.
LEMMA StillOK ==
  ASSUME UNCHANGED <<alive, tree, client, listed>>, NEW t, TaskOK(t), t.name # "zero",
         \A u : u.name = "reparent" => (u \in On(work') <=> u \in On(work))
  PROVE  TaskOK(t)'
<1>1. \A x : SlotsOf(x)' = SlotsOf(x) /\ Protected(x)' = Protected(x)
  BY SameTree
<1>2. /\ alive' = alive /\ parent' = parent /\ content' = content /\ held' = held
      /\ listed' = listed
  BY DEF tree, client
<1>3. ASSUME t.name = "reparent" PROVE TaskOK(t)'
  BY <1>1, <1>2, <1>3 DEF TaskOK
<1>4. ASSUME t.name = "enter" PROVE TaskOK(t)'
  BY <1>1, <1>2, <1>4 DEF TaskOK
<1>5. ASSUME t.name \notin {"reparent", "enter"} PROVE TaskOK(t)'
  BY <1>1, <1>2, <1>5 DEF TaskOK
<1> QED BY <1>3, <1>4, <1>5

LEMMA OthersOK ==
  ASSUME UNCHANGED <<alive, tree, client, listed>>, TasksOK, Head(work).name # "reparent",
         NEW new, \A u \in new : u.name # "reparent" /\ TaskOK(u)',
         \A u \in On(work) : u = Head(work) \/ u \in On(work'),
         \A u \in On(work') : (u \in On(work) /\ u.name # "zero") \/ u \in new
  PROVE  TasksOK'
<1>1. ASSUME NEW u \in On(work') PROVE TaskOK(u)'
  <2>1. CASE u \in new
    BY <2>1
  <2>2. CASE u \in On(work) /\ u.name # "zero"
    <3>1. TaskOK(u)
      BY <2>2 DEF TasksOK
    <3>2. \A v : v.name = "reparent" => (v \in On(work') <=> v \in On(work))
      OBVIOUS
    <3> QED BY <2>2, <3>1, <3>2, StillOK
  <2> QED BY <2>1, <2>2
<1> QED BY <1>1 DEF TasksOK

LEMMA ForestStays ==
  ASSUME Forest, UNCHANGED <<alive, tree, client, listed, fault>>,
         \A u : u.name = "hand" => (u \in On(work') <=> u \in On(work))
  PROVE  Forest'
<1>1. \A x, y : Task("hand", x, y).name = "hand"
  BY DEF Task
<1>3. /\ alive' = alive /\ parent' = parent /\ content' = content /\ held' = held
      /\ listed' = listed /\ uriHeld' = uriHeld /\ fault' = fault
  BY DEF tree, client
<1>4. \A c, e : Task("hand", c, e) \in On(work) => Task("hand", c, e) \in On(work')
  BY <1>1
<1> QED BY <1>3, <1>4 DEF Forest

\* What a step puts in the place of the task at the top.
Puts(new) == Adds(work, Tail(work), {Head(work)}) /\ Adds(work', Tail(work), new)

\* The stack after a task that sets off another one, or none.
LEMMA StackAfter ==
  ASSUME Typed, Shape, Ordered, work # <<>>, NEW t \in Tasks,
         t.name \in {"release", "release uri", "zero"}, NEW new \in SUBSET {t},
         new = {t} => work' = Put(t, Tail(work)), new = {} => work' = Tail(work)
  PROVE  /\ Head(work) \in Tasks /\ Head(work) \in On(work) /\ work' \in Seq(Tasks)
         /\ ShapeOf(work') /\ OrderedBy(parent, work')
         /\ \A f : OrderedBy(f, Tail(work)) => OrderedBy(f, work')
         /\ \A u \in On(work) : u = Head(work) \/ u \in On(work')
         /\ \A u \in On(work') :
              \/ u \in On(work) /\ u.name # "zero" /\ Precedes(parent, Head(work), u)
              \/ u \in new
         /\ new = {t} => work' # <<>> /\ Head(work') = t
         /\ Puts(new)
<1> DEFINE s == Tail(work)
<1>1. /\ s \in Seq(Tasks) /\ ShapeOf(s) /\ NoZero(s) /\ OrderedBy(parent, s)
      /\ Head(work) \in Tasks /\ Head(work) \in On(work) /\ On(work) = {Head(work)} \union On(s)
      /\ \A u \in On(s) : u.name # "zero" /\ Precedes(parent, Head(work), u)
      /\ Adds(work, s, {Head(work)})
  BY Popped
<1>3. (new = {t} => work' = Put(t, s)) /\ (new = {} => work' = s)
  OBVIOUS
<1> HIDE DEF s
<1>4. /\ work' \in Seq(Tasks) /\ ShapeOf(work') /\ \A f : OrderedBy(f, s) => OrderedBy(f, work')
      /\ On(s) \subseteq On(work') /\ On(work') \subseteq {t} \union On(s)
      /\ new = {t} => work' # <<>> /\ Head(work') = t
      /\ new = {} => On(work') = On(s)
      /\ Adds(work', s, new)
  BY <1>1, <1>3, Called
<1>6. \A u \in On(work') :
        \/ u \in On(work) /\ u.name # "zero" /\ Precedes(parent, Head(work), u)
        \/ u \in new
  BY <1>1, <1>4
<1> QED BY <1>1, <1>4, <1>6 DEF s, Puts

LEMMA Balance ==
  ASSUME NEW v \in Nat, NEW w \in Nat, NEW a, NEW b, w + a = v + b
  PROVE  /\ a = 0 /\ b = 0 => w = v
         /\ a = 1 /\ b = 0 => v = w + 1
         /\ a = 0 /\ b = 1 => w = v + 1
OBVIOUS

\* The tasks of one kind for one object, before the step and after it.
LEMMA PendingMoves ==
  ASSUME NEW new, Puts(new), NEW k, NEW y
  PROVE  /\ Pending(k, y) \in Nat /\ Pending(k, y)' \in Nat
         /\ ~Is(Head(work), k, y) /\ (\A u \in new : ~Is(u, k, y)) => Pending(k, y)' = Pending(k, y)
         /\ Is(Head(work), k, y) /\ (\A u \in new : ~Is(u, k, y)) => Pending(k, y) = Pending(k, y)' + 1
         /\ ~Is(Head(work), k, y) /\ (\E u \in new : Is(u, k, y)) => Pending(k, y)' = Pending(k, y) + 1
<1> DEFINE h == Head(work)
<1>1. Pending(k, y) = PendingIn(work, k, y) /\ Pending(k, y)' = PendingIn(work', k, y)
  BY DEF Pending, PendingIn
<1>2. /\ Pending(k, y) \in Nat /\ Pending(k, y)' \in Nat
      /\ Pending(k, y)' + Among({h}, k, y) = Pending(k, y) + Among(new, k, y)
  BY <1>1, AddsAfter DEF Puts
<1>3. /\ Is(h, k, y) => Among({h}, k, y) = 1
      /\ ~Is(h, k, y) => Among({h}, k, y) = 0
      /\ (\A u \in new : ~Is(u, k, y)) => Among(new, k, y) = 0
      /\ (\E u \in new : Is(u, k, y)) => Among(new, k, y) = 1
  BY DEF Among
<1>4. LET a == Among({h}, k, y)
          b == Among(new, k, y)
      IN  /\ a = 0 /\ b = 0 => Pending(k, y)' = Pending(k, y)
          /\ a = 1 /\ b = 0 => Pending(k, y) = Pending(k, y)' + 1
          /\ a = 0 /\ b = 1 => Pending(k, y)' = Pending(k, y) + 1
  BY <1>2, Balance
<1> QED BY <1>2, <1>3, <1>4

LEMMA PendingPlus ==
  ASSUME NEW new, Puts(new), NEW k, NEW y, ~Is(Head(work), k, y), NEW u \in new, Is(u, k, y)
  PROVE  Pending(k, y)' = Pending(k, y) + 1
BY PendingMoves

LEMMA NothingReleased ==
  ASSUME NEW new, Puts(new), Head(work).name \notin {"release", "release uri"},
         \A u \in new : u.name \notin {"release", "release uri"}
  PROVE  \A y : /\ Pending("release", y)' = Pending("release", y)
                /\ Pending("release uri", y)' = Pending("release uri", y)
<1> TAKE y
<1>1. /\ ~Is(Head(work), "release", y) /\ ~Is(Head(work), "release uri", y)
      /\ \A u \in new : ~Is(u, "release", y) /\ ~Is(u, "release uri", y)
  BY DEF Is
<1> QED BY <1>1, PendingMoves

\* A reference that the step leaves to the stack.
LEMMA LeftToStack ==
  ASSUME NEW r, NEW new, new = {r}, Puts(new), r.name = "release", Head(work).name \notin {"release", "release uri"}
  PROVE  /\ \A y : Pending("release uri", y)' = Pending("release uri", y)
         /\ \A y : y # r.on => Pending("release", y)' = Pending("release", y)
         /\ Pending("release", r.on)' = Pending("release", r.on) + 1
<1>1. ASSUME NEW y PROVE Pending("release uri", y)' = Pending("release uri", y)
  <2>1. ~Is(Head(work), "release uri", y) /\ \A u \in new : ~Is(u, "release uri", y)
    BY DEF Is
  <2> QED BY <2>1, PendingMoves
<1>2. ASSUME NEW y, y # r.on PROVE Pending("release", y)' = Pending("release", y)
  <2>1. ~Is(Head(work), "release", y) /\ \A u \in new : ~Is(u, "release", y)
    BY <1>2 DEF Is
  <2> QED BY <2>1, PendingMoves
<1>3. Pending("release", r.on)' = Pending("release", r.on) + 1
  <2> PICK y : y = r.on
    OBVIOUS
  <2>1. ~Is(Head(work), "release", y) /\ r \in new /\ Is(r, "release", y)
    BY DEF Is
  <2>2. Pending("release", y)' = Pending("release", y) + 1
    BY <2>1, PendingPlus
  <2> QED BY <2>2
<1> QED BY <1>1, <1>2, <1>3

LEMMA FixedIs ==
  Typed => \A y \in Objects :
    /\ Kept(y) \in Nat /\ Fixed(y) \in Nat
    /\ Slots(y) \in Nat /\ Kids(y) \in Nat
<1> SUFFICES ASSUME Typed, NEW y \in Objects
             PROVE  /\ Kept(y) \in Nat /\ Fixed(y) \in Nat
                    /\ Slots(y) \in Nat /\ Kids(y) \in Nat
  OBVIOUS
<1> DEFINE h == held[y]
           d == IF y \in Documents /\ listed[y] # "gone" THEN 1 ELSE 0
           s == Slots(y)
           k == Kids(y)
<1>1. h \in Nat /\ s \in Nat /\ k \in Nat /\ d \in {0, 1}
  BY CountsAreNat DEF Slots, Kids
<1>2. Kept(y) = h + d /\ Fixed(y) = Kept(y) + s + k
  BY DEF Fixed, Kept
<1> HIDE DEF h, d, s, k
<1>3. Kept(y) \in Nat
  BY <1>1, <1>2
<1>4. Fixed(y) \in Nat
  BY <1>1, <1>2, <1>3
<1> QED BY <1>1, <1>3, <1>4 DEF s, k

LEMMA FixedWillBe ==
  Typed' => \A y \in Objects :
    /\ Kept(y)' \in Nat /\ Fixed(y)' \in Nat
    /\ Slots(y)' \in Nat /\ Kids(y)' \in Nat
<1>1. (Typed => \A y \in Objects :
         /\ Kept(y) \in Nat /\ Fixed(y) \in Nat
         /\ Slots(y) \in Nat /\ Kids(y) \in Nat)'
  BY FixedIs, PTL
<1> QED BY <1>1

\* What counts on y does not change.
LEMMA CountStays ==
  ASSUME Counts, NEW y \in alive, refs'[y] = refs[y], Kept(y)' = Kept(y),
         Slots(y)' = Slots(y), Kids(y)' = Kids(y), Stacked(y)' = Stacked(y)
  PROVE  refs'[y] = Referred(y)'
BY DEF Counts, Referred, Fixed

LEMMA PendingIs ==
  Typed => \A y \in Objects : Pending("release", y) \in Nat /\ Pending("release uri", y) \in Nat
BY CountsAreNat

LEMMA PendingWillBe ==
  Typed' => \A y \in Objects : Pending("release", y)' \in Nat /\ Pending("release uri", y)' \in Nat
<1>1. (Typed => \A y \in Objects : Pending("release", y) \in Nat /\ Pending("release uri", y) \in Nat)'
  BY PendingIs, PTL
<1> QED BY <1>1

\* One more counts on y, and is counted.
LEMMA CountUp ==
  ASSUME Typed, Typed', Counts, NEW y \in alive,
         refs'[y] = refs[y] + 1,
         \/ Kept(y)' = Kept(y) + 1 /\ Slots(y)' = Slots(y) /\ Kids(y)' = Kids(y) /\ Stacked(y)' = Stacked(y)
         \/ Kept(y)' = Kept(y) /\ Slots(y)' = Slots(y) + 1 /\ Kids(y)' = Kids(y) /\ Stacked(y)' = Stacked(y)
         \/ Kept(y)' = Kept(y) /\ Slots(y)' = Slots(y) /\ Kids(y)' = Kids(y) + 1 /\ Stacked(y)' = Stacked(y)
         \/ Kept(y)' = Kept(y) /\ Slots(y)' = Slots(y) /\ Kids(y)' = Kids(y) /\ Stacked(y)' = Stacked(y) + 1
  PROVE  refs'[y] = Referred(y)'
<1> DEFINE h1 == Kept(y)
           s1 == Slots(y)
           k1 == Kids(y)
           r1 == Stacked(y)
           h2 == Kept(y)'
           s2 == Slots(y)'
           k2 == Kids(y)'
           r2 == Stacked(y)'
<1>1. y \in Objects
  BY DEF Typed, StateTypeOK
<1>2. h1 \in Nat /\ s1 \in Nat /\ k1 \in Nat /\ r1 \in Nat
  BY <1>1, FixedIs, CountsAreNat DEF Stacked
<1>3. h2 \in Nat /\ s2 \in Nat /\ k2 \in Nat /\ r2 \in Nat
  BY <1>1, FixedWillBe, PendingWillBe DEF Stacked
<1>4. refs[y] = h1 + s1 + k1 + r1 /\ Referred(y)' = h2 + s2 + k2 + r2
  BY DEF Counts, Referred, Fixed
<1>5. /\ refs'[y] = refs[y] + 1
      /\ \/ h2 = h1 + 1 /\ s2 = s1 /\ k2 = k1 /\ r2 = r1
         \/ h2 = h1 /\ s2 = s1 + 1 /\ k2 = k1 /\ r2 = r1
         \/ h2 = h1 /\ s2 = s1 /\ k2 = k1 + 1 /\ r2 = r1
         \/ h2 = h1 /\ s2 = s1 /\ k2 = k1 /\ r2 = r1 + 1
  OBVIOUS
<1> HIDE DEF h1, s1, k1, r1, h2, s2, k2, r2
<1> QED BY <1>2, <1>3, <1>4, <1>5

\* A child less.
LEMMA CountDown ==
  ASSUME Typed, Typed', Counts, NEW y \in alive,
         refs'[y] = refs[y] - 1, Kept(y)' = Kept(y), Slots(y)' = Slots(y),
         Kids(y) = Kids(y)' + 1, Stacked(y)' = Stacked(y)
  PROVE  refs'[y] = Referred(y)'
<1> DEFINE h1 == Kept(y)
           s1 == Slots(y)
           k1 == Kids(y)
           r1 == Stacked(y)
           h2 == Kept(y)'
           s2 == Slots(y)'
           k2 == Kids(y)'
           r2 == Stacked(y)'
<1>1. y \in Objects
  BY DEF Typed, StateTypeOK
<1>2. h1 \in Nat /\ s1 \in Nat /\ k1 \in Nat /\ r1 \in Nat
  BY <1>1, FixedIs, CountsAreNat DEF Stacked
<1>3. h2 \in Nat /\ s2 \in Nat /\ k2 \in Nat /\ r2 \in Nat
  BY <1>1, FixedWillBe, PendingWillBe DEF Stacked
<1>4. refs[y] = h1 + s1 + k1 + r1 /\ Referred(y)' = h2 + s2 + k2 + r2
  BY DEF Counts, Referred, Fixed
<1>5. /\ refs'[y] = refs[y] - 1
      /\ h2 = h1 /\ s2 = s1 /\ k1 = k2 + 1 /\ r2 = r1
  OBVIOUS
<1> HIDE DEF h1, s1, k1, r1, h2, s2, k2, r2
<1> QED BY <1>2, <1>3, <1>4, <1>5

\* What counted on y leaves that to the stack.
LEMMA CountOver ==
  ASSUME Typed, Typed', Counts, NEW y \in alive,
         refs'[y] = refs[y], Stacked(y)' = Stacked(y) + 1,
         \/ Kept(y) = Kept(y)' + 1 /\ Slots(y)' = Slots(y) /\ Kids(y)' = Kids(y)
         \/ Kept(y)' = Kept(y) /\ Slots(y) = Slots(y)' + 1 /\ Kids(y)' = Kids(y)
         \/ Kept(y)' = Kept(y) /\ Slots(y)' = Slots(y) /\ Kids(y) = Kids(y)' + 1
  PROVE  refs'[y] = Referred(y)'
<1> DEFINE h1 == Kept(y)
           s1 == Slots(y)
           k1 == Kids(y)
           r1 == Stacked(y)
           h2 == Kept(y)'
           s2 == Slots(y)'
           k2 == Kids(y)'
           r2 == Stacked(y)'
<1>1. y \in Objects
  BY DEF Typed, StateTypeOK
<1>2. h1 \in Nat /\ s1 \in Nat /\ k1 \in Nat /\ r1 \in Nat
  BY <1>1, FixedIs, CountsAreNat DEF Stacked
<1>3. h2 \in Nat /\ s2 \in Nat /\ k2 \in Nat /\ r2 \in Nat
  BY <1>1, FixedWillBe, PendingWillBe DEF Stacked
<1>4. refs[y] = h1 + s1 + k1 + r1 /\ Referred(y)' = h2 + s2 + k2 + r2
  BY DEF Counts, Referred, Fixed
<1>5. /\ refs'[y] = refs[y] /\ r2 = r1 + 1
      /\ \/ h1 = h2 + 1 /\ s2 = s1 /\ k2 = k1
         \/ h2 = h1 /\ s1 = s2 + 1 /\ k2 = k1
         \/ h2 = h1 /\ s2 = s1 /\ k1 = k2 + 1
  OBVIOUS
<1> HIDE DEF h1, s1, k1, r1, h2, s2, k2, r2
<1> QED BY <1>2, <1>3, <1>4, <1>5

LEMMA SameFixed ==
  ASSUME UNCHANGED <<alive, tree, client, listed>>
  PROVE  \A y : Fixed(y)' = Fixed(y) /\ Kept(y)' = Kept(y)
<1>1. held' = held /\ listed' = listed
  BY DEF client
<1>2. \A y : SlotsOf(y)' = SlotsOf(y) /\ Children(y)' = Children(y)
  BY SameTree
<1> QED BY <1>1, <1>2 DEF Fixed, Kept, Slots, Kids

\* One reference less, of the stack's.
LEMMA OneReleased ==
  ASSUME NEW f \in Nat, NEW p \in Nat, NEW q \in Nat, NEW r, r = f + p, p = q + 1
  PROVE  /\ r - 1 = f + q /\ r \in Int /\ r - 1 \in Nat /\ (r - 1 <= 0 \/ r - 1 > 0)
         /\ (r - 1 <= 0 => r - 1 = 0)
OBVIOUS
-----------------------------------------------------------------------------
(* The library's steps. *)

LEMMA ReleaseKeeps == ASSUME RefsInv, Release PROVE RefsInv'
<1> PICK x : x = Head(work).on
  OBVIOUS
<1> DEFINE z == Task("zero", x, x)
           new == IF refs[x] - 1 <= 0 THEN {z} ELSE {}
<1>1. work # <<>> /\ Head(work).name = "release"
  BY DEF Release, Runs
<1>2. Typed /\ Forest /\ Counts /\ Due /\ TasksOK /\ Shape /\ Ordered
  BY DEF RefsInv
<1>3. Head(work) \in On(work)
  BY <1>1, <1>2, StackTop DEF Typed
<1>4. x \in alive /\ x \in Objects
  BY <1>1, <1>2, <1>3 DEF TasksOK, TaskOK, Typed, StateTypeOK
<1>5. /\ refs' = [refs EXCEPT ![x] = @ - 1] /\ UNCHANGED <<alive, tree, client, listed, uriRefs, fault>>
      /\ work' = (IF refs[x] - 1 <= 0 THEN <<z>> ELSE <<>>) \o Tail(work)
  BY <1>4 DEF Release, Calls
<1>6. z \in Tasks /\ z.name = "zero" /\ z.on = x
  BY <1>4 DEF Task, Tasks, TaskNames
<1>7. /\ work' \in Seq(Tasks) /\ ShapeOf(work') /\ OrderedBy(parent, work')
      /\ \A u \in On(work) : u = Head(work) \/ u \in On(work')
      /\ \A u \in On(work') : (u \in On(work) /\ u.name # "zero") \/ u \in new
      /\ new = {z} => work' # <<>> /\ Head(work') = z
      /\ Puts(new)
  <2>1. new \in SUBSET {z}
    OBVIOUS
  <2>2. (new = {z} => work' = Put(z, Tail(work))) /\ (new = {} => work' = Tail(work))
    BY <1>1, <1>2, <1>5, StackTop, NothingFirst DEF Put, Typed
  <2> HIDE DEF new, z
  <2> QED BY <1>1, <1>2, <1>6, <2>1, <2>2, StackAfter
<1>8. \A y \in Objects :
        /\ Pending("release uri", y)' = Pending("release uri", y)
        /\ y # x => Pending("release", y)' = Pending("release", y)
        /\ Pending("release", x)' \in Nat /\ Pending("release", x) \in Nat
        /\ Pending("release", x) = Pending("release", x)' + 1
  <2>1. /\ \A y : ~Is(Head(work), "release uri", y) /\ (Is(Head(work), "release", y) <=> y = x)
        /\ \A u \in new : \A y : ~Is(u, "release", y) /\ ~Is(u, "release uri", y)
    BY <1>1, <1>6 DEF Is
  <2> HIDE DEF new
  <2>2. Puts(new)
    BY <1>7
  <2>3. \A y : Pending("release uri", y)' = Pending("release uri", y)
    <3> TAKE y
    <3>1. ~Is(Head(work), "release uri", y) /\ \A u \in new : ~Is(u, "release uri", y)
      BY <2>1
    <3> QED BY ONLY <2>2, <3>1, PendingMoves
  <2>4. \A y : y # x => Pending("release", y)' = Pending("release", y)
    BY <2>1, <2>2, PendingMoves
  <2>5. /\ Pending("release", x)' \in Nat /\ Pending("release", x) \in Nat
        /\ Pending("release", x) = Pending("release", x)' + 1
    BY <2>1, <2>2, PendingMoves
  <2> QED BY <2>3, <2>4, <2>5
<1> HIDE DEF z, new
<1>9. Typed'
  <2>1. refs' \in [Objects -> Int]
    BY <1>2, <1>4, <1>5 DEF Typed, StateTypeOK
  <2> QED BY <1>2, <1>5, <1>7, <2>1, TypedAgain DEF Typed, StateTypeOK, tree, client
<1>10. Forest'
  <2>1. \A u : u.name = "hand" => (u \in On(work') <=> u \in On(work))
    BY <1>1, <1>6, <1>7 DEF new
  <2> QED BY <1>2, <1>5, <2>1, ForestStays
<1>11. /\ refs'[x] = Referred(x)' /\ refs'[x] \in Nat
       /\ refs[x] - 1 <= 0 \/ refs'[x] > 0
       /\ refs[x] - 1 <= 0 => refs'[x] = 0
  <2>1. /\ Fixed(x) \in Nat /\ refs[x] = Fixed(x) + Pending("release", x)
    BY <1>2, <1>4, FixedIs DEF Counts, Referred, Stacked
  <2>a. Fixed(x)' = Fixed(x)
    BY <1>5, SameFixed
  <2>2. Referred(x)' = Fixed(x) + Pending("release", x)'
    BY <1>4, <1>9, <2>a, FixedWillBe DEF Referred, Stacked
  <2>3. refs'[x] = refs[x] - 1
    BY <1>2, <1>4, <1>5 DEF Typed, StateTypeOK
  <2>4. /\ Pending("release", x)' \in Nat /\ Pending("release", x) \in Nat
        /\ Pending("release", x) = Pending("release", x)' + 1
    BY <1>4, <1>8
  <2>5. LET r == refs[x]
        IN  /\ r - 1 = Fixed(x) + Pending("release", x)' /\ r - 1 \in Nat
            /\ r - 1 <= 0 \/ r - 1 > 0
            /\ r - 1 <= 0 => r - 1 = 0
    BY ONLY <2>1, <2>4, OneReleased
  <2> QED BY <2>2, <2>3, <2>5
<1>12. ASSUME NEW y \in alive, y # x PROVE refs'[y] = Referred(y)' /\ refs'[y] = refs[y]
  <2>1. y \in Objects /\ Fixed(y)' = Fixed(y) /\ refs'[y] = refs[y]
    BY <1>2, <1>5, <1>12, SameFixed DEF Typed, StateTypeOK
  <2>2. refs[y] = Fixed(y) + Pending("release", y)
    BY <1>2, <2>1, FixedIs DEF Counts, Referred, Stacked
  <2>3. Referred(y)' = Fixed(y)' + Pending("release", y)'
    BY <1>9, <2>1, FixedWillBe DEF Referred, Stacked
  <2> QED BY <1>8, <1>12, <2>1, <2>2, <2>3
<1>13. Counts'
  <2>1. \A d \in Documents : uriRefs'[d] = uriRefs[d] /\ uriHeld'[d] = uriHeld[d] /\ d \in Objects
    BY <1>5, FiniteObjects DEF client
  <2>2. \A y \in alive : refs'[y] = Referred(y)'
    BY <1>11, <1>12
  <2>3. \A d \in Documents \intersect alive : uriRefs'[d] = uriHeld'[d] + Pending("release uri", d)'
    BY <1>2, <1>8, <2>1 DEF Counts
  <2>4. alive' = alive
    BY <1>5
  <2> QED BY <2>2, <2>3, <2>4 DEF Counts
<1>14. Due'
  <2>1. ASSUME NEW y \in alive, y # x PROVE Needed(y)'
    BY <1>1, <1>2, <1>5, <1>12, <2>1 DEF Due, Needed, Task
  <2>2. refs[x] - 1 <= 0 => work' # <<>> /\ Head(work') = z
    BY <1>7 DEF new
  <2> QED BY <1>5, <1>11, <2>1, <2>2 DEF Due, Needed, z
<1>15. TasksOK'
  <2>1. new # {} => refs'[x] = 0 /\ x \in alive'
    BY <1>4, <1>5, <1>11 DEF new
  <2>2. \A u \in new : u.name # "reparent" /\ TaskOK(u)'
    BY <1>6, <2>1 DEF TaskOK, new
  <2> QED BY <1>1, <1>2, <1>5, <1>7, <2>2, OthersOK
<1> QED BY <1>5, <1>7, <1>9, <1>10, <1>13, <1>14, <1>15 DEF RefsInv, Shape, Ordered, tree

LEMMA ReleaseUriKeeps == ASSUME RefsInv, ReleaseUri PROVE RefsInv'
<1> PICK x : x = Head(work).on
  OBVIOUS
<1> DEFINE z == Task("zero", x, x)
           new == IF uriRefs[x] - 1 <= 0 THEN {z} ELSE {}
<1>1. work # <<>> /\ Head(work).name = "release uri"
  BY DEF ReleaseUri, Runs
<1>2. Typed /\ Forest /\ Counts /\ Due /\ TasksOK /\ Shape /\ Ordered
  BY DEF RefsInv
<1>3. Head(work) \in On(work)
  BY <1>1, <1>2, StackTop DEF Typed
<1>4. x \in Documents /\ x \in alive /\ x \in Objects /\ x \notin Elements
  BY <1>1, <1>2, <1>3, ReferencesAssumption DEF TasksOK, TaskOK, Typed, StateTypeOK
<1>5. /\ uriRefs' = [uriRefs EXCEPT ![x] = @ - 1]
      /\ UNCHANGED <<alive, refs, tree, client, listed, fault>>
      /\ work' = (IF uriRefs[x] - 1 <= 0 THEN <<z>> ELSE <<>>) \o Tail(work)
  BY <1>4 DEF ReleaseUri, Calls
<1>6. z \in Tasks /\ z.name = "zero" /\ z.on = x
  BY <1>4 DEF Task, Tasks, TaskNames
<1>7. /\ work' \in Seq(Tasks) /\ ShapeOf(work') /\ OrderedBy(parent, work')
      /\ \A u \in On(work) : u = Head(work) \/ u \in On(work')
      /\ \A u \in On(work') : (u \in On(work) /\ u.name # "zero") \/ u \in new
      /\ new = {z} => work' # <<>> /\ Head(work') = z
      /\ Puts(new)
  <2>1. new \in SUBSET {z}
    OBVIOUS
  <2>2. (new = {z} => work' = Put(z, Tail(work))) /\ (new = {} => work' = Tail(work))
    BY <1>1, <1>2, <1>5, StackTop, NothingFirst DEF Put, Typed
  <2> HIDE DEF new, z
  <2> QED BY <1>1, <1>2, <1>6, <2>1, <2>2, StackAfter
<1>8. /\ \A y : Pending("release", y)' = Pending("release", y)
      /\ \A y : y # x => Pending("release uri", y)' = Pending("release uri", y)
      /\ Pending("release uri", x)' \in Nat /\ Pending("release uri", x) \in Nat
      /\ Pending("release uri", x) = Pending("release uri", x)' + 1
  <2>1. /\ \A y : ~Is(Head(work), "release", y) /\ (Is(Head(work), "release uri", y) <=> y = x)
        /\ \A u \in new : \A y : ~Is(u, "release", y) /\ ~Is(u, "release uri", y)
    BY <1>1, <1>6 DEF Is
  <2> HIDE DEF new
  <2>2. Puts(new)
    BY <1>7
  <2>3. \A y : Pending("release", y)' = Pending("release", y)
    BY <2>1, <2>2, PendingMoves
  <2>4. \A y : y # x => Pending("release uri", y)' = Pending("release uri", y)
    BY <2>1, <2>2, PendingMoves
  <2>5. /\ Pending("release uri", x)' \in Nat /\ Pending("release uri", x) \in Nat
        /\ Pending("release uri", x) = Pending("release uri", x)' + 1
    BY <2>1, <2>2, PendingMoves
  <2> QED BY <2>3, <2>4, <2>5
<1> HIDE DEF z, new
<1>9. Typed'
  <2>1. uriRefs' \in [Documents -> Int]
    BY <1>2, <1>4, <1>5 DEF Typed, StateTypeOK
  <2> QED BY <1>2, <1>5, <1>7, <2>1, TypedAgain DEF Typed, StateTypeOK, tree, client
<1>10. Forest'
  <2>1. \A u : u.name = "hand" => (u \in On(work') <=> u \in On(work))
    BY <1>1, <1>6, <1>7 DEF new
  <2> QED BY <1>2, <1>5, <2>1, ForestStays
<1>11. /\ uriRefs'[x] = uriHeld'[x] + Pending("release uri", x)' /\ uriRefs'[x] \in Nat
       /\ uriRefs[x] - 1 <= 0 \/ uriRefs'[x] > 0
  <2>1. uriHeld[x] \in Nat /\ uriRefs[x] = uriHeld[x] + Pending("release uri", x)
    BY <1>2, <1>4, CountsAreNat DEF Counts
  <2>2. uriRefs'[x] = uriRefs[x] - 1 /\ uriHeld'[x] = uriHeld[x]
    BY <1>2, <1>4, <1>5 DEF Typed, StateTypeOK, client
  <2>3. /\ Pending("release uri", x)' \in Nat /\ Pending("release uri", x) \in Nat
        /\ Pending("release uri", x) = Pending("release uri", x)' + 1
    BY <1>8
  <2> DEFINE f == uriHeld[x]
             n == Pending("release uri", x)
             m == Pending("release uri", x)'
             r == uriRefs[x]
  <2>4. f \in Nat /\ n \in Nat /\ m \in Nat /\ r = f + n /\ n = m + 1
    BY <2>1, <2>3
  <2> HIDE DEF f, n, m, r
  <2>5. r - 1 = f + m /\ r - 1 \in Nat /\ (r - 1 <= 0 \/ r - 1 > 0)
    BY ONLY <2>4
  <2> QED BY <2>2, <2>5 DEF f, m, r
<1>12. Counts'
  <2>1. ASSUME NEW y \in alive PROVE refs'[y] = Referred(y)'
    <3>1. y \in Objects /\ Fixed(y)' = Fixed(y) /\ refs'[y] = refs[y]
      BY <1>2, <1>5, SameFixed DEF Typed, StateTypeOK
    <3>2. refs[y] = Fixed(y) + Pending("release", y)
      BY <1>2, <3>1, FixedIs DEF Counts, Referred, Stacked
    <3>3. Referred(y)' = Fixed(y)' + Pending("release", y)'
      BY <1>9, <3>1, FixedWillBe DEF Referred, Stacked
    <3> QED BY <1>8, <3>1, <3>2, <3>3
  <2>2. ASSUME NEW d \in Documents \intersect alive
        PROVE  uriRefs'[d] = uriHeld'[d] + Pending("release uri", d)'
    <3>1. d # x => uriRefs'[d] = uriRefs[d] /\ uriHeld'[d] = uriHeld[d]
      BY <1>2, <1>5 DEF client, Typed, StateTypeOK
    <3> QED BY <1>2, <1>8, <1>11, <3>1 DEF Counts
  <2>3. alive' = alive
    BY <1>5
  <2> QED BY <2>1, <2>2, <2>3 DEF Counts
<1>13. Due'
  <2>1. ASSUME NEW y \in alive, y # x PROVE Needed(y)'
    <3>1. refs'[y] = refs[y] /\ (y \in Documents => uriRefs'[y] = uriRefs[y])
      BY <1>2, <1>5, <2>1 DEF Typed, StateTypeOK
    <3>2. Task("zero", y, y).name = "zero"
      BY DEF Task
    <3>3. Needed(y)
      BY <1>1, <1>2, <3>2 DEF Due
    <3> QED BY <3>1, <3>3 DEF Needed
  <2>2. uriRefs[x] - 1 <= 0 => work' # <<>> /\ Head(work') = z
    BY <1>7 DEF new
  <2> QED BY <1>4, <1>5, <1>11, <2>1, <2>2 DEF Due, Needed, z
<1>14. TasksOK'
  <2>1. x \in alive'
    BY <1>4, <1>5
  <2>2. \A u \in new : u.name # "reparent" /\ TaskOK(u)'
    BY <1>4, <1>6, <2>1 DEF TaskOK, new
  <2> QED BY <1>1, <1>2, <1>5, <1>7, <2>2, OthersOK
<1> QED BY <1>5, <1>7, <1>9, <1>10, <1>12, <1>13, <1>14 DEF RefsInv, Shape, Ordered, tree

\* A task that does nothing.
LEMMA PopKeeps ==
  ASSUME RefsInv, work # <<>>, work' = Tail(work),
         Head(work).name \notin {"release", "release uri", "reparent", "hand"},
         UNCHANGED <<alive, tree, client, listed>>, UNCHANGED <<refs, uriRefs, fault>>,
         \A y \in alive : Head(work) = Task("zero", y, y) => Needed(y)
  PROVE  RefsInv'
<1>1. Typed /\ Forest /\ Counts /\ Due /\ TasksOK /\ Shape /\ Ordered
  BY DEF RefsInv
<1>2. PICK t \in Tasks : t.name = "zero"
  <2>1. Head(work) \in Tasks
    BY <1>1, StackTop DEF Typed
  <2>2. Task("zero", Head(work).on, Head(work).on) \in Tasks
    BY <2>1 DEF Task, Tasks, TaskNames
  <2>3. Task("zero", Head(work).on, Head(work).on).name = "zero"
    BY DEF Task
  <2> QED BY <2>2, <2>3
<1>3. /\ work' \in Seq(Tasks) /\ ShapeOf(work') /\ OrderedBy(parent, work')
      /\ \A u \in On(work) : u = Head(work) \/ u \in On(work')
      /\ \A u \in On(work') : u \in On(work) /\ u.name # "zero"
      /\ Puts({})
  <2> PICK new : new = {}
    OBVIOUS
  <2>1. new \in SUBSET {t} /\ (new = {t} => work' = Put(t, Tail(work)))
    OBVIOUS
  <2>2. t.name \in {"release", "release uri", "zero"}
    BY <1>2
  <2>3. /\ work' \in Seq(Tasks) /\ ShapeOf(work') /\ OrderedBy(parent, work')
        /\ \A u \in On(work) : u = Head(work) \/ u \in On(work')
        /\ \A u \in On(work') : (u \in On(work) /\ u.name # "zero") \/ u \in new
        /\ Puts(new)
    BY <1>1, <2>1, <2>2, StackAfter
  <2> QED BY <2>3
<1>4. \A y : /\ Pending("release", y)' = Pending("release", y)
             /\ Pending("release uri", y)' = Pending("release uri", y)
  BY <1>3, NothingReleased
<1>5. Typed'
  BY <1>1, <1>3, TypedAgain DEF Typed, StateTypeOK, tree, client
<1>6. Forest'
  <2>1. \A u : u.name = "hand" => (u \in On(work') <=> u \in On(work))
    BY <1>3
  <2> QED BY <1>1, <2>1, ForestStays
<1>7. Counts'
  <2>1. ASSUME NEW y \in alive PROVE refs'[y] = Referred(y)'
    <3>1. Fixed(y)' = Fixed(y) /\ Stacked(y)' = Stacked(y)
      BY <1>4, SameFixed DEF Stacked
    <3> QED BY <1>1, <3>1 DEF Counts, Referred
  <2>2. uriHeld' = uriHeld
    BY DEF client
  <2> QED BY <1>1, <1>4, <2>1, <2>2 DEF Counts
<1>8. Due'
  BY <1>1 DEF Due, Needed
<1>9. TasksOK'
  <2> PICK new : new = {}
    OBVIOUS
  <2>1. \A u \in new : u.name # "reparent" /\ TaskOK(u)'
    OBVIOUS
  <2>2. \A u \in On(work') : (u \in On(work) /\ u.name # "zero") \/ u \in new
    BY <1>3
  <2> QED BY <1>1, <1>3, <2>1, <2>2, OthersOK
<1> QED BY <1>3, <1>5, <1>6, <1>7, <1>8, <1>9 DEF RefsInv, Shape, Ordered, tree

\* A task on the stack is counted.
LEMMA Waiting ==
  ASSUME Typed, NEW t \in On(work), NEW k, NEW y, Is(t, k, y) PROVE Pending(k, y) # 0
<1> DEFINE S == {i \in DOMAIN work : work[i].name = k /\ work[i].on = y}
<1>1. work \in Seq(Tasks)
  BY DEF Typed
<1>2. DOMAIN work = 1..Len(work) /\ Len(work) \in Nat
  BY <1>1
<1>3. PICK i \in DOMAIN work : work[i] = t
  BY DEF On
<1>4. S # {}
  BY <1>3 DEF Is
<1>5. IsFiniteSet(S)
  <2>1. IsFiniteSet(1..Len(work)) /\ S \in SUBSET (1..Len(work))
    BY <1>2, FS_Interval
  <2> QED BY <2>1, FS_Subset
<1> QED BY <1>4, <1>5, FS_EmptySet DEF Pending

\* What is deleted is not referred to, and nothing is in it.
LEMMA Deletable ==
  ASSUME RefsInv, SourceOK, NEW x \in alive, refs[x] <= 0, x \in Documents => uriRefs[x] <= 0
  PROVE  /\ held[x] = 0 /\ SlotsOf(x) = {} /\ Children(x) = {} /\ Pending("release", x) = 0
         /\ x \in Documents => /\ listed[x] = "gone" /\ uriHeld[x] = 0
                               /\ Pending("release uri", x) = 0
         /\ content[x] = {} /\ x \notin Closure(parent, Roots) /\ ~Protected(x)
<1>1. Typed /\ Forest /\ Counts /\ TasksOK
  BY DEF RefsInv
<1>2. x \in Objects
  BY <1>1 DEF Typed, StateTypeOK
<1>3. ~(refs[x] > 0)
  <2>1. refs[x] \in Nat
    BY <1>1, ReferredIsNeeded
  <2> QED BY <2>1
<1>4. SlotsOf(x) = {} /\ Children(x) = {} /\ (x \in Documents => listed[x] = "gone")
  BY <1>1, <1>3, ReferredIsNeeded
<1>5. held[x] = 0 /\ Pending("release", x) = 0
  <2>1. held[x] \in Nat /\ Pending("release", x) \in Nat
    BY <1>1, <1>2, CountsAreNat
  <2>2. ~(held[x] > 0) /\ ~(Pending("release", x) > 0)
    BY <1>1, <1>3, ReferredIsNeeded
  <2> QED BY <2>1, <2>2
<1>6. x \in Documents => uriHeld[x] = 0 /\ Pending("release uri", x) = 0
  <2> HAVE x \in Documents
  <2>1. uriHeld[x] \in Nat /\ Pending("release uri", x) \in Nat
    BY <1>1, <1>2, CountsAreNat
  <2>2. ~(uriRefs[x] > 0)
    <3>1. uriRefs[x] \in Nat
      BY <1>1, ReferredIsNeeded
    <3> QED BY <3>1
  <2>3. ~(uriHeld[x] > 0) /\ ~(Pending("release uri", x) > 0)
    BY <1>1, <2>2, ReferredIsNeeded
  <2>4. \A n \in Nat : ~(n > 0) => n = 0
    OBVIOUS
  <2> QED BY <2>1, <2>3, <2>4
<1>7. content[x] = {}
  <2> SUFFICES ASSUME NEW c \in content[x] PROVE FALSE
    OBVIOUS
  <2>1. c \in alive /\ (parent[c] = x \/ Task("hand", c, x) \in On(work))
    BY <1>1, <1>2 DEF Forest
  <2>2. c # x
    BY <1>4 DEF SlotsOf
  <2>3. parent[c] # x
    BY <1>4, <2>1, <2>2 DEF Children
  <2>4. Task("hand", c, x).name = "hand" /\ Task("hand", c, x).with = x
    BY DEF Task
  <2>5. Fixed(x) > 0
    BY <2>1, <2>3, <2>4 DEF SourceOK, Task
  <2>6. Fixed(x) \in Nat /\ Pending("release", x) \in Nat
        /\ refs[x] = Fixed(x) + Pending("release", x)
    BY <1>1, <1>2, FixedIs, CountsAreNat DEF Counts, Referred, Stacked
  <2> QED BY <1>3, <2>5, <2>6
<1>8. ~Protected(x)
  <2>1. x \in Documents => ~(uriRefs[x] > 0)
    <3> HAVE x \in Documents
    <3>1. uriRefs[x] \in Nat
      BY <1>1, ReferredIsNeeded
    <3> QED BY <3>1
  <2> QED BY <1>1, <1>3, <2>1, Survivor DEF Needed
<1> QED BY <1>4, <1>5, <1>6, <1>7, <1>8 DEF Protected

\* An object is deleted, and lets go of its parent p.
LEMMA DestroyKeeps ==
  ASSUME RefsInv, SourceOK, Zero, NEW x, x = Head(work).on, x \in alive, ~Outstanding(x),
         NEW p, p = parent[x], alive' = alive \ {x}, parent' = [parent EXCEPT ![x] = x],
         UNCHANGED <<content, client, listed, uriRefs, fault>>,
         p = x => refs' = refs /\ work' = Tail(work),
         p # x => /\ refs' = [refs EXCEPT ![p] = @ - 1]
                  /\ refs[p] = 1 => work' = Put(Task("zero", p, p), Tail(work))
                  /\ refs[p] # 1 => work' = Tail(work)
  PROVE  RefsInv'
<1> DEFINE z == Task("zero", p, p)
           new == IF p # x /\ refs[p] = 1 THEN {z} ELSE {}
<1>1. Typed /\ Forest /\ Counts /\ Due /\ TasksOK /\ Shape /\ Ordered
  BY DEF RefsInv
<1>2. work # <<>> /\ Head(work).name = "zero" /\ Head(work) \in On(work)
  BY <1>1, StackTop DEF Zero, Runs, Typed
<1>3. x \in Objects /\ p \in Objects /\ p \in alive /\ alive \subseteq Objects /\ parent \in Parents
  BY <1>1 DEF Forest, Typed, StateTypeOK, Parents
<1>4. /\ held[x] = 0 /\ SlotsOf(x) = {} /\ Children(x) = {} /\ Pending("release", x) = 0
      /\ x \in Documents => /\ listed[x] = "gone" /\ uriHeld[x] = 0
                            /\ Pending("release uri", x) = 0
      /\ content[x] = {} /\ x \notin Closure(parent, Roots) /\ ~Protected(x)
  <2>1. x \in Elements => refs[x] = 0
    BY <1>1, <1>2 DEF TasksOK, TaskOK
  <2>2. x \in Documents => ~(0 < refs[x]) /\ ~(uriRefs[x] > 0)
    BY DEF Outstanding
  <2>3. refs[x] <= 0
    <3>1. refs[x] \in Nat
      BY <1>1, ReferredIsNeeded
    <3> QED BY <1>3, <2>1, <2>2, <3>1 DEF Objects
  <2>4. x \in Documents => uriRefs[x] <= 0
    <3> HAVE x \in Documents
    <3>1. uriRefs[x] \in Nat
      BY <1>1, ReferredIsNeeded
    <3> QED BY <2>2, <3>1
  <2> QED BY <2>3, <2>4, Deletable
<1>5. z \in Tasks /\ z.name = "zero" /\ z.on = p
  BY <1>3 DEF Task, Tasks, TaskNames
<1>6. /\ work' \in Seq(Tasks) /\ ShapeOf(work') /\ OrderedBy(parent, work')
      /\ \A u \in On(work) : u = Head(work) \/ u \in On(work')
      /\ \A u \in On(work') : (u \in On(work) /\ u.name # "zero") \/ u \in new
      /\ new = {z} => work' # <<>> /\ Head(work') = z
      /\ Puts(new)
  <2>1. new \in SUBSET {z}
    OBVIOUS
  <2>2. (new = {z} => work' = Put(z, Tail(work))) /\ (new = {} => work' = Tail(work))
    OBVIOUS
  <2> HIDE DEF new, z
  <2> QED BY <1>1, <1>2, <1>5, <2>1, <2>2, StackAfter
<1>7. \A y : /\ Pending("release", y)' = Pending("release", y)
             /\ Pending("release uri", y)' = Pending("release uri", y)
  <2>1. \A u \in new : u.name \notin {"release", "release uri"}
    BY <1>5
  <2> HIDE DEF new, z
  <2> QED BY <1>2, <1>6, <2>1, NothingReleased
<1> HIDE DEF new, z
<1>8. /\ \A y \in Objects : y # x => parent'[y] = parent[y]
      /\ parent'[x] = x /\ parent' \in Parents
  BY <1>3 DEF Parents
<1>9. content' = content /\ held' = held /\ uriHeld' = uriHeld /\ listed' = listed
  BY DEF client
<1>10. Typed'
  <2>1. refs' \in [Objects -> Int]
    BY <1>1, <1>3 DEF Typed, StateTypeOK
  <2>2. alive' \subseteq Objects /\ parent' \in [Objects -> Objects]
    BY <1>3, <1>8 DEF Parents
  <2> QED BY <1>1, <1>6, <1>9, <2>1, <2>2, TypedAgain DEF Typed, StateTypeOK
\* The rest of the tree.
<1>11. ASSUME NEW from \in SUBSET alive, x \notin from
       PROVE  Closure(parent', from) = Closure(parent, from)
  <2>1. x \notin Closure(parent, from)
    BY <1>1, <1>3, <1>4, <1>11, Leaf
  <2>2. from \in SUBSET Objects
    BY <1>3
  <2> QED BY ONLY <1>3, <1>8, <2>1, <2>2, ClosureAside
<1>12. ASSUME NEW y \in alive, y # x PROVE parent[y] # x /\ x \notin content[y]
  BY <1>4, <1>12 DEF Children, SlotsOf
<1>13. ASSUME NEW y, y # x
       PROVE  /\ SlotsOf(y)' = SlotsOf(y)
              /\ y # p => Children(y)' = Children(y)
              /\ y = p => Children(y)' = Children(y) \ {x} /\ x \in Children(y)
  <2>1. SlotsOf(y)' = SlotsOf(y)
    BY <1>4, <1>9 DEF SlotsOf
  <2>2. \A c : c \in Children(y)' <=> c \in Children(y) /\ c # x
    BY <1>3, <1>8, <1>13 DEF Children
  <2>3. x \in Children(y) <=> y = p
    BY <1>13 DEF Children
  <2> QED BY <2>1, <2>2, <2>3
<1>14. Forest'
  <2>1. \A y \in alive' : parent'[y] \in alive' /\ content'[y] \subseteq alive'
    <3> SUFFICES ASSUME NEW y \in alive, y # x
                 PROVE  parent'[y] \in alive' /\ content'[y] \subseteq alive'
      OBVIOUS
    <3>1. y \in Objects /\ parent[y] \in alive /\ content[y] \subseteq alive
      BY <1>1, <1>3 DEF Forest
    <3>2. parent[y] # x /\ x \notin content[y]
      BY <1>12
    <3> QED BY <1>8, <1>9, <3>1, <3>2
  <2>2. \A y \in Objects \ alive' : parent'[y] = y /\ content'[y] = {} /\ held'[y] = 0
    BY <1>1, <1>4, <1>8, <1>9 DEF Forest
  <2>3. \A d \in Documents \ alive' : listed'[d] = "gone" /\ uriHeld'[d] = 0
    BY <1>1, <1>4, <1>9 DEF Forest
  <2>4. \A d \in Documents : parent'[d] = d
    BY <1>1, <1>8, FiniteObjects DEF Forest
  <2>5. ASSUME NEW e \in Elements \intersect alive' PROVE e \notin Closure(parent', {parent'[e]})
    <3>1. e \in Objects /\ e # x /\ parent[e] \in alive /\ parent[e] # x /\ parent'[e] = parent[e]
      BY <1>1, <1>3, <1>8, <1>12 DEF Forest
    <3>2. Closure(parent', {parent[e]}) = Closure(parent, {parent[e]})
      BY <1>11, <3>1
    <3> QED BY <1>1, <3>1, <3>2 DEF Forest
  <2>6. ASSUME NEW e \in Objects, NEW c \in content'[e]
        PROVE  /\ parent'[c] = e \/ Task("hand", c, e) \in On(work')
               /\ \A g \in Objects : c \in content'[g] => g = e
    <3>0. c \in content[e] /\ e \in alive
      BY <1>1, <1>9 DEF Forest
    <3>1. c \in content[e] /\ c \in Objects /\ c # x
      <4>1. e \in SlotsOf(c)
        BY <3>0 DEF SlotsOf
      <4>2. c \in Elements
        BY <1>1, <3>0 DEF Typed, StateTypeOK
      <4> QED BY <1>4, <3>0, <4>1, <4>2 DEF Objects
    <3>2. Task("hand", c, e).name = "hand"
      BY DEF Task
    <3>3. Task("hand", c, e) \in On(work) => Task("hand", c, e) \in On(work')
      BY <1>2, <1>6, <3>2
    <3> QED BY <1>1, <1>8, <1>9, <3>1, <3>3 DEF Forest
  <2> QED BY <1>1, <1>9, <2>1, <2>2, <2>3, <2>4, <2>5, <2>6 DEF Forest
<1>15. ASSUME NEW y \in alive, y # x
       PROVE  /\ refs'[y] = Referred(y)'
              /\ y # p => refs'[y] = refs[y]
              /\ y = p => refs'[y] = refs[y] - 1
  <2>1. y \in Objects /\ Kept(y)' = Kept(y) /\ Slots(y)' = Slots(y) /\ Stacked(y)' = Stacked(y)
    BY <1>3, <1>7, <1>9, <1>13, <1>15 DEF Kept, Slots, Stacked
  <2>2. CASE y # p
    <3>1. refs'[y] = refs[y] /\ Kids(y)' = Kids(y)
      BY <1>1, <1>3, <1>13, <1>15, <2>2 DEF Kids, Typed, StateTypeOK
    <3> QED BY <1>1, <2>1, <2>2, <3>1, CountStays
  <2>3. CASE y = p
    <3>1. refs'[y] = refs[y] - 1
      BY <1>1, <1>3, <1>15, <2>3 DEF Typed, StateTypeOK
    <3>2. Children(y)' = Children(y) \ {x} /\ x \in Children(y) /\ Children(y) \in SUBSET Objects
      BY <1>3, <1>13, <1>15, <2>3 DEF Children
    <3>3. Cardinality(Children(y) \ {x}) = Cardinality(Children(y)) - 1
      BY <3>2, OneLess
    <3>4. Kids(y) \in Nat /\ Kids(y)' \in Nat
      BY <1>1, <1>10, <2>1, FixedIs, FixedWillBe
    <3>5. Kids(y)' = Kids(y) - 1
      BY <3>2, <3>3 DEF Kids
    <3>6. Kids(y) = Kids(y)' + 1
      BY <3>4, <3>5
    <3> QED BY <1>1, <1>10, <2>1, <2>3, <3>1, <3>6, CountDown
  <2> QED BY <2>2, <2>3
<1>16. Counts'
  <2>1. \A d \in Documents \intersect alive' :
          uriRefs'[d] = uriHeld'[d] + Pending("release uri", d)'
    BY <1>1, <1>7, <1>9 DEF Counts
  <2> QED BY <1>15, <2>1 DEF Counts
<1>17. Due'
  <2>1. ASSUME NEW y \in alive, y # x PROVE Needed(y)
    <3>1. Task("zero", y, y).on = y
      BY DEF Task
    <3> QED BY <1>1, <2>1, <3>1 DEF Due
  <2>2. ASSUME NEW y \in alive, y # x, y # p PROVE Needed(y)'
    BY <1>15, <2>1, <2>2 DEF Needed
  <2>3. ASSUME p # x PROVE Needed(p)' \/ (refs[p] = 1 /\ refs'[p] = 0)
    <3>1. x \in Children(p)
      BY <1>13, <2>3
    <3>2. refs[p] \in Nat /\ refs[p] > 0
      BY <1>1, <1>3, <3>1, ReferredIsNeeded
    <3>3. refs'[p] = refs[p] - 1
      BY <1>3, <1>15, <2>3
    <3>4. refs'[p] > 0 \/ (refs[p] = 1 /\ refs'[p] = 0)
      BY <3>2, <3>3
    <3> QED BY <3>4 DEF Needed
  <2>4. p # x /\ refs[p] = 1 => work' # <<>> /\ Head(work') = Task("zero", p, p)
    BY <1>6 DEF new, z
  <2> QED BY <2>2, <2>3, <2>4 DEF Due
<1>19. \A y : SlotsOf(y)' = SlotsOf(y) /\ Protected(y)' = Protected(y)
  <2>1. ASSUME NEW y PROVE SlotsOf(y)' = SlotsOf(y)
    BY <1>4, <1>9, <1>13 DEF SlotsOf
  <2>2. Roots \in SUBSET alive /\ x \notin Roots /\ Roots' = Roots
    <3>1. Roots \in SUBSET alive
      BY DEF Roots
    <3>2. x \notin Roots
      BY <1>3, <1>4, <3>1, ClosureCloses
    <3> QED BY <1>9, <3>1, <3>2 DEF Roots
  <2>3. Closure(parent', Roots') = Closure(parent, Roots)
    BY <1>11, <2>2
  <2> QED BY <1>4, <2>1, <2>3 DEF Protected
<1>18. TasksOK'
  <2> SUFFICES ASSUME NEW u \in On(work') PROVE TaskOK(u)'
    BY DEF TasksOK
  <2>1. CASE u \in new
    <3>1. p # x /\ refs[p] = 1 /\ u = z
      BY <2>1 DEF new
    <3>2. refs'[p] = 0
      <4>1. refs'[p] = refs[p] - 1
        BY <1>3, <1>15, <3>1
      <4> QED BY <3>1, <4>1
    <3> QED BY <1>3, <1>5, <3>1, <3>2 DEF TaskOK
  <2>2. CASE u \in On(work) /\ u.name # "zero"
    <3>1. TaskOK(u)
      BY <1>1, <2>2 DEF TasksOK
    <3>2. u.name \in {"release", "release uri"} => u.on # x
      <4> SUFFICES ASSUME u.name \in {"release", "release uri"}, u.on = x PROVE FALSE
        OBVIOUS
      <4>1. Pending(u.name, x) # 0
        BY <1>1, <2>2, Waiting DEF Is
      <4> QED BY <1>4, <3>1, <4>1 DEF TaskOK
    <3>3. CASE u.name \in {"release", "release uri", "compact"}
      BY <1>9, <3>1, <3>2, <3>3 DEF TaskOK
    <3>4. CASE u.name = "reparent"
      <4>1. Protected(u.on) /\ Protected(u.with) /\ u.on \notin Closure(parent, {u.with})
        BY <3>1, <3>4 DEF TaskOK
      <4>2. u.with \in alive /\ u.with # x
        BY <1>4, <4>1 DEF Protected
      <4>3. Closure(parent', {u.with}) = Closure(parent, {u.with})
        BY <1>11, <4>2
      <4> QED BY <1>19, <3>1, <3>4, <4>1, <4>3 DEF TaskOK
    <3>5. CASE u.name = "enter"
      <4>1. u.on \in Objects /\ u.on # x
        BY <1>3, <1>4, <3>1, <3>5 DEF TaskOK, Protected
      <4>2. parent'[u.on] = parent[u.on]
        BY <1>8, <4>1
      <4>3. \A v : v.name = "reparent" => (v \in On(work') <=> v \in On(work))
        BY <1>2, <1>5, <1>6 DEF new
      <4> QED BY <1>19, <3>1, <3>5, <4>2, <4>3 DEF TaskOK
    <3>6. CASE u.name = "hand"
      BY <1>9, <3>1, <3>6 DEF TaskOK
    <3>7. CASE u.name = "vacate"
      <4>0. u.on \in Objects /\ u.with \in Objects
        BY <1>1, <2>2 DEF On, Typed, StateTypeOK
      <4>1. u.on \in content[u.with] /\ u.with \in alive
        BY <1>1, <3>1, <3>7, <4>0 DEF TaskOK, Forest
      <4>2. u.on # x
        BY <1>4, <4>1 DEF SlotsOf
      <4> QED BY <1>8, <1>9, <3>1, <3>7, <4>0, <4>2 DEF TaskOK
    <3>8. CASE u.name = "clear"
      BY <1>19, <3>1, <3>8 DEF TaskOK
    <3>9. u.name \in TaskNames
      <4>1. u \in Tasks
        BY <1>1, <2>2 DEF Typed, On
      <4> QED BY <4>1 DEF Tasks
    <3> QED BY <2>2, <3>3, <3>4, <3>5, <3>6, <3>7, <3>8, <3>9 DEF TaskNames
  <2> QED BY <1>6, <2>1, <2>2
<1>20. OrderedBy(parent', work')
  <2>1. ASSUME NEW t \in On(work'), Clears(t)
        PROVE  Closure(parent, {Cleared(t)}) \subseteq Closure(parent', {Cleared(t)})
    <3>1. t \in On(work) /\ TaskOK(t) /\ t \in Tasks
      BY <1>1, <1>5, <1>6, <2>1 DEF Clears, new, TasksOK, Typed, On
    <3>2. Cleared(t) \in alive /\ Cleared(t) # x
      <4>1. CASE t.name = "vacate"
        <5>1. t.on \in content[t.with] /\ t.with \in Objects
          BY <3>1, <4>1 DEF TaskOK, Tasks
        <5> QED BY <1>1, <1>4, <4>1, <5>1 DEF Forest, Cleared
      <4>2. CASE t.name = "clear"
        BY <1>4, <3>1, <4>2 DEF TaskOK, Protected, Cleared
      <4> QED BY <2>1, <4>1, <4>2 DEF Clears
    <3> QED BY <1>11, <3>2
  <2> QED BY <1>6, <2>1, OrderedMoved
<1> QED BY <1>6, <1>10, <1>14, <1>16, <1>17, <1>18, <1>20 DEF RefsInv, Shape, Ordered

LEMMA ZeroKeeps == ASSUME RefsInv, SourceOK, Zero PROVE RefsInv'
<1> PICK x : x = Head(work).on
  OBVIOUS
<1> PICK p : p = parent[x]
  OBVIOUS
<1>1. Typed /\ Forest /\ Due /\ TasksOK
  BY DEF RefsInv
<1>2. work # <<>> /\ Head(work).name = "zero" /\ Head(work) \in On(work) /\ Tail(work) \in Seq(Tasks)
  BY <1>1, StackTop DEF Zero, Runs, Typed
<1>3. x \in alive
  BY <1>1, <1>2 DEF TasksOK, TaskOK
<1>4. CASE Outstanding(x)
  <2>1. /\ work' = <<>> \o Tail(work)
        /\ UNCHANGED <<alive, tree, client, listed>> /\ UNCHANGED <<refs, uriRefs, fault>>
    BY <1>3, <1>4 DEF Zero, Calls, counts
  <2>2. work' = Tail(work)
    BY <1>2, <2>1, NothingFirst
  <2>3. \A y \in alive : Head(work) = Task("zero", y, y) => Needed(y)
    BY <1>4 DEF Outstanding, Needed, Task
  <2> QED BY <1>2, <2>1, <2>2, <2>3, PopKeeps
<1>5. CASE ~Outstanding(x)
  <2>1. /\ alive' = alive \ {x} /\ parent' = [parent EXCEPT ![x] = x]
        /\ UNCHANGED <<content, client, listed, uriRefs, fault>>
        /\ Destruct(x)
    BY <1>3, <1>5 DEF Zero
  <2>2. p = x => refs' = refs /\ work' = Tail(work)
    BY <1>2, <2>1, NothingFirst DEF Destruct, Calls
  <2>3. p # x => /\ refs' = [refs EXCEPT ![p] = @ - 1]
                 /\ refs[p] = 1 => work' = Put(Task("zero", p, p), Tail(work))
                 /\ refs[p] # 1 => work' = Tail(work)
    BY <1>2, <2>1, NothingFirst DEF Destruct, Calls, Put
  <2> QED BY <1>3, <1>5, <2>1, <2>2, <2>3, DestroyKeeps
<1> QED BY <1>4, <1>5

\* A slot less: what is vacated is left to the stack.
LEMMA VacateKeeps == ASSUME RefsInv, Vacate PROVE RefsInv'
<1> PICK c : c = Head(work).on
  OBVIOUS
<1> PICK q : q = Head(work).with
  OBVIOUS
<1> DEFINE r == Task("release", c, c)
           new == {r}
<1>1. Typed /\ Forest /\ Counts /\ Due /\ TasksOK /\ Shape /\ Ordered
  BY DEF RefsInv
<1>2. work # <<>> /\ Head(work).name = "vacate" /\ Head(work) \in On(work) /\ Head(work) \in Tasks
  BY <1>1, StackTop DEF Vacate, Runs, Typed
<1>3. c \in content[q] /\ parent[c] = q /\ c \in Objects /\ q \in Objects
  BY <1>1, <1>2 DEF TasksOK, TaskOK, Tasks
<1>4. c \in alive /\ q \in alive /\ c \in Elements /\ alive \subseteq Objects /\ parent \in Parents
  BY <1>1, <1>3 DEF Forest, Typed, StateTypeOK, Parents
<1>5. SlotsOf(c) = {q}
  <2>1. \A g \in Objects : c \in content[g] => g = q
    BY <1>1, <1>3 DEF Forest
  <2> QED BY <1>3, <1>4, <2>1 DEF SlotsOf
<1>6. refs[c] + 1 > 1 /\ ~(refs[c] + 1 <= 1)
  <2>1. refs[c] \in Nat /\ refs[c] > 0
    BY <1>1, <1>4, <1>5, ReferredIsNeeded
  <2> QED BY <2>1
<1>7. /\ content' = [content EXCEPT ![q] = @ \ {c}] /\ work' = <<r>> \o Tail(work)
      /\ UNCHANGED <<alive, counts, parent, client, listed, fault>>
  BY <1>4, <1>6 DEF Vacate, Calls
<1>8. /\ alive' = alive /\ refs' = refs /\ uriRefs' = uriRefs /\ parent' = parent /\ held' = held
      /\ uriHeld' = uriHeld /\ listed' = listed /\ fault' = fault
  BY <1>7 DEF counts, client
<1>9. r \in Tasks /\ r.name = "release" /\ r.on = c
  BY <1>3 DEF Task, Tasks, TaskNames
<1>10. /\ work' \in Seq(Tasks) /\ ShapeOf(work') /\ OrderedBy(parent, work')
       /\ \A u \in On(work) : u = Head(work) \/ u \in On(work')
       /\ \A u \in On(work') :
            \/ u \in On(work) /\ u.name # "zero" /\ Precedes(parent, Head(work), u)
            \/ u = r
       /\ Puts(new)
  <2>1. new \in SUBSET {r} /\ (new = {r} => work' = Put(r, Tail(work))) /\ (new = {} => work' = Tail(work))
    BY <1>7 DEF Put
  <2> HIDE DEF new, r
  <2>2. /\ work' \in Seq(Tasks) /\ ShapeOf(work') /\ OrderedBy(parent, work')
        /\ \A u \in On(work) : u = Head(work) \/ u \in On(work')
        /\ \A u \in On(work') :
             \/ u \in On(work) /\ u.name # "zero" /\ Precedes(parent, Head(work), u)
             \/ u \in new
        /\ Puts(new)
    BY <1>1, <1>2, <1>9, <2>1, StackAfter
  <2> QED BY <2>2 DEF new
<1>11. /\ \A y : Pending("release uri", y)' = Pending("release uri", y)
       /\ \A y : y # c => Pending("release", y)' = Pending("release", y)
       /\ Pending("release", c)' = Pending("release", c) + 1
  <2> HIDE DEF r
  <2>1. Head(work).name \notin {"release", "release uri"} /\ new = {r}
    BY <1>2
  <2> HIDE DEF new
  <2>2. /\ \A y : Pending("release uri", y)' = Pending("release uri", y)
        /\ \A y : y # r.on => Pending("release", y)' = Pending("release", y)
        /\ Pending("release", r.on)' = Pending("release", r.on) + 1
    BY <1>9, <1>10, <2>1, LeftToStack
  <2> QED BY <1>9, <2>2
<1> HIDE DEF new, r
<1>12. /\ content' \in [Objects -> SUBSET Elements]
       /\ content'[q] = content[q] \ {c} /\ \A y \in Objects : y # q => content'[y] = content[y]
  BY <1>1, <1>3, <1>7 DEF Typed, StateTypeOK
<1>13. Typed'
  BY <1>1, <1>8, <1>10, <1>12, TypedAgain DEF Typed, StateTypeOK
<1>14. /\ SlotsOf(c)' = {} /\ \A y : y # c => SlotsOf(y)' = SlotsOf(y)
       /\ \A y : Children(y)' = Children(y) /\ Kept(y)' = Kept(y)
  <2>1. SlotsOf(c)' = {}
    BY <1>4, <1>5, <1>8, <1>12 DEF SlotsOf
  <2>2. ASSUME NEW y, y # c PROVE SlotsOf(y)' = SlotsOf(y)
    BY <1>4, <1>8, <1>12, <2>2 DEF SlotsOf
  <2>3. ASSUME NEW y PROVE Children(y)' = Children(y) /\ Kept(y)' = Kept(y)
    BY <1>8 DEF Children, Kept
  <2> QED BY <2>1, <2>2, <2>3
<1>15. \A y : y # c => Protected(y)' = Protected(y)
  BY <1>8, <1>14 DEF Protected, Roots
<1>16. Forest'
  <2>1. \A y \in alive : content'[y] \subseteq alive
    BY <1>1, <1>4, <1>12 DEF Forest
  <2>2. \A y \in Objects \ alive : content'[y] = {}
    BY <1>1, <1>4, <1>12 DEF Forest
  <2>3. \A e \in Objects : content'[e] \subseteq content[e]
    BY <1>12
  <2>4. ASSUME NEW e \in Objects, NEW d \in content'[e]
        PROVE  /\ parent'[d] = e \/ Task("hand", d, e) \in On(work')
               /\ \A g \in Objects : d \in content'[g] => g = e
    <3>1. Task("hand", d, e).name = "hand"
      BY DEF Task
    <3>2. Task("hand", d, e) \in On(work) => Task("hand", d, e) \in On(work')
      BY <1>2, <1>10, <3>1
    <3> QED BY <1>1, <1>8, <2>3, <3>2 DEF Forest
  <2> QED BY <1>1, <1>8, <2>1, <2>2, <2>4 DEF Forest
<1>17. Counts'
  <2>1. ASSUME NEW y \in alive, y # c PROVE refs'[y] = Referred(y)'
    <3>1. Slots(y)' = Slots(y) /\ Kids(y)' = Kids(y) /\ Stacked(y)' = Stacked(y)
      BY <1>11, <1>14, <2>1 DEF Slots, Kids, Stacked
    <3> QED BY <1>1, <1>8, <1>14, <3>1, CountStays
  <2>2. refs'[c] = Referred(c)'
    <3>1. Slots(c) = Slots(c)' + 1
      BY <1>3, <1>5, <1>14, JustOne DEF Slots
    <3>2. Kids(c)' = Kids(c) /\ Stacked(c)' = Stacked(c) + 1 /\ Kept(c)' = Kept(c)
      BY <1>11, <1>14 DEF Kids, Stacked
    <3> QED BY <1>1, <1>4, <1>8, <1>13, <3>1, <3>2, CountOver
  <2> QED BY <1>1, <1>8, <1>11, <2>1, <2>2 DEF Counts
<1>18. Due'
  <2>1. \A y : Task("zero", y, y).name = "zero"
    BY DEF Task
  <2> QED BY <1>1, <1>2, <1>8, <2>1 DEF Due, Needed
<1>19. c \notin Closure(parent, {q})
  BY <1>1, <1>3, <1>4 DEF Forest
<1>20. TasksOK'
  <2> SUFFICES ASSUME NEW u \in On(work') PROVE TaskOK(u)'
    BY DEF TasksOK
  <2>1. CASE u = r
    BY <1>4, <1>8, <1>9, <2>1 DEF TaskOK
  <2>2. CASE u \in On(work) /\ u.name # "zero" /\ Precedes(parent, Head(work), u)
    <3>1. TaskOK(u) /\ u \in Tasks
      BY <1>1, <2>2 DEF TasksOK, Typed, On
    <3>2. /\ Clears(u) => u.on \in Closure(parent, {q})
          /\ Places(u) => u.on # c
          /\ u.name = "reparent" => u.with # c
      BY <1>2, <2>2 DEF Precedes, Clears, Cleared
    <3>3. CASE u.name \in {"release", "release uri", "compact"}
      BY <1>8, <3>1, <3>3 DEF TaskOK
    <3>4. CASE u.name = "reparent"
      BY <1>8, <1>15, <3>1, <3>2, <3>4 DEF TaskOK, Places
    <3>5. CASE u.name = "enter"
      <4>1. u.on # c
        BY <3>2, <3>5 DEF Places
      <4>2. \A v : v.name = "reparent" => (v \in On(work') <=> v \in On(work))
        BY <1>2, <1>9, <1>10
      <4> QED BY <1>8, <1>14, <1>15, <3>1, <3>5, <4>1, <4>2 DEF TaskOK
    <3>6. CASE u.name = "hand"
      <4>1. u.on # c /\ u.with \in Objects
        BY <3>1, <3>2, <3>6 DEF Places, Tasks
      <4> QED BY <1>8, <1>12, <3>1, <3>6, <4>1 DEF TaskOK
    <3>7. CASE u.name = "vacate"
      <4>1. u.on # c /\ u.with \in Objects
        BY <1>19, <3>1, <3>2, <3>7 DEF Clears, Tasks
      <4> QED BY <1>8, <1>12, <3>1, <3>7, <4>1 DEF TaskOK
    <3>8. CASE u.name = "clear"
      <4>1. u.on # c
        BY <1>19, <3>2, <3>8 DEF Clears
      <4> QED BY <1>15, <3>1, <3>8, <4>1 DEF TaskOK
    <3>9. u.name \in TaskNames
      BY <3>1 DEF Tasks
    <3> QED BY <2>2, <3>3, <3>4, <3>5, <3>6, <3>7, <3>8, <3>9 DEF TaskNames
  <2> QED BY <1>10, <2>1, <2>2
<1> QED BY <1>8, <1>10, <1>13, <1>16, <1>17, <1>18, <1>20 DEF RefsInv, Shape, Ordered

\* A step that only changes the stack, or closes a document in the list.
LEMMA QuietKeeps ==
  ASSUME RefsInv, UNCHANGED <<alive, tree, client>>, UNCHANGED <<refs, uriRefs, fault>>,
         listed' \in [Documents -> {"open", "closed", "gone"}],
         \A d \in Documents : listed'[d] = "gone" <=> listed[d] = "gone",
         work' \in Seq(Tasks), ShapeOf(work'), OrderedBy(parent, work'),
         \A u \in On(work') : TaskOK(u)',
         \A y \in Objects : /\ Pending("release", y)' = Pending("release", y)
                            /\ Pending("release uri", y)' = Pending("release uri", y),
         \A c, e : Task("hand", c, e) \in On(work) => Task("hand", c, e) \in On(work'),
         \A y \in alive : Needed(y) \/ (work' # <<>> /\ Head(work') = Task("zero", y, y))
  PROVE  RefsInv'
<1>1. Typed /\ Forest /\ Counts
  BY DEF RefsInv
<1>2. /\ alive' = alive /\ refs' = refs /\ uriRefs' = uriRefs /\ parent' = parent /\ held' = held
      /\ uriHeld' = uriHeld /\ content' = content /\ fault' = fault
  BY DEF tree, client
<1>3. Typed'
  BY <1>1, <1>2, TypedAgain DEF Typed, StateTypeOK
<1>4. Forest'
  BY <1>1, <1>2 DEF Forest
<1>5. Counts'
  <2>1. ASSUME NEW y \in alive PROVE refs'[y] = Referred(y)'
    <3>1. Slots(y)' = Slots(y) /\ Kids(y)' = Kids(y)
      BY <1>2 DEF Slots, Kids, SlotsOf, Children
    <3>2. Kept(y)' = Kept(y)
      BY <1>2 DEF Kept
    <3>3. Stacked(y)' = Stacked(y)
      BY <1>1 DEF Stacked, Typed, StateTypeOK
    <3> QED BY <1>1, <1>2, <3>1, <3>2, <3>3, CountStays
  <2>2. \A d \in Documents : Pending("release uri", d)' = Pending("release uri", d)
    BY FiniteObjects
  <2> QED BY <1>1, <1>2, <2>1, <2>2 DEF Counts
<1>6. Due'
  BY <1>2 DEF Due, Needed
<1> QED BY <1>2, <1>3, <1>4, <1>5, <1>6 DEF RefsInv, TasksOK, Shape, Ordered

\* The stack holds as many as before, but for the task that is done.
LEMMA PushedBoth ==
  ASSUME NEW s \in Seq(Tasks), NEW t \in Tasks, NEW k, NEW y, t.name # k
  PROVE  PendingIn(Put(t, s), k, y) = PendingIn(s, k, y)
<1> PICK new : new = {t}
  OBVIOUS
<1>1. Adds(Put(t, s), s, new)
  BY AddsPut
<1>2. Among(new, k, y) = 0
  BY DEF Among, Is
<1>3. PendingIn(s, k, y) \in Nat /\ PendingIn(Put(t, s), k, y) = PendingIn(s, k, y) + Among(new, k, y)
  BY <1>1 DEF Adds
<1> QED BY <1>2, <1>3, NothingMore

LEMMA PushedThree ==
  ASSUME NEW s \in Seq(Tasks), NEW a \in Tasks, NEW b \in Tasks, NEW c \in Tasks, NEW k, NEW y,
         a.name # k, b.name # k, c.name # k, NEW w, w = Put(a, Put(b, Put(c, s)))
  PROVE  PendingIn(w, k, y) = PendingIn(s, k, y)
<1> PICK s1 : s1 = Put(c, s)
  OBVIOUS
<1> PICK s2 : s2 = Put(b, s1)
  OBVIOUS
<1>1. s1 \in Seq(Tasks)
  BY StackPush
<1>2. PendingIn(s1, k, y) = PendingIn(s, k, y)
  BY PushedBoth
<1>4. s2 \in Seq(Tasks)
  BY <1>1, StackPush
<1>5. PendingIn(s2, k, y) = PendingIn(s1, k, y)
  BY <1>1, PushedBoth
<1>3. PendingIn(Put(a, s2), k, y) = PendingIn(s2, k, y)
  BY <1>4, PushedBoth
<1> QED BY <1>2, <1>3, <1>5

LEMMA PoppedBoth ==
  ASSUME NEW s \in Seq(Tasks), s # <<>>, NEW k, NEW y, Head(s).name # k
  PROVE  PendingIn(s, k, y) = PendingIn(Tail(s), k, y)
<1> PICK old : old = {Head(s)}
  OBVIOUS
<1>1. Adds(s, Tail(s), old)
  BY AddsTail
<1>2. Among(old, k, y) = 0
  BY DEF Among, Is
<1>3. PendingIn(Tail(s), k, y) \in Nat /\ PendingIn(s, k, y) = PendingIn(Tail(s), k, y) + Among(old, k, y)
  BY <1>1 DEF Adds
<1> QED BY <1>2, <1>3, NothingMore

LEMMA PutTwo ==
  ASSUME NEW s \in Seq(Tasks), NEW a \in Tasks, NEW b \in Seq(Tasks)
  PROVE  Put(a, b) \o s = Put(a, b \o s)
<1>1. <<a>> \in Seq(Tasks)
  OBVIOUS
<1> QED BY <1>1, ConcatAssociative DEF Put

\* A sequence written out is its first task, put on the others.
LEMMA PutAll ==
  ASSUME NEW a \in Tasks, NEW s \in Seq(Tasks), NEW w \in Seq(Tasks), Len(w) = Len(s) + 1,
         w[1] = a, \A i \in 1..(Len(s) + 1) : i # 1 => w[i] = s[i - 1]
  PROVE  w = Put(a, s)
<1>1. /\ Put(a, s) \in Seq(Tasks) /\ Len(Put(a, s)) = Len(s) + 1 /\ Put(a, s)[1] = a
      /\ \A i \in 1..(Len(s) + 1) : i # 1 => Put(a, s)[i] = s[i - 1]
  BY PushedItems, StackPush
<1> QED BY <1>1, SeqEqual

LEMMA PutPair == \A a, b \in Tasks : <<a, b>> = Put(a, <<b>>) /\ <<a, b>> \in Seq(Tasks)
<1> TAKE a, b \in Tasks
<1> PICK w : w = <<a, b>>
  OBVIOUS
<1> PICK s : s = <<b>>
  OBVIOUS
<1>1. w \in Seq(Tasks) /\ s \in Seq(Tasks) /\ Len(w) = 2 /\ Len(s) = 1 /\ w[1] = a /\ w[2] = b /\ s[1] = b
  OBVIOUS
<1>2. Len(w) = Len(s) + 1
  BY ONLY <1>1
<1>3. \A i \in 1..(Len(s) + 1) : i # 1 => w[i] = s[i - 1]
  <2>1. \A i \in 1..(1 + 1) : i # 1 => i = 2 /\ i - 1 = 1
    OBVIOUS
  <2> QED BY ONLY <1>1, <2>1
<1>4. w = Put(a, s)
  BY ONLY <1>1, <1>2, <1>3, PutAll
<1> QED BY <1>1, <1>4

LEMMA PutThree ==
  ASSUME NEW s \in Seq(Tasks), NEW a \in Tasks, NEW b \in Tasks, NEW c \in Tasks
  PROVE  <<a, b, c>> \o s = Put(a, Put(b, Put(c, s)))
<1> PICK w : w = <<a, b, c>>
  OBVIOUS
<1> PICK v : v = <<b, c>>
  OBVIOUS
<1>1. <<c>> \o s = Put(c, s) /\ <<c>> \in Seq(Tasks)
  BY DEF Put
<1>2. v = Put(b, <<c>>) /\ v \in Seq(Tasks)
  BY PutPair
<1>3. w = Put(a, v)
  <2>1. /\ w \in Seq(Tasks) /\ Len(w) = 3 /\ Len(v) = 2
        /\ w[1] = a /\ w[2] = b /\ w[3] = c /\ v[1] = b /\ v[2] = c
    OBVIOUS
  <2>2. Len(w) = Len(v) + 1
    BY ONLY <2>1
  <2>3. \A i \in 1..(Len(v) + 1) : i # 1 => w[i] = v[i - 1]
    <3>1. \A i \in 1..(2 + 1) : i # 1 => (i = 2 /\ i - 1 = 1) \/ (i = 3 /\ i - 1 = 2)
      OBVIOUS
    <3> QED BY ONLY <2>1, <3>1
  <2> QED BY ONLY <1>2, <2>1, <2>2, <2>3, PutAll
<1>4. v \o s = Put(b, Put(c, s))
  BY ONLY <1>1, <1>2, PutTwo
<1>5. w \o s = Put(a, v \o s)
  BY ONLY <1>2, <1>3, PutTwo
<1> QED BY <1>4, <1>5

LEMMA CompactKeeps == ASSUME RefsInv, Compact PROVE RefsInv'
<1> PICK d : d = Head(work).on
  OBVIOUS
<1> DEFINE r == Task("release", d, d)
           new == {r}
<1>1. Typed /\ Forest /\ Counts /\ Due /\ TasksOK /\ Shape /\ Ordered
  BY DEF RefsInv
<1>2. /\ work # <<>> /\ Head(work).name = "compact" /\ Head(work) \in On(work)
      /\ Tail(work) \in Seq(Tasks) /\ Tail(work) = <<>>
  BY <1>1, StackTop, ShapeTop DEF Compact, Runs, Typed, Shape
<1>3. d \in Documents /\ d \in Objects /\ listed[d] # "gone" /\ d \in alive
  <2>1. d \in Documents /\ listed[d] # "gone"
    BY <1>1, <1>2 DEF TasksOK, TaskOK
  <2> QED BY <1>1, <2>1, FiniteObjects DEF Forest
<1>4. \A y : Task("zero", y, y).name = "zero"
  BY DEF Task
<1>5. CASE refs[d] > 1
  <2>0. refs[d] > 1 /\ ~(refs[d] <= 1)
    BY <1>1, <1>3, <1>5 DEF Typed, StateTypeOK
  <2>1. /\ work' = <<>> \o Tail(work)
        /\ UNCHANGED <<alive, tree, client, listed>> /\ UNCHANGED <<refs, uriRefs, fault>>
    BY <2>0 DEF Compact, Calls, counts
  <2>2. work' = Tail(work)
    BY <1>2, <2>1, NothingFirst
  <2> QED BY <1>2, <1>4, <2>1, <2>2, PopKeeps
<1>6. CASE ~(refs[d] > 1)
  <2>1. /\ listed' = [listed EXCEPT ![d] = "gone"] /\ work' = <<r>> \o Tail(work)
        /\ UNCHANGED <<alive, counts, tree, client, fault>>
    BY <1>6 DEF Compact, Calls
  <2>2. /\ alive' = alive /\ refs' = refs /\ uriRefs' = uriRefs /\ parent' = parent /\ held' = held
        /\ uriHeld' = uriHeld /\ content' = content /\ fault' = fault
    BY <2>1 DEF counts, tree, client
  <2>3. r \in Tasks /\ r.name = "release" /\ r.on = d
    BY <1>3 DEF Task, Tasks, TaskNames
  <2>4. /\ work' \in Seq(Tasks) /\ ShapeOf(work') /\ OrderedBy(parent, work') /\ Puts(new)
        /\ \A u \in On(work) : u = Head(work) \/ u \in On(work')
    <3>1. new \in SUBSET {r} /\ (new = {r} => work' = Put(r, Tail(work))) /\ (new = {} => work' = Tail(work))
      BY <2>1 DEF Put
    <3> HIDE DEF new, r
    <3> QED BY <1>1, <1>2, <2>3, <3>1, StackAfter
  <2>5. On(work') = {r}
    <3> HIDE DEF r
    <3>1. work' = <<r>>
      BY <1>2, <2>1, <2>3, StackOne DEF Put
    <3> QED BY <2>3, <3>1, StackOne
  <2>6. /\ \A y : Pending("release uri", y)' = Pending("release uri", y)
        /\ \A y : y # d => Pending("release", y)' = Pending("release", y)
        /\ Pending("release", d)' = Pending("release", d) + 1
    <3> HIDE DEF r
    <3>1. Head(work).name \notin {"release", "release uri"} /\ new = {r}
      BY <1>2
    <3> HIDE DEF new
    <3>2. /\ \A y : Pending("release uri", y)' = Pending("release uri", y)
          /\ \A y : y # r.on => Pending("release", y)' = Pending("release", y)
          /\ Pending("release", r.on)' = Pending("release", r.on) + 1
      BY <2>3, <2>4, <3>1, LeftToStack
    <3> QED BY <2>3, <3>2
  <2> HIDE DEF new, r
  <2>7. /\ listed' \in [Documents -> {"open", "closed", "gone"}]
        /\ listed'[d] = "gone" /\ \A y \in Documents : y # d => listed'[y] = listed[y]
    BY <1>1, <1>3, <2>1 DEF Typed, StateTypeOK
  <2>8. Typed'
    BY <1>1, <2>2, <2>4, <2>7, TypedAgain DEF Typed, StateTypeOK
  <2>9. Forest'
    <3>1. \A c, e : Task("hand", c, e).name = "hand"
      BY DEF Task
    <3>2. \A c, e : Task("hand", c, e) \in On(work) => Task("hand", c, e) \in On(work')
      BY <1>2, <2>4, <3>1
    <3>3. \A y \in Documents \ alive' : listed'[y] = "gone"
      BY <1>1, <2>2, <2>7 DEF Forest
    <3> QED BY <1>1, <2>2, <3>2, <3>3 DEF Forest
  <2>10. \A y : Slots(y)' = Slots(y) /\ Kids(y)' = Kids(y)
    BY <2>2 DEF Slots, Kids, SlotsOf, Children
  <2>11. Counts'
    <3>1. ASSUME NEW y \in alive, y # d PROVE refs'[y] = Referred(y)'
      <4>1. Kept(y)' = Kept(y) /\ Stacked(y)' = Stacked(y)
        BY <2>2, <2>6, <2>7, <3>1 DEF Kept, Stacked
      <4> QED BY <1>1, <2>2, <2>10, <4>1, CountStays
    <3>2. refs'[d] = Referred(d)'
      <4>1. Kept(d) = held[d] + 1 /\ Kept(d)' = held[d] + 0 /\ held[d] \in Nat
        BY <1>1, <1>3, <2>2, <2>7, CountsAreNat DEF Kept
      <4>2. Kept(d) = Kept(d)' + 1
        BY <4>1
      <4>3. Stacked(d)' = Stacked(d) + 1
        BY <2>6 DEF Stacked
      <4> QED BY <1>1, <1>3, <2>2, <2>8, <2>10, <4>2, <4>3, CountOver
    <3> QED BY <1>1, <2>2, <2>6, <3>1, <3>2 DEF Counts
  <2>12. Due'
    BY <1>1, <1>2, <1>4, <2>2 DEF Due, Needed
  <2>13. TasksOK'
    BY <1>3, <2>2, <2>3, <2>5 DEF TasksOK, TaskOK
  <2> QED BY <2>2, <2>4, <2>8, <2>9, <2>11, <2>12, <2>13 DEF RefsInv, Shape, Ordered
<1> QED BY <1>5, <1>6

LEMMA ClearKeeps == ASSUME RefsInv, Clear PROVE RefsInv'
<1> PICK e : e = Head(work).on
  OBVIOUS
<1>1. Typed /\ Forest /\ Counts /\ Due /\ TasksOK /\ Shape /\ Ordered
  BY DEF RefsInv
<1>2. /\ work # <<>> /\ Head(work).name = "clear" /\ Head(work) \in On(work) /\ work \in Seq(Tasks)
      /\ Tail(work) \in Seq(Tasks) /\ UNCHANGED <<alive, counts, tree, client, listed>>
  BY <1>1, StackTop DEF Clear, Runs, Typed
<1>3. Protected(e) /\ e \in alive /\ e \in Objects
  <2>1. Protected(e)
    BY <1>1, <1>2 DEF TasksOK, TaskOK
  <2> QED BY <1>1, <2>1 DEF Protected, Typed, StateTypeOK
<1>4. \A y : Task("zero", y, y).name = "zero"
  BY DEF Task
<1>5. UNCHANGED <<alive, tree, client, listed>> /\ UNCHANGED <<refs, uriRefs, fault>>
  BY <1>2, <1>3 DEF Clear, counts
<1>6. CASE work' = <<>> \o Tail(work)
  <2>1. work' = Tail(work)
    BY <1>2, <1>6, NothingFirst
  <2> QED BY <1>2, <1>4, <1>5, <2>1, PopKeeps
<1>7. CASE \E c \in content[e] :
             work' = <<Task("clear", c, c), Task("vacate", c, e), Task("clear", e, e)>> \o Tail(work)
  <2> PICK c \in content[e] :
             work' = <<Task("clear", c, c), Task("vacate", c, e), Task("clear", e, e)>> \o Tail(work)
    BY <1>7
  <2> DEFINE t1 == Task("clear", c, c)
             t2 == Task("vacate", c, e)
             t3 == Task("clear", e, e)
             s0 == Tail(work)
             s1 == Put(t3, s0)
             s2 == Put(t2, s1)
             s3 == Put(t1, s2)
  <2>1. \A t \in On(work) : ~Places(t)
    BY <1>1, <1>2, ShapeTop DEF Shape
  <2>2. c \in alive /\ c \in Objects /\ parent[c] = e /\ parent \in Parents
    <3>1. c \in alive /\ c \in Objects /\ parent \in Parents
      BY <1>1, <1>3 DEF Forest, Typed, StateTypeOK, Parents
    <3>2. parent[c] = e \/ Task("hand", c, e) \in On(work)
      BY <1>1, <1>3 DEF Forest
    <3>3. Places(Task("hand", c, e))
      BY DEF Task, Places
    <3> QED BY <2>1, <3>1, <3>2, <3>3
  <2>3. /\ t1 \in Tasks /\ t1.name = "clear" /\ t1.on = c
        /\ t2 \in Tasks /\ t2.name = "vacate" /\ t2.on = c /\ t2.with = e
        /\ t3 \in Tasks /\ t3.name = "clear" /\ t3.on = e
    BY <1>3, <2>2 DEF Task, Tasks, TaskNames
  <2>4. /\ s0 \in Seq(Tasks) /\ ShapeOf(s0) /\ NoZero(s0) /\ OrderedBy(parent, s0)
        /\ On(work) = {Head(work)} \union On(s0)
        /\ \A u \in On(s0) : u.name # "zero" /\ ~Places(u) /\ Precedes(parent, Head(work), u)
    BY <1>1, <1>2, <2>1, Popped
  <2>5. work' = s3
    <3>1. work' = <<t1, t2, t3>> \o s0
      OBVIOUS
    <3> HIDE DEF t1, t2, t3, s0
    <3> QED BY <2>3, <2>4, <3>1, PutThree
  <2> HIDE DEF t1, t2, t3, s0
  <2>6. /\ s1 \in Seq(Tasks) /\ On(s1) = {t3} \union On(s0)
        /\ s2 \in Seq(Tasks) /\ On(s2) = {t2} \union On(s1)
        /\ s3 \in Seq(Tasks) /\ On(s3) = {t1} \union On(s2)
        /\ s3 # <<>>
    BY <2>3, <2>4, StackPush
  <2>7. ~Places(t1) /\ ~Places(t2) /\ ~Places(t3)
    BY <2>3 DEF Places
  <2>8. ShapeOf(s1) /\ NoZero(s1)
    BY <2>3, <2>4, ShapePush
  <2>9. ShapeOf(s2) /\ NoZero(s2)
    <3> HIDE DEF s1
    <3> QED BY <2>3, <2>6, <2>8, ShapePush
  <2>10. ShapeOf(s3)
    <3>1. \A u \in On(s2) : ~Places(u)
      BY <2>4, <2>6, <2>7
    <3> HIDE DEF s2
    <3> QED BY <2>3, <2>6, <2>9, <3>1, ShapePush
  <2>11. /\ e \in Closure(parent, {e}) /\ c \in Closure(parent, {c})
         /\ e \in Closure(parent, {c}) /\ Closure(parent, {e}) \subseteq Closure(parent, {c})
    <3>1. /\ e \in Closure(parent, {e}) /\ c \in Closure(parent, {c}) /\ e \in Closure(parent, {c})
      BY <1>3, <2>2, ClosureCloses
    <3> QED BY <2>2, <3>1, ClosureChain
  <2>12. \A u \in On(s0) : Clears(u) => u.on \in Closure(parent, {e})
    BY <1>2, <2>4 DEF Precedes, Clears, Cleared
  <2>13. OrderedBy(parent, s1)
    <3>1. \A u \in On(s0) : Precedes(parent, t3, u)
      BY <2>3, <2>4, <2>12 DEF Precedes, Cleared, Places
    <3> QED BY <2>3, <2>4, <3>1, OrderedPush
  <2>14. \A u \in On(s1) : (Clears(u) => u.on \in Closure(parent, {e})) /\ ~Places(u)
    BY <2>3, <2>4, <2>6, <2>7, <2>11, <2>12
  <2>15. OrderedBy(parent, s2)
    <3>1. \A u \in On(s1) : Precedes(parent, t2, u)
      BY <2>3, <2>14 DEF Precedes, Cleared, Places
    <3> HIDE DEF s1
    <3> QED BY <2>3, <2>6, <2>13, <3>1, OrderedPush
  <2>16. OrderedBy(parent, s3)
    <3>1. \A u \in On(s2) : (Clears(u) => u.on \in Closure(parent, {c})) /\ ~Places(u)
      BY <2>3, <2>6, <2>7, <2>11, <2>14
    <3>2. \A u \in On(s2) : Precedes(parent, t1, u)
      BY <2>3, <3>1 DEF Precedes, Cleared, Places
    <3> HIDE DEF s2
    <3> QED BY <2>3, <2>6, <2>15, <3>2, OrderedPush
  <2> HIDE DEF s1, s2, s3
  <2>22. s3 = Put(t1, Put(t2, Put(t3, s0)))
    BY DEF s1, s2, s3
  <2>17. ASSUME NEW k, NEW y, t1.name # k, t2.name # k, t3.name # k, Head(work).name # k
         PROVE  Pending(k, y)' = Pending(k, y)
    <3>1. Pending(k, y)' = PendingIn(s3, k, y) /\ Pending(k, y) = PendingIn(work, k, y)
      BY <2>5 DEF Pending, PendingIn
    <3>2. PendingIn(work, k, y) = PendingIn(s0, k, y)
      BY <1>2, <2>17, PoppedBoth DEF s0
    <3>3. PendingIn(s3, k, y) = PendingIn(s0, k, y)
      <4>1. t1 \in Tasks /\ t2 \in Tasks /\ t3 \in Tasks /\ s0 \in Seq(Tasks)
        BY <2>3, <2>4
      <4> QED BY ONLY <2>17, <2>22, <4>1, PushedThree
    <3> QED BY <3>1, <3>2, <3>3
  <2>18. TasksOK'
    <3>1. \A x : SlotsOf(x)' = SlotsOf(x) /\ Protected(x)' = Protected(x)
      BY <1>5, SameTree
    <3>2. parent' = parent /\ content' = content
      BY <1>5 DEF tree
    <3>3. Protected(c)
      BY <1>3, <2>2 DEF Protected, SlotsOf
    <3>4. TaskOK(t1)'
      BY <2>3, <3>1, <3>3 DEF TaskOK
    <3>5. TaskOK(t2)'
      BY <2>2, <2>3, <3>2 DEF TaskOK
    <3>6. TaskOK(t3)'
      BY <1>3, <2>3, <3>1 DEF TaskOK
    <3> PICK new : new = {t1, t2, t3}
      OBVIOUS
    <3>7. \A u \in new : u.name # "reparent" /\ TaskOK(u)'
      BY <2>3, <3>4, <3>5, <3>6
    <3>8. /\ \A u \in On(work) : u = Head(work) \/ u \in On(work')
          /\ \A u \in On(work') : (u \in On(work) /\ u.name # "zero") \/ u \in new
      BY <2>4, <2>5, <2>6
    <3> QED BY <1>1, <1>2, <1>5, <3>7, <3>8, OthersOK
  <2>19. \A a, b : Task("hand", a, b) \in On(work) => Task("hand", a, b) \in On(work')
    <3>1. \A a, b : Places(Task("hand", a, b))
      BY DEF Task, Places
    <3> QED BY <2>1, <3>1
  <2>20. \A y \in alive : Needed(y)
    BY <1>1, <1>2, <1>4 DEF Due
  <2>21. listed' = listed /\ UNCHANGED <<alive, tree, client>>
    BY <1>5
  <2>23. listed' \in [Documents -> {"open", "closed", "gone"}]
    BY <1>1, <2>21 DEF Typed, StateTypeOK
  <2>24. \A y : /\ Pending("release", y)' = Pending("release", y)
                /\ Pending("release uri", y)' = Pending("release uri", y)
    BY <1>2, <2>3, <2>17
  <2> QED BY <1>5, <2>5, <2>6, <2>10, <2>16, <2>18, <2>19, <2>20, <2>21, <2>23, <2>24, QuietKeeps DEF TasksOK
<1> QED BY <1>2, <1>3, <1>6, <1>7 DEF Clear, Calls

\* A step that ends the call by putting c into the contents of its parent p.
LEMMA LastSlot ==
  ASSUME RefsInv, work # <<>>, Tail(work) = <<>>, work' = <<>>,
         Head(work).name \in {"enter", "hand"},
         NEW c \in Elements, c = Head(work).on, c \in alive, NEW p, p = parent[c],
         UNCHANGED <<alive, parent, client, listed, uriRefs, fault>>,
         content' \in [Objects -> SUBSET Elements],
         \A y \in Objects : c \in content'[y] <=> y = p,
         \A y \in Objects : content'[y] \ {c} = content[y] \ {c},
         refs' \in [Objects -> Int], \A y \in alive : y # c => refs'[y] = refs[y],
         \/ SlotsOf(c) = {} /\ refs'[c] = refs[c] + 1
         \/ (\E q \in Objects : SlotsOf(c) = {q}) /\ refs'[c] = refs[c]
  PROVE  RefsInv'
<1>1. Typed /\ Forest /\ Counts /\ Due /\ TasksOK /\ Shape /\ Ordered
  BY DEF RefsInv
<1>2. /\ alive' = alive /\ uriRefs' = uriRefs /\ parent' = parent /\ held' = held
      /\ uriHeld' = uriHeld /\ listed' = listed /\ fault' = fault
  BY DEF client
<1>3. /\ On(work) = {Head(work)} /\ Adds(work, Tail(work), {Head(work)})
      /\ ShapeOf(<<>>) /\ OrderedBy(parent, <<>>) /\ On(<<>>) = {} /\ <<>> \in Seq(Tasks)
  <2>1. /\ On(work) = {Head(work)} \union On(Tail(work)) /\ Adds(work, Tail(work), {Head(work)})
        /\ ShapeOf(Tail(work)) /\ OrderedBy(parent, Tail(work)) /\ Tail(work) \in Seq(Tasks)
    BY <1>1, Popped
  <2> QED BY <2>1, StackEmpty
<1>4. Typed'
  BY <1>1, <1>2, <1>3, TypedAgain DEF Typed, StateTypeOK
<1>5. /\ \A y : /\ Pending("release", y)' = Pending("release", y)
                /\ Pending("release uri", y)' = Pending("release uri", y)
  <2> PICK new : new = {}
    OBVIOUS
  <2>1. Puts(new)
    <3>1. Task("zero", c, c) \in Tasks
      BY FiniteObjects DEF Task, Tasks, TaskNames
    <3>2. Adds(<<>>, <<>>, {})
      BY <1>3, <3>1, AddsNothing
    <3> QED BY <1>3, <3>2 DEF Puts
  <2> QED BY <2>1, NothingReleased
<1>6. /\ c \in Objects /\ p \in alive /\ p \in Objects /\ alive \subseteq Objects
  BY <1>1, FiniteObjects DEF Forest, Typed, StateTypeOK
<1>7. \A y : /\ y # c => SlotsOf(y)' = SlotsOf(y)
             /\ Children(y)' = Children(y) /\ Kept(y)' = Kept(y)
  <2>1. ASSUME NEW y, y # c PROVE SlotsOf(y)' = SlotsOf(y)
    <3>1. \A e \in Objects : y \in content'[e] <=> y \in content[e]
      BY <2>1
    <3> QED BY <1>2, <1>6, <3>1 DEF SlotsOf
  <2>2. ASSUME NEW y PROVE Children(y)' = Children(y) /\ Kept(y)' = Kept(y)
    BY <1>2 DEF Children, Kept
  <2> QED BY <2>1, <2>2
<1>8. Forest'
  <2>1. ASSUME NEW y \in alive PROVE content'[y] \subseteq alive
    <3>1. content[y] \subseteq alive
      BY <1>1 DEF Forest
    <3>2. y \in Objects /\ content'[y] \ {c} = content[y] \ {c}
      BY <1>6
    <3> QED BY <3>1, <3>2
  <2>2. ASSUME NEW y \in Objects \ alive PROVE content'[y] = {}
    <3>1. content[y] = {} /\ y # p
      BY <1>1, <1>6 DEF Forest
    <3> QED BY <3>1
  <2>3. ASSUME NEW e \in Objects, NEW d \in content'[e]
        PROVE  /\ parent'[d] = e \/ Task("hand", d, e) \in On(work')
               /\ \A g \in Objects : d \in content'[g] => g = e
    <3>1. CASE d = c
      BY <1>2, <2>3, <3>1
    <3>2. CASE d # c
      <4>1. d \in content[e] /\ \A g \in Objects : d \in content'[g] => d \in content[g]
        BY <3>2
      <4>2. Task("hand", d, e) # Head(work)
        BY <3>2 DEF Task
      <4>3. Task("hand", d, e) \notin On(work)
        BY <1>3, <4>2
      <4>4. parent[d] = e /\ \A g \in Objects : d \in content[g] => g = e
        BY <1>1, <4>1, <4>3 DEF Forest
      <4> QED BY <1>2, <4>1, <4>4
    <3> QED BY <3>1, <3>2
  <2> QED BY <1>1, <1>2, <2>1, <2>2, <2>3 DEF Forest
<1>9. SlotsOf(c)' = {p}
  BY <1>2, <1>6 DEF SlotsOf
<1>10. Counts'
  <2>1. ASSUME NEW y \in alive, y # c PROVE refs'[y] = Referred(y)'
    <3>1. Slots(y)' = Slots(y) /\ Kids(y)' = Kids(y) /\ Stacked(y)' = Stacked(y)
      BY <1>5, <1>7, <2>1 DEF Slots, Kids, Stacked
    <3> QED BY <1>1, <1>7, <2>1, <3>1, CountStays
  <2>2. refs'[c] = Referred(c)'
    <3>1. Kids(c)' = Kids(c) /\ Stacked(c)' = Stacked(c) /\ Kept(c)' = Kept(c)
      BY <1>5, <1>7 DEF Kids, Stacked
    <3>2. Slots(c)' = 1
      BY <1>6, <1>9, JustOne DEF Slots
    <3>3. CASE SlotsOf(c) = {} /\ refs'[c] = refs[c] + 1
      <4>1. Slots(c) = 0
        BY <1>6, <3>3, JustOne DEF Slots
      <4>2. Slots(c)' = Slots(c) + 1
        BY <3>2, <4>1
      <4> QED BY <1>1, <1>4, <3>1, <3>3, <4>2, CountUp
    <3>4. CASE (\E q \in Objects : SlotsOf(c) = {q}) /\ refs'[c] = refs[c]
      <4>1. Slots(c) = 1
        BY <3>4, JustOne DEF Slots
      <4>2. Slots(c)' = Slots(c)
        BY <3>2, <4>1
      <4> QED BY <1>1, <3>1, <3>4, <4>2, CountStays
    <3> QED BY <3>3, <3>4
  <2> QED BY <1>1, <1>2, <1>5, <2>1, <2>2 DEF Counts
<1>11. Due'
  <2>1. \A y : Task("zero", y, y).name = "zero"
    BY DEF Task
  <2>2. ASSUME NEW y \in alive PROVE Needed(y)'
    <3>1. Needed(y)
      BY <1>1, <2>1 DEF Due
    <3>2. refs[y] \in Nat
      BY <1>1, ReferredIsNeeded
    <3>3. refs'[y] = refs[y] \/ refs'[y] = refs[y] + 1
      OBVIOUS
    <3>4. refs[y] > 0 => refs'[y] > 0
      BY <3>2, <3>3
    <3> QED BY <1>2, <3>1, <3>4 DEF Needed
  <2> QED BY <1>2, <2>2 DEF Due
<1>12. TasksOK'
  BY <1>3 DEF TasksOK
<1> QED BY <1>2, <1>3, <1>4, <1>8, <1>10, <1>11, <1>12 DEF RefsInv, Shape, Ordered

LEMMA EnterKeeps == ASSUME RefsInv, Enter PROVE RefsInv'
<1> PICK c : c = Head(work).on
  OBVIOUS
<1> PICK p : p = Head(work).with
  OBVIOUS
<1>1. Typed /\ Forest /\ Counts /\ Due /\ TasksOK /\ Shape /\ Ordered
  BY DEF RefsInv
<1>2. /\ work # <<>> /\ Head(work).name = "enter" /\ Head(work) \in On(work) /\ Tail(work) = <<>>
      /\ On(work) = {Head(work)} \union On(Tail(work)) /\ On(<<>>) = {}
      /\ Tail(work) \in Seq(Tasks)
  BY <1>1, StackTop, StackEmpty, ShapeTop DEF Enter, Runs, Typed, Shape
<1>3. /\ c \in Elements /\ c \in alive /\ SlotsOf(c) = {} /\ c \in Objects
      /\ parent[c] = p \/ \E u \in On(work) : u.name = "reparent"
  BY <1>1, <1>2, FiniteObjects DEF TasksOK, TaskOK, Protected
<1>4. parent[c] = p
  BY <1>2, <1>3
<1>5. p \in alive /\ p \in Objects /\ alive \subseteq Objects
  BY <1>1, <1>3, <1>4 DEF Forest, Typed, StateTypeOK
<1>6. /\ content' = [content EXCEPT ![p] = @ \union {c}] /\ refs' = [refs EXCEPT ![c] = @ + 1]
      /\ work' = <<>> \o Tail(work)
      /\ UNCHANGED <<alive, parent, client, listed, uriRefs, fault>>
  BY <1>3, <1>5 DEF Enter, Calls
<1>7. work' = <<>>
  BY <1>2, <1>6, NothingFirst
<1>8. /\ content' \in [Objects -> SUBSET Elements] /\ content'[p] = content[p] \union {c}
      /\ \A y \in Objects : y # p => content'[y] = content[y]
      /\ refs' \in [Objects -> Int] /\ refs'[c] = refs[c] + 1
      /\ \A y \in Objects : y # c => refs'[y] = refs[y]
  BY <1>1, <1>3, <1>5, <1>6 DEF Typed, StateTypeOK
<1>9. \A y \in Objects : c \notin content[y]
  BY <1>1, <1>3 DEF SlotsOf, Forest
<1>10. \A y \in Objects : /\ c \in content'[y] <=> y = p
                          /\ content'[y] \ {c} = content[y] \ {c}
  <2> TAKE y \in Objects
  <2>1. CASE y = p
    BY <1>8, <2>1
  <2>2. CASE y # p
    BY <1>8, <1>9, <2>2
  <2> QED BY <2>1, <2>2
<1> QED BY <1>2, <1>3, <1>4, <1>5, <1>6, <1>7, <1>8, <1>10, LastSlot

LEMMA HandKeeps == ASSUME RefsInv, Hand PROVE RefsInv'
<1> PICK c : c = Head(work).on
  OBVIOUS
<1> PICK q : q = Head(work).with
  OBVIOUS
<1> PICK p : p = parent[c]
  OBVIOUS
<1>1. Typed /\ Forest /\ Counts /\ Due /\ TasksOK /\ Shape /\ Ordered
  BY DEF RefsInv
<1>2. /\ work # <<>> /\ Head(work).name = "hand" /\ Head(work) \in On(work) /\ Tail(work) = <<>>
      /\ Head(work) \in Tasks
      /\ On(work) = {Head(work)} \union On(Tail(work)) /\ On(<<>>) = {}
      /\ Tail(work) \in Seq(Tasks)
  BY <1>1, StackTop, StackEmpty, ShapeTop DEF Hand, Runs, Typed, Shape
<1>3. c \in content[q] /\ q \in Objects /\ c \in Objects
  BY <1>1, <1>2 DEF TasksOK, TaskOK, Tasks
<1>4. /\ c \in Elements /\ c \in alive /\ q \in alive
  BY <1>1, <1>3 DEF Forest, Typed, StateTypeOK
<1>5. p \in alive /\ p \in Objects /\ alive \subseteq Objects
  BY <1>1, <1>4 DEF Forest, Typed, StateTypeOK
<1>6. /\ content' = [[content EXCEPT ![q] = @ \ {c}] EXCEPT ![p] = @ \union {c}]
      /\ work' = <<>> \o Tail(work)
      /\ UNCHANGED <<alive, counts, parent, client, listed, fault>>
  BY <1>4, <1>5 DEF Hand, Calls
<1>7. work' = <<>> /\ refs' = refs /\ uriRefs' = uriRefs
  BY <1>2, <1>6, NothingFirst DEF counts
<1>8. \A g \in Objects : c \in content[g] => g = q
  BY <1>1, <1>3 DEF Forest
<1>9. content' \in [Objects -> SUBSET Elements]
  BY <1>1, <1>3, <1>4, <1>5, <1>6 DEF Typed, StateTypeOK
<1>10. \A y \in Objects : /\ c \in content'[y] <=> y = p
                          /\ content'[y] \ {c} = content[y] \ {c}
  <2> TAKE y \in Objects
  <2>1. content \in [Objects -> SUBSET Elements]
    BY <1>1 DEF Typed, StateTypeOK
  <2>2. CASE y = p
    BY <1>3, <1>5, <1>6, <2>1, <2>2
  <2>3. CASE y # p /\ y = q
    BY <1>3, <1>5, <1>6, <2>1, <2>3
  <2>4. CASE y # p /\ y # q
    BY <1>3, <1>5, <1>6, <1>8, <2>1, <2>4
  <2> QED BY <2>2, <2>3, <2>4
<1>11. SlotsOf(c) = {q}
  BY <1>3, <1>4, <1>5, <1>8 DEF SlotsOf
<1>12. refs \in [Objects -> Int]
  BY <1>1 DEF Typed, StateTypeOK
<1> QED BY <1>2, <1>3, <1>4, <1>5, <1>6, <1>7, <1>9, <1>10, <1>11, <1>12, LastSlot

\* An element gets another parent, and the old one is left to the stack.
LEMMA ReparentKeeps == ASSUME RefsInv, Reparent PROVE RefsInv'
<1> PICK c : c = Head(work).on
  OBVIOUS
<1> PICK p : p = Head(work).with
  OBVIOUS
<1> PICK q : q = parent[c]
  OBVIOUS
<1> DEFINE r == Task("release", q, q)
           new == {r}
<1>1. Typed /\ Forest /\ Counts /\ Due /\ TasksOK /\ Shape /\ Ordered
  BY DEF RefsInv
<1>2. /\ work # <<>> /\ Head(work).name = "reparent" /\ Head(work) \in On(work) /\ Head(work) \in Tasks
      /\ Tail(work) \in Seq(Tasks) /\ On(work) = {Head(work)} \union On(Tail(work))
  BY <1>1, StackTop DEF Reparent, Runs, Typed
<1> PICK t \in Tasks : Tail(work) = <<t>> /\ t.on = c /\ t.name \in {"enter", "hand"}
  BY <1>1, <1>2, ShapeTop DEF Typed, Shape
<1>3. /\ c \in Elements /\ c \notin Closure(parent, {p}) /\ Protected(c) /\ Protected(p)
  BY <1>1, <1>2 DEF TasksOK, TaskOK
<1>4. /\ c \in alive /\ p \in alive /\ q \in alive /\ c \in Objects /\ p \in Objects /\ q \in Objects
      /\ alive \subseteq Objects /\ parent \in Parents /\ c \notin Documents
  BY <1>1, <1>3, ReferencesAssumption DEF Protected, Forest, Typed, StateTypeOK, Parents
<1>5. q # c /\ p # c
  <2>1. c \notin Closure(parent, {q})
    BY <1>1, <1>3, <1>4 DEF Forest
  <2>2. q \in Closure(parent, {q}) /\ p \in Closure(parent, {p})
    BY <1>4, ClosureCloses
  <2> QED BY <1>3, <2>1, <2>2
<1>6. /\ refs' = [refs EXCEPT ![p] = @ + 1] /\ parent' = [parent EXCEPT ![c] = p]
      /\ work' = <<r>> \o Tail(work)
      /\ UNCHANGED <<alive, content, client, listed, uriRefs, fault>>
  BY <1>4 DEF Reparent, Calls
<1>7. /\ alive' = alive /\ uriRefs' = uriRefs /\ content' = content /\ held' = held
      /\ uriHeld' = uriHeld /\ listed' = listed /\ fault' = fault
  BY <1>6 DEF client
<1>8. r \in Tasks /\ r.name = "release" /\ r.on = q
  BY <1>4 DEF Task, Tasks, TaskNames
<1>9. /\ work' \in Seq(Tasks) /\ ShapeOf(work')
      /\ \A f : OrderedBy(f, Tail(work)) => OrderedBy(f, work')
      /\ \A u \in On(work) : u = Head(work) \/ u \in On(work')
      /\ Puts(new)
  <2>1. new \in SUBSET {r} /\ (new = {r} => work' = Put(r, Tail(work))) /\ (new = {} => work' = Tail(work))
    BY <1>6 DEF Put
  <2> HIDE DEF new, r
  <2> QED BY <1>1, <1>2, <1>8, <2>1, StackAfter
<1>10. On(work') = {r, t} /\ On(work) = {Head(work), t} /\ \A f : OrderedBy(f, Tail(work))
  <2> HIDE DEF r
  <2>1. On(Tail(work)) = {t} /\ \A f : OrderedBy(f, Tail(work))
    BY StackOne
  <2>2. work' = Put(r, Tail(work))
    BY <1>6 DEF Put
  <2>3. On(work') = {r} \union On(Tail(work))
    BY <1>2, <1>8, <2>2, StackPush
  <2> QED BY <1>2, <2>1, <2>3
<1>11. /\ \A y : Pending("release uri", y)' = Pending("release uri", y)
       /\ \A y : y # q => Pending("release", y)' = Pending("release", y)
       /\ Pending("release", q)' = Pending("release", q) + 1
  <2> HIDE DEF r
  <2>1. Head(work).name \notin {"release", "release uri"} /\ new = {r}
    BY <1>2
  <2> HIDE DEF new
  <2>2. /\ \A y : Pending("release uri", y)' = Pending("release uri", y)
        /\ \A y : y # r.on => Pending("release", y)' = Pending("release", y)
        /\ Pending("release", r.on)' = Pending("release", r.on) + 1
    BY <1>8, <1>9, <2>1, LeftToStack
  <2> QED BY <1>8, <2>2
<1> HIDE DEF new, r
<1>12. /\ parent' \in Parents /\ parent'[c] = p /\ \A y \in Objects : y # c => parent'[y] = parent[y]
       /\ refs' \in [Objects -> Int] /\ refs'[p] = refs[p] + 1
       /\ \A y \in Objects : y # p => refs'[y] = refs[y]
  BY <1>1, <1>4, <1>6 DEF Parents, Typed, StateTypeOK
<1>13. Typed'
  BY <1>1, <1>7, <1>9, <1>12, TypedAgain DEF Typed, StateTypeOK, Parents
<1>14. \A y : SlotsOf(y)' = SlotsOf(y) /\ Kept(y)' = Kept(y)
  BY <1>7 DEF SlotsOf, Kept
<1>15. ASSUME NEW y
       PROVE  /\ y # p /\ y # q => Children(y)' = Children(y)
              /\ y = p /\ p = q => Children(y)' = Children(y)
              /\ y = p /\ p # q => Children(y)' = Children(y) \union {c} /\ c \notin Children(y)
              /\ y = q /\ p # q => Children(y)' = Children(y) \ {c} /\ c \in Children(y)
  <2>1. \A d \in alive : d # c => (d \in Children(y)' <=> d \in Children(y))
    BY <1>4, <1>7, <1>12 DEF Children
  <2>2. (c \in Children(y)' <=> y = p) /\ (c \in Children(y) <=> y = q)
    BY <1>4, <1>5, <1>7, <1>12 DEF Children
  <2>3. \A d : d \in Children(y) \/ d \in Children(y)' => d \in alive
    BY <1>7 DEF Children
  <2>4. ASSUME NEW d, d # c PROVE d \in Children(y)' <=> d \in Children(y)
    BY <2>1, <2>3, <2>4
  <2>5. CASE y # p /\ y # q
    BY ONLY <2>2, <2>4, <2>5
  <2>6. CASE y = p /\ p = q
    BY ONLY <2>2, <2>4, <2>6
  <2>7. CASE y = p /\ p # q
    BY ONLY <2>2, <2>4, <2>7
  <2>8. CASE y = q /\ p # q
    BY ONLY <2>2, <2>4, <2>8
  <2> QED BY <2>5, <2>6, <2>7, <2>8
<1>16. Counts'
  <2>1. ASSUME NEW y \in alive, y # p, y # q PROVE refs'[y] = Referred(y)'
    <3>1. Slots(y)' = Slots(y) /\ Kids(y)' = Kids(y) /\ Stacked(y)' = Stacked(y)
      BY <1>11, <1>14, <1>15, <2>1 DEF Slots, Kids, Stacked
    <3>2. refs'[y] = refs[y]
      BY <1>4, <1>12, <2>1
    <3> QED BY <1>1, <1>14, <3>1, <3>2, CountStays
  <2>2. CASE p = q
    <3>1. Slots(p)' = Slots(p) /\ Kids(p)' = Kids(p) /\ Stacked(p)' = Stacked(p) + 1
      BY <1>11, <1>14, <1>15, <2>2 DEF Slots, Kids, Stacked
    <3>2. refs'[p] = Referred(p)'
      BY <1>1, <1>4, <1>12, <1>13, <1>14, <3>1, CountUp
    <3> QED BY <1>1, <1>7, <1>11, <2>1, <2>2, <3>2 DEF Counts
  <2>3. CASE p # q
    <3>1. refs'[p] = Referred(p)'
      <4>1. Slots(p)' = Slots(p) /\ Stacked(p)' = Stacked(p)
        BY <1>11, <1>14, <2>3 DEF Slots, Stacked
      <4>2. Children(p)' = Children(p) \union {c} /\ c \notin Children(p) /\ Children(p) \in SUBSET Objects
        BY <1>4, <1>15, <2>3 DEF Children
      <4>3. Kids(p)' = Kids(p) + 1
        BY <1>4, <4>2, OneMore DEF Kids
      <4> QED BY <1>1, <1>4, <1>12, <1>13, <1>14, <4>1, <4>3, CountUp
    <3>2. refs'[q] = Referred(q)'
      <4>1. Slots(q)' = Slots(q) /\ Stacked(q)' = Stacked(q) + 1
        BY <1>11, <1>14 DEF Slots, Stacked
      <4>2. Children(q)' = Children(q) \ {c} /\ c \in Children(q) /\ Children(q) \in SUBSET Objects
        BY <1>4, <1>15, <2>3 DEF Children
      <4>3. Kids(q)' = Kids(q) - 1
        BY <4>2, OneLess DEF Kids
      <4>4. Kids(q) \in Nat /\ Kids(q)' \in Nat
        BY <1>1, <1>4, <1>13, FixedIs, FixedWillBe
      <4>5. Kids(q) = Kids(q)' + 1
        BY <4>3, <4>4
      <4>6. refs'[q] = refs[q]
        BY <1>4, <1>12, <2>3
      <4> QED BY <1>1, <1>4, <1>13, <1>14, <4>1, <4>5, <4>6, CountOver
    <3> QED BY <1>1, <1>7, <1>11, <2>1, <3>1, <3>2 DEF Counts
  <2> QED BY <2>2, <2>3
<1>17. Due'
  <2>1. \A y : Task("zero", y, y).name = "zero"
    BY DEF Task
  <2>2. ASSUME NEW y \in alive PROVE Needed(y)'
    <3>1. Needed(y)
      BY <1>1, <1>2, <2>1 DEF Due
    <3>2. refs[y] \in Nat /\ y \in Objects
      BY <1>1, <1>4, ReferredIsNeeded
    <3>3. refs'[y] = refs[y] \/ refs'[y] = refs[y] + 1
      BY <1>12, <3>2
    <3>4. refs[y] > 0 => refs'[y] > 0
      BY <3>2, <3>3
    <3> QED BY <1>7, <3>1, <3>4 DEF Needed
  <2> QED BY <1>7, <2>2 DEF Due
<1>18. TaskOK(t) /\ (t.name = "enter" => t.with = p)
  <2>1. TaskOK(t)
    BY <1>1, <1>10 DEF TasksOK
  <2> QED BY <1>2, <2>1 DEF TaskOK
<1>19. TasksOK'
  <2>1. TaskOK(r)'
    BY <1>4, <1>7, <1>8 DEF TaskOK
  <2>2. CASE t.name = "hand"
    <3>1. TaskOK(t)'
      BY <1>7, <1>18, <2>2 DEF TaskOK
    <3> QED BY <1>10, <2>1, <3>1 DEF TasksOK
  <2>3. CASE t.name = "enter"
    <3>1. SlotsOf(c) = {} /\ c \in Closure(parent, Roots)
      BY <1>3, <1>18, <2>3 DEF TaskOK, Protected
    <3>2. Roots' = Roots /\ Roots \in SUBSET Objects
      BY <1>4, <1>7 DEF Roots
    <3>3. c \in Closure(parent', Roots)
      BY ONLY <1>4, <1>12, <3>1, <3>2, ClosureStays
    <3>4. Protected(c)'
      BY <1>4, <1>7, <3>2, <3>3 DEF Protected
    <3>5. \A u \in On(work') : u.name # "reparent"
      BY <1>8, <1>10, <2>3
    <3>6. TaskOK(t)'
      BY <1>3, <1>12, <1>14, <1>18, <2>3, <3>1, <3>4, <3>5 DEF TaskOK
    <3> QED BY <1>10, <2>1, <3>6 DEF TasksOK
  <2> QED BY <2>2, <2>3
<1>20. Forest'
  <2>1. \A y \in alive : parent'[y] \in alive
    BY <1>1, <1>4, <1>12 DEF Forest
  <2>2. \A y \in Objects \ alive : parent'[y] = y
    BY <1>1, <1>4, <1>12 DEF Forest
  <2>3. \A d \in Documents : parent'[d] = d
    BY <1>1, <1>4, <1>12, FiniteObjects DEF Forest
  <2>4. ASSUME NEW e \in Elements \intersect alive PROVE e \notin Closure(parent', {parent'[e]})
    <3>1. e \in Objects /\ e \notin Closure(parent, {parent[e]})
      BY <1>1, <1>4 DEF Forest
    <3> QED BY ONLY <1>3, <1>4, <1>12, <3>1, ClosureMoved
  <2>5. ASSUME NEW e \in Objects, NEW d \in content[e]
        PROVE  parent'[d] = e \/ Task("hand", d, e) \in On(work')
    <3>1. /\ parent[d] = e \/ Task("hand", d, e) \in On(work)
          /\ e \in alive /\ d \in alive /\ d \in Objects /\ \A g \in Objects : d \in content[g] => g = e
      BY <1>1, <1>4 DEF Forest
    <3>2. CASE d # c
      <4>1. Task("hand", d, e).name = "hand"
        BY DEF Task
      <4>2. Task("hand", d, e) \in On(work) => Task("hand", d, e) \in On(work')
        BY <1>2, <1>9, <4>1
      <4> QED BY <1>12, <3>1, <3>2, <4>2
    <3>3. CASE d = c
      <4>1. SlotsOf(c) # {}
        BY <3>1, <3>3 DEF SlotsOf
      <4>2. t.name = "hand" /\ c \in content[t.with] /\ t.with \in Objects
        BY <1>18, <4>1 DEF TaskOK, Tasks
      <4>3. t.with = e /\ t.on = d
        BY <3>1, <3>3, <4>2
      <4>4. t = Task("hand", d, e)
        BY <4>2, <4>3 DEF Task, Tasks
      <4> QED BY <1>10, <4>4
    <3> QED BY <3>2, <3>3
  <2> QED BY <1>1, <1>7, <2>1, <2>2, <2>3, <2>4, <2>5 DEF Forest
<1>21. OrderedBy(parent', work')
  BY <1>9, <1>10
<1> QED BY <1>9, <1>13, <1>16, <1>17, <1>19, <1>20, <1>21 DEF RefsInv, Shape, Ordered
-----------------------------------------------------------------------------
(* The client's calls. *)

\* What the client gets to stays where it is, whoever else lets go of it.
LEMMA Reachable ==
  ASSUME Typed, Forest, NEW x \in InReach PROVE Protected(x) /\ x \in alive /\ x \in Objects
<1> DEFINE R == {y \in Objects : held[y] > 0}
                \union {d \in Documents : listed[d] = "open" \/ uriHeld[d] > 0}
           S == {y \in alive : Protected(y)}
<1>1. alive \subseteq Objects /\ parent \in Parents
  BY DEF Typed, StateTypeOK, Parents
<1>2. R \subseteq Roots /\ Roots \in SUBSET Objects /\ R \in SUBSET Objects /\ R \in SUBSET alive
  <2>1. ASSUME NEW y \in Objects, held[y] > 0 PROVE y \in alive
    <3> SUFFICES ASSUME y \notin alive PROVE FALSE
      OBVIOUS
    <3>1. held[y] = 0
      BY DEF Forest
    <3> QED BY <2>1, <3>1
  <2>2. ASSUME NEW d \in Documents, listed[d] = "open" \/ uriHeld[d] > 0 PROVE d \in alive
    <3> SUFFICES ASSUME d \notin alive PROVE FALSE
      OBVIOUS
    <3>1. listed[d] = "gone" /\ uriHeld[d] = 0
      BY DEF Forest
    <3> QED BY <2>2, <3>1
  <2> QED BY <1>1, <2>1, <2>2, FiniteObjects DEF Roots
<1> HIDE DEF R
<1>3. Upward(R) \subseteq S
  <2>1. Closure(parent, R) \subseteq Closure(parent, Roots)
    BY <1>1, <1>2, ClosureGrows
  <2>2. Closure(parent, R) \subseteq alive
    BY <1>2, AboveIsAlive
  <2>3. Upward(R) = Closure(parent, R)
    BY UpwardIs
  <2> QED BY <2>1, <2>2, <2>3 DEF Protected
<1>4. \A y \in S : content[y] \subseteq S
  <2> SUFFICES ASSUME NEW y \in alive, NEW c \in content[y] PROVE c \in alive /\ SlotsOf(c) # {}
    BY DEF Protected
  <2> QED BY DEF Forest, SlotsOf
<1>5. S \in SUBSET Objects
  BY <1>1
<1>6. InReach = Downward(Upward(R))
  BY DEF InReach, R
<1> HIDE DEF S
<1>7. Downward(Upward(R)) \subseteq S
  BY <1>3, <1>4, <1>5 DEF Downward
<1>8. x \in S
  BY <1>6, <1>7
<1> QED BY <1>1, <1>8 DEF S

LEMMA NoneLike ==
  ASSUME NEW w \in Seq(Tasks), NEW k, \A t \in On(w) : t.name # k, NEW y
  PROVE  PendingIn(w, k, y) = 0
<1> DEFINE S == {i \in DOMAIN w : w[i].name = k /\ w[i].on = y}
<1>1. \A i : i \notin S
  BY DEF On
<1>2. S = {}
  BY <1>1
<1> HIDE DEF S
<1>3. Cardinality(S) = 0
  BY <1>2, FS_EmptySet
<1> QED BY <1>3 DEF S, PendingIn

LEMMA Idle ==
  ASSUME RefsInv, work = <<>>
  PROVE  /\ Typed /\ Forest /\ Counts /\ On(work) = {}
         /\ \A y : Pending("release", y) = 0 /\ Pending("release uri", y) = 0
         /\ \A y \in alive : Needed(y)
         /\ \A e \in Objects : \A c \in content[e] : parent[c] = e
<1>1. Typed /\ Forest /\ Counts /\ On(work) = {}
  BY StackEmpty DEF RefsInv
<1>2. \A y \in alive : Needed(y)
  BY DEF RefsInv, Due
<1>3. \A y : Pending("release", y) = 0 /\ Pending("release uri", y) = 0
  <2> TAKE y
  <2>1. work \in Seq(Tasks)
    BY <1>1 DEF Typed
  <2>2. PendingIn(work, "release", y) = 0 /\ PendingIn(work, "release uri", y) = 0
    BY <1>1, <2>1, NoneLike
  <2> QED BY <2>2 DEF Pending, PendingIn
<1> QED BY <1>1, <1>2, <1>3 DEF Forest

\* What a call starts out with.
LEMMA StartsKeep ==
  ASSUME RefsInv, work = <<>>, UNCHANGED <<alive, tree, client>>, UNCHANGED <<refs, uriRefs, fault>>,
         listed' \in [Documents -> {"open", "closed", "gone"}],
         \A d \in Documents : listed'[d] = "gone" <=> listed[d] = "gone",
         work' \in Seq(Tasks), ShapeOf(work'), OrderedBy(parent, work'),
         \A u \in On(work') : TaskOK(u)' /\ u.name \notin {"release", "release uri"}
  PROVE  RefsInv'
<1>1. /\ On(work) = {} /\ \A y \in alive : Needed(y)
      /\ \A y : Pending("release", y) = 0 /\ Pending("release uri", y) = 0
  BY Idle
<1>2. \A y : Pending("release", y)' = 0 /\ Pending("release uri", y)' = 0
  <2> TAKE y
  <2>1. PendingIn(work', "release", y) = 0 /\ PendingIn(work', "release uri", y) = 0
    BY NoneLike
  <2> QED BY <2>1 DEF Pending, PendingIn
<1>3. \A y \in Objects : /\ Pending("release", y)' = Pending("release", y)
                         /\ Pending("release uri", y)' = Pending("release uri", y)
  BY <1>1, <1>2
<1>4. \A c, e : Task("hand", c, e) \in On(work) => Task("hand", c, e) \in On(work')
  BY <1>1
<1>5. \A u \in On(work') : TaskOK(u)'
  OBVIOUS
<1> QED BY <1>1, <1>3, <1>4, <1>5, QuietKeeps

LEMMA SameCall ==
  ASSUME UNCHANGED <<alive, tree, client>>, UNCHANGED <<refs, uriRefs>>,
         \A d \in Documents : listed'[d] = "gone" <=> listed[d] = "gone"
  PROVE  /\ \A x : SlotsOf(x)' = SlotsOf(x) /\ Protected(x)' = Protected(x)
         /\ alive' = alive /\ parent' = parent /\ content' = content /\ held' = held
<1>1. alive' = alive /\ parent' = parent /\ content' = content /\ held' = held /\ uriHeld' = uriHeld
  BY DEF tree, client
<1>2. Roots' = Roots
  BY <1>1 DEF Roots
<1> QED BY <1>1, <1>2 DEF SlotsOf, Protected

\* The tasks of a placement rely on what is so when the call begins.
LEMMA PlacingOK ==
  ASSUME RefsInv, work = <<>>, NEW p \in Objects, NEW c \in Elements, Placeable(p, c),
         UNCHANGED <<alive, tree, client, listed>>, UNCHANGED <<refs, uriRefs>>
  PROVE  \E t, u \in Tasks :
           /\ Placing(p, c) = <<t, u>>
           /\ t.name = "reparent" /\ t.on = c /\ t.with = p
           /\ u.name \in {"enter", "hand"} /\ u.on = c
           /\ t \in On(work') /\ (\A v \in On(work') : v.name = "reparent" => v = t) =>
                TaskOK(t)' /\ TaskOK(u)'
<1> DEFINE t == Task("reparent", c, p)
<1>1. /\ Typed /\ Forest /\ \A e \in Objects : \A d \in content[e] : parent[d] = e
  BY Idle
<1>2. /\ Protected(p) /\ Protected(c) /\ c \in alive /\ c \in Objects /\ c \notin Closure(parent, {p})
      /\ parent[c] \in Objects
  BY <1>1, Reachable, UpwardIs DEF Placeable, Typed, StateTypeOK
<1>3. /\ \A x : SlotsOf(x)' = SlotsOf(x) /\ Protected(x)' = Protected(x)
      /\ alive' = alive /\ parent' = parent /\ content' = content /\ held' = held
  BY SameCall
<1>4. t \in Tasks /\ t.name = "reparent" /\ t.on = c /\ t.with = p
  BY <1>2 DEF Task, Tasks, TaskNames
<1>5. TaskOK(t)'
  BY <1>2, <1>3, <1>4 DEF TaskOK
<1>6. CASE InContent(c)
  <2> PICK u : u = Task("hand", c, parent[c])
    OBVIOUS
  <2>1. u \in Tasks /\ u.name = "hand" /\ u.on = c /\ u.with = parent[c]
    BY <1>2 DEF Task, Tasks, TaskNames
  <2>2. Placing(p, c) = <<t, u>>
    BY <1>6 DEF Placing
  <2>3. parent[c] \in Elements /\ c \in content[parent[c]]
    BY <1>6 DEF Placeable, InContent
  <2>4. TaskOK(u)'
    BY <1>3, <2>1, <2>3 DEF TaskOK
  <2> HIDE DEF t
  <2>5. /\ Placing(p, c) = <<t, u>>
        /\ t.name = "reparent" /\ t.on = c /\ t.with = p
        /\ u.name \in {"enter", "hand"} /\ u.on = c
        /\ t \in On(work') /\ (\A v \in On(work') : v.name = "reparent" => v = t) =>
             TaskOK(t)' /\ TaskOK(u)'
    BY <1>4, <1>5, <2>1, <2>2, <2>4
  <2> QED BY <1>4, <2>1, <2>5
<1>7. CASE ~InContent(c)
  <2> DEFINE u == Task("enter", c, p)
  <2>1. u \in Tasks /\ u.name = "enter" /\ u.on = c /\ u.with = p
    BY <1>2 DEF Task, Tasks, TaskNames
  <2>2. Placing(p, c) = <<t, u>>
    BY <1>7 DEF Placing
  <2>3. SlotsOf(c) = {}
    BY <1>1, <1>7 DEF SlotsOf, InContent, Typed, StateTypeOK
  <2> HIDE DEF t, u
  <2>4. ASSUME t \in On(work'), \A v \in On(work') : v.name = "reparent" => v = t
        PROVE  TaskOK(u)'
    BY <1>2, <1>3, <1>4, <2>1, <2>3, <2>4 DEF TaskOK
  <2> QED BY <1>4, <1>5, <2>1, <2>2, <2>4
<1> QED BY <1>6, <1>7

\* A call that starts with one task, other than a release or a deletion.
LEMMA OneKeeps ==
  ASSUME RefsInv, work = <<>>, UNCHANGED <<alive, tree, client>>, UNCHANGED <<refs, uriRefs, fault>>,
         listed' = listed, NEW t \in Tasks, work' = <<t>>, t.name \in {"vacate", "clear", "compact"},
         TaskOK(t)
  PROVE  RefsInv'
<1>1. /\ \A x : SlotsOf(x)' = SlotsOf(x) /\ Protected(x)' = Protected(x)
      /\ parent' = parent /\ content' = content
  BY SameCall
<1>2. TaskOK(t)'
  BY <1>1 DEF TaskOK
<1>3. /\ work' \in Seq(Tasks) /\ ShapeOf(work') /\ OrderedBy(parent, work') /\ On(work') = {t}
  BY StackOne
<1>4. listed' \in [Documents -> {"open", "closed", "gone"}]
  BY DEF RefsInv, Typed, StateTypeOK
<1> QED BY <1>2, <1>3, <1>4, StartsKeep

LEMMA PlaceKeeps ==
  ASSUME RefsInv, work = <<>>, UNCHANGED fault, NEW p \in Objects, NEW c \in Elements,
         Place(p, c)
  PROVE  RefsInv'
<1>1. /\ Placeable(p, c) /\ work' = Placing(p, c)
      /\ UNCHANGED <<alive, tree, client, listed>> /\ UNCHANGED <<refs, uriRefs, fault>>
  BY DEF Place, Starts, counts
<1>2. PICK t, u \in Tasks :
           /\ Placing(p, c) = <<t, u>>
           /\ t.name = "reparent" /\ t.on = c /\ t.with = p
           /\ u.name \in {"enter", "hand"} /\ u.on = c
           /\ t \in On(work') /\ (\A v \in On(work') : v.name = "reparent" => v = t) =>
                TaskOK(t)' /\ TaskOK(u)'
  BY <1>1, PlacingOK
<1>3. /\ work' \in Seq(Tasks) /\ ShapeOf(work') /\ OrderedBy(parent, work') /\ On(work') = {t, u}
  BY <1>1, <1>2, StackPair
<1>4. TaskOK(t)' /\ TaskOK(u)'
  BY <1>2, <1>3
<1>5. \A v \in On(work') : TaskOK(v)' /\ v.name \notin {"release", "release uri"}
  BY <1>2, <1>3, <1>4
<1>6. listed' \in [Documents -> {"open", "closed", "gone"}]
  BY <1>1 DEF RefsInv, Typed, StateTypeOK
<1> QED BY <1>1, <1>3, <1>5, <1>6, StartsKeep

LEMMA ReplaceKeeps ==
  ASSUME RefsInv, work = <<>>, UNCHANGED fault, NEW p \in Objects, NEW x \in Elements,
         NEW c \in Elements, Replace(p, x, c)
  PROVE  RefsInv'
<1> DEFINE v == Task("vacate", x, p)
<1>1. /\ Placeable(p, c) /\ x \in content[p] \ {c} /\ work' = <<v>> \o Placing(p, c)
      /\ UNCHANGED <<alive, tree, client, listed>> /\ UNCHANGED <<refs, uriRefs, fault>>
  BY DEF Replace, Starts, counts
<1>2. PICK t, u \in Tasks :
           /\ Placing(p, c) = <<t, u>>
           /\ t.name = "reparent" /\ t.on = c /\ t.with = p
           /\ u.name \in {"enter", "hand"} /\ u.on = c
           /\ t \in On(work') /\ (\A w \in On(work') : w.name = "reparent" => w = t) =>
                TaskOK(t)' /\ TaskOK(u)'
  BY <1>1, PlacingOK
<1>3. x \in Objects /\ v \in Tasks /\ v.name = "vacate" /\ v.on = x /\ v.with = p
  BY FiniteObjects DEF Task, Tasks, TaskNames
<1> PICK s : s = <<t, u>>
  OBVIOUS
<1>4. /\ s \in Seq(Tasks) /\ ShapeOf(s) /\ NoZero(s) /\ OrderedBy(parent, s) /\ On(s) = {t, u}
  BY <1>2, StackPair
<1>5. work' = Put(v, s)
  BY <1>1, <1>2 DEF Put
<1>6. Typed /\ Forest /\ parent[x] = p
  BY <1>1, Idle
<1>7. x # p
  <2>1. x \in alive /\ parent \in Parents
    BY <1>1, <1>6 DEF Forest, Typed, StateTypeOK, Parents
  <2>2. x \notin Closure(parent, {p})
    BY <1>6, <2>1 DEF Forest
  <2> QED BY <2>1, <2>2, ClosureCloses
<1> HIDE DEF v
<1>8. /\ work' \in Seq(Tasks) /\ ShapeOf(work') /\ OrderedBy(parent, work') /\ On(work') = {v, t, u}
  <2>1. ShapeOf(Put(v, s))
    BY <1>3, <1>4, ShapePush
  <2>2. \A w \in On(s) : Precedes(parent, v, w)
    BY <1>1, <1>2, <1>3, <1>4, <1>7 DEF Precedes, Clears, Places
  <2>3. OrderedBy(parent, Put(v, s))
    BY <1>3, <1>4, <2>2, OrderedPush
  <2>4. Put(v, s) \in Seq(Tasks) /\ On(Put(v, s)) = {v} \union On(s)
    BY <1>3, <1>4, StackPush
  <2> QED BY <1>4, <1>5, <2>1, <2>3, <2>4
<1>9. TaskOK(t)' /\ TaskOK(u)'
  BY <1>2, <1>3, <1>8
<1>10. TaskOK(v)'
  <2>1. parent' = parent /\ content' = content
    BY <1>1 DEF tree
  <2> QED BY <1>1, <1>3, <1>6, <2>1 DEF TaskOK
<1>11. \A w \in On(work') : TaskOK(w)' /\ w.name \notin {"release", "release uri"}
  BY <1>2, <1>3, <1>8, <1>9, <1>10
<1>12. listed' \in [Documents -> {"open", "closed", "gone"}]
  BY <1>1, <1>6 DEF Typed, StateTypeOK
<1> QED BY <1>1, <1>8, <1>11, <1>12, StartsKeep

LEMMA RemoveKeeps ==
  ASSUME RefsInv, work = <<>>, UNCHANGED fault, NEW c \in Elements, RemoveChild(c)
  PROVE  RefsInv'
<1> PICK t : t = Task("vacate", c, parent[c])
  OBVIOUS
<1>1. /\ InContent(c) /\ work' = <<t>> /\ UNCHANGED <<alive, tree, client>>
      /\ UNCHANGED <<refs, uriRefs, fault>> /\ listed' = listed
  BY DEF RemoveChild, Starts, counts
<1>2. c \in Objects /\ parent[c] \in Objects
  BY FiniteObjects DEF RefsInv, Typed, StateTypeOK
<1>3. t \in Tasks /\ t.name = "vacate" /\ t.on = c /\ t.with = parent[c]
  BY <1>2 DEF Task, Tasks, TaskNames
<1>4. TaskOK(t)
  BY <1>1, <1>3 DEF TaskOK, InContent
<1> QED BY <1>1, <1>3, <1>4, OneKeeps

LEMMA ClearContentsKeeps ==
  ASSUME RefsInv, work = <<>>, UNCHANGED fault, NEW e \in Elements, ClearContents(e)
  PROVE  RefsInv'
<1> PICK t : t = Task("clear", e, e)
  OBVIOUS
<1>1. /\ e \in InReach /\ work' = <<t>> /\ UNCHANGED <<alive, tree, client>>
      /\ UNCHANGED <<refs, uriRefs, fault>> /\ listed' = listed
  BY DEF ClearContents, Starts, counts
<1>2. Protected(e) /\ e \in Objects
  BY <1>1, Reachable DEF RefsInv
<1>3. t \in Tasks /\ t.name = "clear" /\ t.on = e
  BY <1>2 DEF Task, Tasks, TaskNames
<1>4. TaskOK(t)
  BY <1>2, <1>3 DEF TaskOK
<1> QED BY <1>1, <1>3, <1>4, OneKeeps

LEMMA CompactClosedKeeps ==
  ASSUME RefsInv, work = <<>>, UNCHANGED fault, NEW d \in Documents, CompactClosed(d)
  PROVE  RefsInv'
<1> PICK t : t = Task("compact", d, d)
  OBVIOUS
<1>1. /\ listed[d] = "closed" /\ work' = <<t>> /\ UNCHANGED <<alive, tree, client>>
      /\ UNCHANGED <<refs, uriRefs, fault>> /\ listed' = listed
  BY DEF CompactClosed, Starts, counts
<1>2. d \in Objects
  BY FiniteObjects
<1>3. t \in Tasks /\ t.name = "compact" /\ t.on = d
  BY <1>2 DEF Task, Tasks, TaskNames
<1>4. TaskOK(t)
  BY <1>1, <1>3 DEF TaskOK
<1> QED BY <1>1, <1>3, <1>4, OneKeeps

LEMMA CloseKeeps ==
  ASSUME RefsInv, work = <<>>, UNCHANGED fault, NEW d \in Documents, CloseDocument(d)
  PROVE  RefsInv'
<1> PICK t : t = Task("clear", d, d)
  OBVIOUS
<1> PICK u : u = Task("compact", d, d)
  OBVIOUS
<1>1. /\ listed[d] = "open" /\ listed' = [listed EXCEPT ![d] = "closed"] /\ work' = <<t, u>>
      /\ UNCHANGED <<alive, tree, client>> /\ UNCHANGED <<refs, uriRefs, fault>>
  BY DEF CloseDocument, Starts, counts
<1>2. Typed /\ Forest
  BY DEF RefsInv
<1>3. /\ t \in Tasks /\ t.name = "clear" /\ t.on = d
      /\ u \in Tasks /\ u.name = "compact" /\ u.on = d
  BY FiniteObjects DEF Task, Tasks, TaskNames
<1>4. /\ listed' \in [Documents -> {"open", "closed", "gone"}] /\ listed'[d] # "gone"
      /\ \A y \in Documents : listed'[y] = "gone" <=> listed[y] = "gone"
  BY <1>1, <1>2 DEF Typed, StateTypeOK
<1>5. Protected(d)
  <2>1. d \in alive
    BY <1>1, <1>2 DEF Forest
  <2>2. d \in Roots /\ Roots \in SUBSET Objects /\ parent \in Parents
    BY <1>1, <1>2, <2>1 DEF Roots, Typed, StateTypeOK, Parents
  <2> QED BY <2>1, <2>2, ClosureCloses DEF Protected
<1>6. \A x : Protected(x)' = Protected(x)
  BY <1>1, <1>4, SameCall
<1>7. TaskOK(t)' /\ TaskOK(u)'
  BY <1>3, <1>4, <1>5, <1>6 DEF TaskOK
<1> PICK s : s = <<u>>
  OBVIOUS
<1>8. s \in Seq(Tasks) /\ ShapeOf(s) /\ NoZero(s) /\ On(s) = {u} /\ OrderedBy(parent, s)
  BY <1>3, StackOne
<1>9. work' = Put(t, s)
  BY <1>1, <1>3, PutPair
<1>10. /\ work' \in Seq(Tasks) /\ ShapeOf(work') /\ OrderedBy(parent, work') /\ On(work') = {t, u}
  <2>1. \A w \in On(s) : ~Places(w)
    BY <1>3, <1>8 DEF Places
  <2>2. ShapeOf(Put(t, s))
    BY <1>3, <1>8, <2>1, ShapePush
  <2>3. \A w \in On(s) : Precedes(parent, t, w)
    BY <1>3, <1>8, <2>1 DEF Precedes, Clears, Places
  <2>4. OrderedBy(parent, Put(t, s))
    BY <1>3, <1>8, <2>3, OrderedPush
  <2>5. Put(t, s) \in Seq(Tasks) /\ On(Put(t, s)) = {t} \union On(s)
    BY <1>3, <1>8, StackPush
  <2> QED BY <1>8, <1>9, <2>2, <2>4, <2>5
<1>11. \A w \in On(work') : TaskOK(w)' /\ w.name \notin {"release", "release uri"}
  BY <1>3, <1>7, <1>10
<1> QED BY <1>1, <1>4, <1>10, <1>11, StartsKeep

\* The only task on the stack.
LEMMA OneCalled ==
  ASSUME NEW t \in Tasks, work' = <<t>>, NEW k, NEW y
  PROVE  /\ Is(t, k, y) => Pending(k, y)' = 1
         /\ ~Is(t, k, y) => Pending(k, y)' = 0
<1> PICK s : s = <<>>
  OBVIOUS
<1> PICK new : new = {t}
  OBVIOUS
<1>1. s \in Seq(Tasks) /\ On(s) = {}
  BY StackEmpty
<1>2. PendingIn(s, k, y) = 0
  BY <1>1, NoneLike
<1>3. work' = Put(t, s)
  BY StackOne
<1>4. Adds(work', s, new)
  BY <1>1, <1>3, AddsPut
<1>5. PendingIn(work', k, y) = 0 + Among(new, k, y)
  BY <1>2, <1>4 DEF Adds
<1>6. Pending(k, y)' = 0 + Among(new, k, y)
  BY <1>5 DEF Pending, PendingIn
<1>7. (Is(t, k, y) => Among(new, k, y) = 1) /\ (~Is(t, k, y) => Among(new, k, y) = 0)
  BY DEF Among
<1> QED BY <1>6, <1>7

LEMMA OneFewer ==
  ASSUME NEW h \in 0..MaxHeld, h > 0
  PROVE  h - 1 \in 0..MaxHeld /\ h = (h - 1) + 1 /\ h - 1 \in Nat
<1>1. MaxHeld \in Nat
  BY ReferencesAssumption
<1> QED BY <1>1

LEMMA DropKeeps ==
  ASSUME RefsInv, work = <<>>, UNCHANGED fault, NEW x \in Objects, Drop(x)
  PROVE  RefsInv'
<1> PICK t : t = Task("release", x, x)
  OBVIOUS
<1>1. /\ held[x] > 0 /\ held' = [held EXCEPT ![x] = @ - 1] /\ work' = <<t>>
      /\ alive' = alive /\ refs' = refs /\ uriRefs' = uriRefs /\ parent' = parent
      /\ content' = content /\ uriHeld' = uriHeld /\ listed' = listed /\ fault' = fault
  BY DEF Drop, Starts, counts, tree
<1>2. /\ Typed /\ Forest /\ Counts /\ On(work) = {}
      /\ \A y : Pending("release", y) = 0 /\ Pending("release uri", y) = 0
      /\ \A y \in alive : Needed(y)
      /\ \A e \in Objects : \A c \in content[e] : parent[c] = e
  BY Idle
<1>3. x \in alive
  <2> SUFFICES ASSUME x \notin alive PROVE FALSE
    OBVIOUS
  <2>1. held[x] = 0
    BY <1>2 DEF Forest
  <2> QED BY <1>1, <2>1
<1>4. t \in Tasks /\ t.name = "release" /\ t.on = x
  BY DEF Task, Tasks, TaskNames
<1>5. /\ work' \in Seq(Tasks) /\ ShapeOf(work') /\ OrderedBy(parent, work') /\ On(work') = {t}
  BY <1>1, <1>4, StackOne
<1>6. /\ Pending("release", x)' = 1 /\ \A y : y # x => Pending("release", y)' = 0
      /\ \A y : Pending("release uri", y)' = 0
  <2>1. /\ Is(t, "release", x) /\ \A y : y # x => ~Is(t, "release", y)
        /\ \A y : ~Is(t, "release uri", y)
    BY <1>4 DEF Is
  <2>2. Pending("release", x)' = 1
    BY <1>1, <1>4, <2>1, OneCalled
  <2>3. ASSUME NEW y, y # x PROVE Pending("release", y)' = 0
    BY <1>1, <1>4, <2>1, <2>3, OneCalled
  <2>4. ASSUME NEW y PROVE Pending("release uri", y)' = 0
    BY <1>1, <1>4, <2>1, OneCalled
  <2> QED BY <2>2, <2>3, <2>4
<1>7. /\ held' \in [Objects -> 0..MaxHeld] /\ held[x] = held'[x] + 1 /\ held'[x] \in Nat
      /\ \A y \in Objects : y # x => held'[y] = held[y]
  <2>1. held \in [Objects -> 0..MaxHeld] /\ MaxHeld \in Nat
    BY <1>2, ReferencesAssumption DEF Typed, StateTypeOK
  <2>2. held[x] \in 0..MaxHeld /\ held[x] > 0
    BY <1>1, <2>1
  <2>3. held[x] - 1 \in 0..MaxHeld /\ held[x] = (held[x] - 1) + 1 /\ held[x] - 1 \in Nat
    BY ONLY <2>2, OneFewer
  <2> QED BY <1>1, <2>1, <2>3
<1>8. Typed'
  BY <1>1, <1>2, <1>5, <1>7, TypedAgain DEF Typed, StateTypeOK
<1>9. Forest'
  <2>1. \A y \in Objects \ alive : held'[y] = 0
    BY <1>2, <1>3, <1>7 DEF Forest
  <2>2. \A e \in Objects : \A c \in content[e] : Task("hand", c, e) \notin On(work)
    BY <1>2
  <2> QED BY <1>1, <1>2, <2>1, <2>2 DEF Forest
<1>10. \A y : Slots(y)' = Slots(y) /\ Kids(y)' = Kids(y)
  BY <1>1 DEF Slots, Kids, SlotsOf, Children
<1>11. Counts'
  <2>1. ASSUME NEW y \in alive, y # x PROVE refs'[y] = Referred(y)'
    <3>1. Kept(y)' = Kept(y) /\ Stacked(y)' = Stacked(y)
      BY <1>1, <1>2, <1>6, <1>7, <2>1 DEF Kept, Stacked, Typed, StateTypeOK
    <3> QED BY <1>1, <1>2, <1>10, <3>1, CountStays
  <2>2. refs'[x] = Referred(x)'
    <3>1. Kept(x) = Kept(x)' + 1
      <4> DEFINE d == IF x \in Documents /\ listed[x] # "gone" THEN 1 ELSE 0
                 h == held[x]
                 g == held'[x]
      <4>1. d \in Nat /\ g \in Nat /\ h = g + 1
        BY <1>7
      <4>2. Kept(x) = h + d /\ Kept(x)' = g + d
        BY <1>1 DEF Kept
      <4> HIDE DEF d, h, g
      <4> QED BY <4>1, <4>2
    <3>2. Stacked(x)' = Stacked(x) + 1
      <4>1. Stacked(x)' = 1 /\ Stacked(x) = 0
        BY <1>2, <1>6 DEF Stacked
      <4> QED BY ONLY <4>1
    <3> QED BY <1>1, <1>2, <1>3, <1>8, <1>10, <3>1, <3>2, CountOver
  <2> QED BY <1>1, <1>2, <1>6, <2>1, <2>2 DEF Counts
<1>12. Due'
  BY <1>1, <1>2 DEF Due, Needed
<1>13. TasksOK'
  BY <1>1, <1>3, <1>4, <1>5 DEF TasksOK, TaskOK
<1> QED BY <1>1, <1>5, <1>8, <1>9, <1>11, <1>12, <1>13 DEF RefsInv, Shape, Ordered

LEMMA DropUriKeeps ==
  ASSUME RefsInv, work = <<>>, UNCHANGED fault, NEW d \in Documents, DropUri(d)
  PROVE  RefsInv'
<1> PICK t : t = Task("release uri", d, d)
  OBVIOUS
<1>1. /\ uriHeld[d] > 0 /\ uriHeld' = [uriHeld EXCEPT ![d] = @ - 1] /\ work' = <<t>>
      /\ alive' = alive /\ refs' = refs /\ uriRefs' = uriRefs /\ parent' = parent
      /\ content' = content /\ held' = held /\ listed' = listed /\ fault' = fault
  BY DEF DropUri, Starts, counts, tree
<1>2. /\ Typed /\ Forest /\ Counts /\ On(work) = {}
      /\ \A y : Pending("release", y) = 0 /\ Pending("release uri", y) = 0
      /\ \A y \in alive : Needed(y)
      /\ \A e \in Objects : \A c \in content[e] : parent[c] = e
  BY Idle
<1>3. d \in alive /\ d \in Objects
  <2> SUFFICES ASSUME d \notin alive PROVE FALSE
    BY FiniteObjects
  <2>1. uriHeld[d] = 0
    BY <1>2 DEF Forest
  <2> QED BY ONLY <1>1, <2>1
<1>4. t \in Tasks /\ t.name = "release uri" /\ t.on = d
  BY <1>3 DEF Task, Tasks, TaskNames
<1>5. /\ work' \in Seq(Tasks) /\ ShapeOf(work') /\ OrderedBy(parent, work') /\ On(work') = {t}
  BY <1>1, <1>4, StackOne
<1>6. /\ Pending("release uri", d)' = 1 /\ \A y : y # d => Pending("release uri", y)' = 0
      /\ \A y : Pending("release", y)' = 0
  <2>1. /\ Is(t, "release uri", d) /\ \A y : y # d => ~Is(t, "release uri", y)
        /\ \A y : ~Is(t, "release", y)
    BY <1>4 DEF Is
  <2>2. Pending("release uri", d)' = 1
    BY <1>1, <1>4, <2>1, OneCalled
  <2>3. ASSUME NEW y, y # d PROVE Pending("release uri", y)' = 0
    BY <1>1, <1>4, <2>1, <2>3, OneCalled
  <2>4. ASSUME NEW y PROVE Pending("release", y)' = 0
    BY <1>1, <1>4, <2>1, OneCalled
  <2> QED BY <2>2, <2>3, <2>4
<1>7. /\ uriHeld' \in [Documents -> 0..MaxHeld] /\ uriHeld[d] = uriHeld'[d] + 1 /\ uriHeld'[d] \in Nat
      /\ \A y \in Documents : y # d => uriHeld'[y] = uriHeld[y]
  <2>1. uriHeld \in [Documents -> 0..MaxHeld] /\ MaxHeld \in Nat
    BY <1>2, ReferencesAssumption DEF Typed, StateTypeOK
  <2>2. uriHeld[d] \in 0..MaxHeld /\ uriHeld[d] > 0
    BY <1>1, <2>1
  <2>3. uriHeld[d] - 1 \in 0..MaxHeld /\ uriHeld[d] = (uriHeld[d] - 1) + 1 /\ uriHeld[d] - 1 \in Nat
    BY ONLY <2>2, OneFewer
  <2> QED BY <1>1, <2>1, <2>3
<1>8. Typed'
  BY <1>1, <1>2, <1>5, <1>7, TypedAgain DEF Typed, StateTypeOK
<1>9. Forest'
  <2>1. \A y \in Documents \ alive : listed'[y] = "gone" /\ uriHeld'[y] = 0
    BY <1>1, <1>2, <1>3, <1>7 DEF Forest
  <2>2. \A e \in Objects : \A c \in content[e] : Task("hand", c, e) \notin On(work)
    BY <1>2
  <2> QED BY <1>1, <1>2, <2>1, <2>2 DEF Forest
<1>10. \A y : Slots(y)' = Slots(y) /\ Kids(y)' = Kids(y) /\ Kept(y)' = Kept(y)
  BY <1>1 DEF Slots, Kids, SlotsOf, Children, Kept
<1>11. Counts'
  <2>1. ASSUME NEW y \in alive PROVE refs'[y] = Referred(y)'
    <3>1. Stacked(y)' = Stacked(y)
      BY <1>2, <1>6 DEF Stacked
    <3> QED BY <1>1, <1>2, <1>10, <3>1, CountStays
  <2>2. ASSUME NEW y \in Documents \intersect alive
        PROVE  uriRefs'[y] = uriHeld'[y] + Pending("release uri", y)'
    <3>1. uriRefs[y] = uriHeld[y] + 0 /\ uriHeld[y] \in Nat
      BY <1>2, <1>3, FiniteObjects, CountsAreNat DEF Counts
    <3>2. CASE y = d
      <4>1. /\ uriRefs'[d] = uriHeld[d] + 0 /\ uriHeld[d] = uriHeld'[d] + 1
            /\ Pending("release uri", d)' = 1 /\ uriHeld'[d] \in Nat
        BY <1>1, <1>6, <1>7, <3>1, <3>2
      <4> PICK a, b, c, e : a = uriHeld[d] /\ b = uriHeld'[d] /\ c = uriRefs'[d] /\ e = Pending("release uri", d)'
        OBVIOUS
      <4>2. c = a + 0 /\ a = b + 1 /\ e = 1 /\ b \in Nat
        BY <4>1
      <4>3. c = b + e
        BY ONLY <4>2
      <4> QED BY <3>2, <4>3
    <3>3. CASE y # d
      BY <1>1, <1>6, <1>7, <3>1, <3>3
    <3> QED BY <3>2, <3>3
  <2> QED BY <1>1, <2>1, <2>2 DEF Counts
<1>12. Due'
  BY <1>1, <1>2 DEF Due, Needed
<1>13. TasksOK'
  BY <1>1, <1>3, <1>4, <1>5 DEF TasksOK, TaskOK
<1> QED BY <1>1, <1>5, <1>8, <1>9, <1>11, <1>12, <1>13 DEF RefsInv, Shape, Ordered

\* A call that is over at once.
LEMMA StillIdle ==
  ASSUME work' = <<>>
  PROVE  /\ work' \in Seq(Tasks) /\ On(work') = {} /\ Shape' /\ TasksOK' /\ Ordered'
         /\ \A y : Pending("release", y)' = 0 /\ Pending("release uri", y)' = 0
<1>1. work' \in Seq(Tasks) /\ On(work') = {} /\ DOMAIN work' = {}
  BY StackEmpty
<1>2. \A y : Pending("release", y)' = 0 /\ Pending("release uri", y)' = 0
  <2> TAKE y
  <2>1. PendingIn(work', "release", y) = 0 /\ PendingIn(work', "release uri", y) = 0
    BY <1>1, NoneLike
  <2> QED BY <2>1 DEF Pending, PendingIn
<1>3. Shape' /\ Ordered'
  BY <1>1 DEF Shape, Ordered, ShapeOf, OrderedBy
<1>4. TasksOK'
  BY <1>1 DEF TasksOK
<1> QED BY <1>1, <1>2, <1>3, <1>4

\* What is needed stays so, with one more to count on it.
LEMMA OneMoreHeld ==
  ASSUME NEW h \in 0..MaxHeld, h < MaxHeld, NEW r \in Int
  PROVE  h + 1 \in 0..MaxHeld /\ h + 1 \in Nat /\ r + 1 \in Int /\ (r > 0 => r + 1 > 0)
<1>1. MaxHeld \in Nat
  BY ReferencesAssumption
<1> QED BY <1>1

LEMMA HoldKeeps ==
  ASSUME RefsInv, work = <<>>, UNCHANGED fault, NEW x \in Objects, Hold(x)
  PROVE  RefsInv'
<1>1. /\ x \in InReach /\ held[x] < MaxHeld
      /\ held' = [held EXCEPT ![x] = @ + 1] /\ refs' = [refs EXCEPT ![x] = @ + 1] /\ work' = <<>>
      /\ alive' = alive /\ uriRefs' = uriRefs /\ parent' = parent
      /\ content' = content /\ uriHeld' = uriHeld /\ listed' = listed /\ fault' = fault
  BY DEF Hold, tree
<1>2. /\ Typed /\ Forest /\ Counts /\ On(work) = {}
      /\ \A y : Pending("release", y) = 0 /\ Pending("release uri", y) = 0
      /\ \A y \in alive : Needed(y)
      /\ \A e \in Objects : \A c \in content[e] : parent[c] = e
  BY Idle
<1>3. x \in alive
  BY <1>1, <1>2, Reachable
<1>4. /\ work' \in Seq(Tasks) /\ On(work') = {} /\ Shape' /\ TasksOK' /\ Ordered'
      /\ \A y : Pending("release", y)' = 0 /\ Pending("release uri", y)' = 0
  BY <1>1, StillIdle
<1>5. /\ held' \in [Objects -> 0..MaxHeld] /\ held'[x] = held[x] + 1 /\ held[x] \in Nat
      /\ \A y \in Objects : y # x => held'[y] = held[y]
      /\ refs' \in [Objects -> Int] /\ refs'[x] = refs[x] + 1 /\ (refs[x] > 0 => refs'[x] > 0)
      /\ \A y \in Objects : y # x => refs'[y] = refs[y]
  <2>1. held \in [Objects -> 0..MaxHeld] /\ refs \in [Objects -> Int] /\ held[x] \in Nat
    BY <1>2, CountsAreNat DEF Typed, StateTypeOK
  <2>2. held[x] \in 0..MaxHeld /\ held[x] < MaxHeld /\ refs[x] \in Int
    BY <1>1, <2>1
  <2>3. /\ held[x] + 1 \in 0..MaxHeld /\ refs[x] + 1 \in Int
        /\ (refs[x] > 0 => refs[x] + 1 > 0)
    BY ONLY <2>2, OneMoreHeld
  <2> QED BY <1>1, <2>1, <2>3
<1>6. Typed'
  BY <1>1, <1>2, <1>4, <1>5, TypedAgain DEF Typed, StateTypeOK
<1>7. Forest'
  <2>1. \A y \in Objects \ alive : held'[y] = 0
    BY <1>2, <1>3, <1>5 DEF Forest
  <2>2. \A e \in Objects : \A c \in content[e] : Task("hand", c, e) \notin On(work)
    BY <1>2
  <2> QED BY <1>1, <1>2, <2>1, <2>2 DEF Forest
<1>8. \A y : Slots(y)' = Slots(y) /\ Kids(y)' = Kids(y)
  BY <1>1 DEF Slots, Kids, SlotsOf, Children
<1>9. \A y : Stacked(y)' = Stacked(y)
  BY <1>2, <1>4 DEF Stacked
<1>10. Counts'
  <2>1. ASSUME NEW y \in alive, y # x PROVE refs'[y] = Referred(y)'
    <3>1. Kept(y)' = Kept(y) /\ refs'[y] = refs[y]
      BY <1>1, <1>2, <1>5, <2>1 DEF Kept, Typed, StateTypeOK
    <3> QED BY <1>2, <1>8, <1>9, <3>1, CountStays
  <2>2. refs'[x] = Referred(x)'
    <3>1. Kept(x)' = Kept(x) + 1
      <4> DEFINE d == IF x \in Documents /\ listed[x] # "gone" THEN 1 ELSE 0
                 h == held[x]
                 g == held'[x]
      <4>1. d \in Nat /\ h \in Nat /\ g = h + 1
        BY <1>5
      <4>2. Kept(x) = h + d /\ Kept(x)' = g + d
        BY <1>1 DEF Kept
      <4> HIDE DEF d, h, g
      <4> QED BY <4>1, <4>2
    <3> QED BY <1>2, <1>3, <1>5, <1>6, <1>8, <1>9, <3>1, CountUp
  <2> QED BY <1>1, <1>2, <1>4, <2>1, <2>2 DEF Counts
<1>11. Due'
  <2>1. \A y \in alive : refs[y] > 0 => refs'[y] > 0
    BY <1>2, <1>5 DEF Typed, StateTypeOK
  <2>2. \A y \in alive : Needed(y)'
    BY <1>1, <1>2, <2>1 DEF Needed
  <2> QED BY <1>1, <2>2 DEF Due
<1> QED BY <1>4, <1>6, <1>7, <1>10, <1>11 DEF RefsInv

LEMMA HoldUriKeeps ==
  ASSUME RefsInv, work = <<>>, UNCHANGED fault, NEW d \in Documents, HoldUri(d)
  PROVE  RefsInv'
<1>1. /\ d \in InReach /\ uriHeld[d] < MaxHeld
      /\ uriHeld' = [uriHeld EXCEPT ![d] = @ + 1] /\ uriRefs' = [uriRefs EXCEPT ![d] = @ + 1]
      /\ work' = <<>> /\ alive' = alive /\ refs' = refs /\ parent' = parent
      /\ content' = content /\ held' = held /\ listed' = listed /\ fault' = fault
  BY DEF HoldUri, tree
<1>2. /\ Typed /\ Forest /\ Counts /\ On(work) = {}
      /\ \A y : Pending("release", y) = 0 /\ Pending("release uri", y) = 0
      /\ \A y \in alive : Needed(y)
      /\ \A e \in Objects : \A c \in content[e] : parent[c] = e
  BY Idle
<1>3. d \in alive /\ d \in Objects
  BY <1>1, <1>2, Reachable, FiniteObjects
<1>4. /\ work' \in Seq(Tasks) /\ On(work') = {} /\ Shape' /\ TasksOK' /\ Ordered'
      /\ \A y : Pending("release", y)' = 0 /\ Pending("release uri", y)' = 0
  BY <1>1, StillIdle
<1>5. /\ uriHeld' \in [Documents -> 0..MaxHeld] /\ uriHeld'[d] = uriHeld[d] + 1
      /\ \A y \in Documents : y # d => uriHeld'[y] = uriHeld[y]
      /\ uriRefs' \in [Documents -> Int] /\ uriRefs'[d] = uriRefs[d] + 1
      /\ (uriRefs[d] > 0 => uriRefs'[d] > 0)
      /\ \A y \in Documents : y # d => uriRefs'[y] = uriRefs[y]
  <2>1. uriHeld \in [Documents -> 0..MaxHeld] /\ uriRefs \in [Documents -> Int]
    BY <1>2 DEF Typed, StateTypeOK
  <2>2. uriHeld[d] \in 0..MaxHeld /\ uriHeld[d] < MaxHeld /\ uriRefs[d] \in Int
    BY <1>1, <2>1
  <2>3. /\ uriHeld[d] + 1 \in 0..MaxHeld /\ uriRefs[d] + 1 \in Int
        /\ (uriRefs[d] > 0 => uriRefs[d] + 1 > 0)
    BY ONLY <2>2, OneMoreHeld
  <2> QED BY <1>1, <2>1, <2>3
<1>6. Typed'
  BY <1>1, <1>2, <1>4, <1>5, TypedAgain DEF Typed, StateTypeOK
<1>7. Forest'
  <2>1. \A y \in Documents \ alive : listed'[y] = "gone" /\ uriHeld'[y] = 0
    BY <1>1, <1>2, <1>3, <1>5 DEF Forest
  <2>2. \A e \in Objects : \A c \in content[e] : Task("hand", c, e) \notin On(work)
    BY <1>2
  <2> QED BY <1>1, <1>2, <2>1, <2>2 DEF Forest
<1>8. \A y : Slots(y)' = Slots(y) /\ Kids(y)' = Kids(y) /\ Kept(y)' = Kept(y)
  BY <1>1 DEF Slots, Kids, SlotsOf, Children, Kept
<1>9. \A y : Stacked(y)' = Stacked(y)
  BY <1>2, <1>4 DEF Stacked
<1>10. Counts'
  <2>1. ASSUME NEW y \in alive PROVE refs'[y] = Referred(y)'
    BY <1>1, <1>2, <1>8, <1>9, CountStays
  <2>2. ASSUME NEW y \in Documents \intersect alive
        PROVE  uriRefs'[y] = uriHeld'[y] + Pending("release uri", y)'
    <3>1. uriRefs[y] = uriHeld[y] + 0 /\ uriHeld[y] \in Nat
      BY <1>2, <1>3, FiniteObjects, CountsAreNat DEF Counts
    <3>2. CASE y = d
      <4>1. /\ uriRefs'[d] = uriRefs[d] + 1 /\ uriRefs[d] = uriHeld[d] + 0 /\ uriHeld[d] \in Nat
            /\ uriHeld'[d] = uriHeld[d] + 1 /\ Pending("release uri", d)' = 0
        BY <1>4, <1>5, <3>1, <3>2
      <4> PICK a, b, c, e, f :
            a = uriHeld[d] /\ b = uriHeld'[d] /\ c = uriRefs'[d] /\ e = Pending("release uri", d)' /\ f = uriRefs[d]
        OBVIOUS
      <4>2. c = f + 1 /\ f = a + 0 /\ a \in Nat /\ b = a + 1 /\ e = 0
        BY <4>1
      <4>3. c = b + e
        BY ONLY <4>2
      <4> QED BY <3>2, <4>3
    <3>3. CASE y # d
      BY <1>4, <1>5, <3>1, <3>3
    <3> QED BY <3>2, <3>3
  <2> QED BY <1>1, <2>1, <2>2 DEF Counts
<1>11. Due'
  <2>1. \A y \in Documents : uriRefs[y] > 0 => uriRefs'[y] > 0
    BY <1>2, <1>5 DEF Typed, StateTypeOK
  <2>2. \A y \in alive : Needed(y)'
    BY <1>1, <1>2, <2>1 DEF Needed
  <2> QED BY <1>1, <2>2 DEF Due
<1> QED BY <1>4, <1>6, <1>7, <1>10, <1>11 DEF RefsInv

LEMMA CreateKeeps ==
  ASSUME RefsInv, work = <<>>, UNCHANGED fault, NEW p \in Objects, NEW e \in Elements, Create(p, e)
  PROVE  RefsInv'
<1>1. /\ p \in InReach /\ e \notin alive /\ alive' = alive \union {e}
      /\ parent' = [parent EXCEPT ![e] = p]
      /\ refs' = [refs EXCEPT ![e] = 1, ![p] = @ + 1]
      /\ work' = <<>> /\ uriRefs' = uriRefs
      /\ uriHeld' = uriHeld /\ listed' = listed /\ fault' = fault
  BY DEF Create
<1>2. /\ Typed /\ Forest /\ Counts /\ On(work) = {}
      /\ \A y : Pending("release", y) = 0 /\ Pending("release uri", y) = 0
      /\ \A y \in alive : Needed(y)
      /\ \A x \in Objects : \A c \in content[x] : parent[c] = x
  BY Idle
<1>3. /\ p \in alive /\ p # e /\ e \in Objects /\ e \notin Documents /\ alive \subseteq Objects
      /\ alive' \subseteq Objects
  BY <1>1, <1>2, Reachable, FiniteObjects, ReferencesAssumption DEF Typed, StateTypeOK
<1>4. /\ work' \in Seq(Tasks) /\ On(work') = {} /\ Shape' /\ TasksOK' /\ Ordered'
      /\ \A y : Pending("release", y)' = 0 /\ Pending("release uri", y)' = 0
  BY <1>1, StillIdle
<1>5. /\ parent' \in [Objects -> Objects] /\ parent'[e] = p
      /\ \A y \in Objects : y # e => parent'[y] = parent[y]
  BY <1>1, <1>2, <1>3 DEF Typed, StateTypeOK
<1>6. /\ refs' \in [Objects -> Int] /\ refs'[e] = 1 /\ refs'[p] = refs[p] + 1
      /\ \A y \in Objects : y # e /\ y # p => refs'[y] = refs[y]
      /\ refs[p] \in Int
  <2>1. refs \in [Objects -> Int]
    BY <1>2 DEF Typed, StateTypeOK
  <2>2. refs[p] \in Int /\ refs[p] + 1 \in Int
    BY <2>1
  <2> QED BY <1>1, <1>3, <2>1, <2>2
\* Held by the client, or in its slot.
<1>7. /\ held' \in [Objects -> 0..MaxHeld] /\ content' \in [Objects -> SUBSET Elements]
      /\ \A y \in Objects : y # e => held'[y] = held[y]
      /\ \A y \in Objects : content'[y] \ {e} = content[y] /\ (e \in content'[y] => y = p)
      /\ \/ held'[e] = 1 /\ e \notin content'[p]
         \/ held'[e] = 0 /\ e \in content'[p]
  <2>1. /\ held \in [Objects -> 0..MaxHeld] /\ content \in [Objects -> SUBSET Elements]
        /\ 1 \in 0..MaxHeld
    <3>1. MaxHeld \in Nat \ {0}
      BY ReferencesAssumption
    <3>2. 1 \in 0..MaxHeld
      BY ONLY <3>1
    <3> QED BY <1>2, <3>2 DEF Typed, StateTypeOK
  <2>2. content[e] = {} /\ held[e] = 0 /\ \A y \in Objects : e \notin content[y]
    BY <1>1, <1>2, <1>3 DEF Forest
  <2>3. CASE held' = [held EXCEPT ![e] = 1] /\ content' = [content EXCEPT ![e] = {}]
    <3>1. \A y \in Objects : content'[y] = content[y]
      BY <2>1, <2>2, <2>3
    <3>2. held'[e] = 1 /\ held' \in [Objects -> 0..MaxHeld]
      BY <1>3, <2>1, <2>3
    <3>3. content' \in [Objects -> SUBSET Elements]
      BY <2>1, <2>3
    <3>4. \A y \in Objects : y # e => held'[y] = held[y]
      BY <2>1, <2>3
    <3> QED BY <1>3, <2>2, <3>1, <3>2, <3>3, <3>4
  <2>4. CASE /\ content' = [content EXCEPT ![e] = {}, ![p] = @ \union {e}]
             /\ held' = held
    <3>1. content'[p] = content[p] \union {e}
      BY <1>3, <2>1, <2>4
    <3>2. \A y \in Objects : y # p => content'[y] = content[y]
      BY <2>1, <2>2, <2>4
    <3>3. content' \in [Objects -> SUBSET Elements]
      BY <1>3, <2>1, <2>4
    <3> QED BY <1>3, <2>1, <2>2, <2>4, <3>1, <3>2, <3>3
  <2> QED BY <2>3, <2>4 DEF Create
<1>8. Typed'
  <2>1. /\ uriRefs' \in [Documents -> Int] /\ uriHeld' \in [Documents -> 0..MaxHeld]
        /\ listed' \in [Documents -> {"open", "closed", "gone"}] /\ fault' \in Faults
    BY <1>1, <1>2 DEF Typed, StateTypeOK
  <2> QED BY <1>3, <1>4, <1>5, <1>6, <1>7, <2>1, TypedAgain
<1>9. /\ \A y \in Objects : y # e => SlotsOf(y)' = SlotsOf(y)
      /\ SlotsOf(e) = {} /\ SlotsOf(e)' = IF e \in content'[p] THEN {p} ELSE {}
  <2>1. SlotsOf(e) = {} /\ content[e] = {}
    BY <1>1, <1>2, <1>3 DEF Forest, SlotsOf
  <2>2. \A y : y \in content'[e] => y = e
    BY <1>3, <1>7, <2>1
  <2>3. ASSUME NEW y \in Objects, y # e PROVE SlotsOf(y)' = SlotsOf(y)
    <3>1. \A x \in Objects : y \in content'[x] <=> y \in content[x]
      BY <1>7, <2>3
    <3>2. y \notin content'[e]
      BY <2>2, <2>3
    <3> QED BY <1>1, <1>3, <3>1, <3>2 DEF SlotsOf
  <2>4. SlotsOf(e)' = IF e \in content'[p] THEN {p} ELSE {}
    BY <1>1, <1>3, <1>7 DEF SlotsOf
  <2> QED BY <2>1, <2>3, <2>4
<1>10. /\ \A y \in Objects : y # p => Children(y)' = Children(y)
       /\ Children(p)' = Children(p) \union {e} /\ e \notin Children(p) /\ Children(e) = {}
  <2>1. \A y \in alive : parent[y] # e
    BY <1>1, <1>2 DEF Forest
  <2>2. Children(e) = {}
    BY <2>1 DEF Children
  <2>3. \A y \in alive : parent'[y] = parent[y]
    BY <1>1, <1>3, <1>5
  <2>4. ASSUME NEW y \in Objects, y # p PROVE Children(y)' = Children(y)
    BY <1>1, <1>5, <2>3, <2>4 DEF Children
  <2>5. Children(p)' = Children(p) \union {e}
    BY <1>1, <1>3, <1>5, <2>3 DEF Children
  <2> QED BY <1>1, <2>2, <2>4, <2>5 DEF Children
<1>11. /\ \A y \in Objects : y # e => Kept(y)' = Kept(y)
       /\ Kept(e)' = held'[e] + 0
  BY <1>1, <1>3, <1>7 DEF Kept
<1>12. \A y : Stacked(y)' = Stacked(y) /\ Stacked(y)' = 0
  BY <1>2, <1>4 DEF Stacked
<1>13. Forest'
  <2>1. \A x \in alive' : parent'[x] \in alive' /\ content'[x] \subseteq alive'
    <3> SUFFICES ASSUME NEW x \in alive' PROVE parent'[x] \in alive' /\ content'[x] \subseteq alive'
      OBVIOUS
    <3>1. CASE x = e
      <4>1. content[e] = {}
        BY <1>1, <1>2, <1>3 DEF Forest
      <4> QED BY <1>1, <1>3, <1>5, <1>7, <3>1, <4>1
    <3>2. CASE x # e
      <4>1. x \in alive /\ parent[x] \in alive /\ content[x] \subseteq alive /\ x \in Objects
        BY <1>1, <1>2, <1>3, <3>2 DEF Forest
      <4>2. content'[x] \ {e} = content[x] /\ parent'[x] = parent[x]
        BY <1>5, <1>7, <3>2, <4>1
      <4> QED BY <1>1, <4>1, <4>2
    <3> QED BY <3>1, <3>2
  <2>2. \A x \in Objects \ alive' : parent'[x] = x /\ content'[x] = {} /\ held'[x] = 0
    <3> SUFFICES ASSUME NEW x \in Objects, x \notin alive'
                 PROVE  parent'[x] = x /\ content'[x] = {} /\ held'[x] = 0
      OBVIOUS
    <3>1. x \notin alive /\ x # e /\ x # p
      BY <1>1, <1>3
    <3>2. parent[x] = x /\ content[x] = {} /\ held[x] = 0
      BY <1>2, <3>1 DEF Forest
    <3>3. parent'[x] = parent[x] /\ held'[x] = held[x]
      BY <1>5, <1>7, <3>1
    <3>4. content'[x] \ {e} = content[x] /\ e \notin content'[x]
      BY <1>7, <3>1
    <3> QED BY <3>2, <3>3, <3>4
  <2>3. \A d \in Documents \ alive' : listed'[d] = "gone" /\ uriHeld'[d] = 0
    BY <1>1, <1>2 DEF Forest
  <2>4. \A d \in Documents : parent'[d] = d
    BY <1>2, <1>3, <1>5, FiniteObjects DEF Forest
  <2>5. \A x \in Elements \intersect alive' : x \notin Closure(parent', {parent'[x]})
    <3> SUFFICES ASSUME NEW x \in Elements, x \in alive' PROVE x \notin Closure(parent', {parent'[x]})
      OBVIOUS
    <3>1. parent \in Parents /\ parent' \in Parents
      BY <1>2, <1>5 DEF Typed, StateTypeOK, Parents
    <3>2. ASSUME NEW y \in alive
          PROVE  /\ Closure(parent', {y}) = Closure(parent, {y})
                 /\ e \notin Closure(parent, {y})
      <4>1. {y} \in SUBSET alive /\ {y} \in SUBSET Objects
        BY <1>3
      <4>2. Closure(parent, {y}) \subseteq alive
        BY <1>2, <4>1, AboveIsAlive
      <4>3. e \notin Closure(parent, {y})
        BY <1>1, <4>2
      <4> QED BY <1>5, <3>1, <4>1, <4>3, ClosureAside
    <3>3. CASE x = e
      BY <1>3, <1>5, <3>2, <3>3
    <3>4. CASE x # e
      <4>1. x \in alive /\ x \in Objects /\ parent[x] \in alive /\ x \notin Closure(parent, {parent[x]})
        BY <1>1, <1>2, <1>3, <3>4 DEF Forest
      <4>2. parent'[x] = parent[x]
        BY <1>5, <3>4, <4>1
      <4> QED BY <3>2, <4>1, <4>2
    <3> QED BY <3>3, <3>4
  <2>6. ASSUME NEW x \in Objects, NEW c \in content'[x]
        PROVE  parent'[c] = x /\ \A g \in Objects : c \in content'[g] => g = x
    <3>1. CASE c = e
      BY <1>5, <1>7, <2>6, <3>1
    <3>2. CASE c # e
      <4>1. c \in content[x] /\ \A g \in Objects : c \in content'[g] => c \in content[g]
        BY <1>7, <3>2
      <4>2. c \in Objects
        BY <1>2, <4>1, FiniteObjects DEF Typed, StateTypeOK
      <4>3. parent[c] = x /\ \A g \in Objects : c \in content[g] => g = x
        BY <1>2, <4>1 DEF Forest
      <4> QED BY <1>5, <3>2, <4>1, <4>2, <4>3
    <3> QED BY <3>1, <3>2
  <2>7. fault' = ""
    BY <1>1, <1>2 DEF Forest
  <2> QED BY <2>1, <2>2, <2>3, <2>4, <2>5, <2>6, <2>7 DEF Forest
<1>14. ASSUME NEW y \in alive PROVE refs'[y] = Referred(y)'
  <2>1. y \in Objects /\ y # e
    BY <1>1, <1>3
  <2>2. Slots(y)' = Slots(y) /\ Kept(y)' = Kept(y) /\ Stacked(y)' = Stacked(y)
    BY <1>9, <1>11, <1>12, <2>1 DEF Slots
  <2>3. CASE y = p
    <3>1. Kids(p)' = Kids(p) + 1
      <4>1. Children(p) \in SUBSET Objects
        BY <1>2, <1>3, CountsAreNat
      <4> QED BY <1>3, <1>10, <4>1, OneMore DEF Kids
    <3> QED BY <1>2, <1>6, <1>8, <2>2, <2>3, <3>1, CountUp
  <2>4. CASE y # p
    <3>1. Kids(y)' = Kids(y) /\ refs'[y] = refs[y]
      BY <1>6, <1>10, <2>1, <2>4 DEF Kids
    <3> QED BY <1>2, <2>2, <3>1, CountStays
  <2> QED BY <2>3, <2>4
<1>15. refs'[e] = Referred(e)'
  <2>1. Kids(e)' = 0 /\ Stacked(e)' = 0
    BY <1>3, <1>10, <1>12, JustOne DEF Kids
  <2>2. Slots(e)' = IF e \in content'[p] THEN 1 ELSE 0
    BY <1>3, <1>9, JustOne DEF Slots
  <2>3. \/ Kept(e)' = 1 /\ Slots(e)' = 0
        \/ Kept(e)' = 0 /\ Slots(e)' = 1
    BY <1>7, <1>11, <2>2
  <2>4. Referred(e)' = Kept(e)' + Slots(e)' + Kids(e)' + Stacked(e)'
    BY DEF Referred, Fixed
  <2> PICK a, b, c, d : a = Kept(e)' /\ b = Slots(e)' /\ c = Kids(e)' /\ d = Stacked(e)'
    OBVIOUS
  <2>5. Referred(e)' = a + b + c + d /\ c = 0 /\ d = 0 /\ ((a = 1 /\ b = 0) \/ (a = 0 /\ b = 1))
    BY <2>1, <2>3, <2>4
  <2>6. Referred(e)' = 1
    BY ONLY <2>5
  <2> QED BY <1>6, <2>6
<1>16. Counts'
  <2>1. \A d \in Documents \intersect alive' : d \in alive
    BY <1>1, <1>3
  <2>2. \A d \in Documents \intersect alive' : uriRefs'[d] = uriHeld'[d] + Pending("release uri", d)'
    BY <1>1, <1>2, <1>4, <2>1 DEF Counts
  <2>3. \A y \in alive' : refs'[y] = Referred(y)'
    BY <1>1, <1>14, <1>15
  <2> QED BY <2>2, <2>3 DEF Counts
<1>17. Due'
  <2>1. ASSUME NEW y \in alive' PROVE Needed(y)'
    <3>1. CASE y = e
      BY <1>6, <3>1 DEF Needed
    <3>2. CASE y # e
      <4>1. y \in alive /\ y \in Objects /\ Needed(y) /\ refs[y] \in Int
        BY <1>1, <1>2, <1>3, <3>2 DEF Typed, StateTypeOK
      <4>2. refs'[y] = refs[y] \/ refs'[y] = refs[y] + 1
        BY <1>6, <3>2, <4>1
      <4>3. refs[y] > 0 => refs'[y] > 0
        BY ONLY <4>1, <4>2
      <4> QED BY <1>1, <4>1, <4>3 DEF Needed
    <3> QED BY <3>1, <3>2
  <2> QED BY <2>1 DEF Due
<1> QED BY <1>4, <1>8, <1>13, <1>16, <1>17 DEF RefsInv

-----------------------------------------------------------------------------
(* Every step, and every behaviour. *)

LEMMA LibraryKeeps == ASSUME RefsInv, SourceOK, LibraryRuns PROVE RefsInv'
BY ReleaseKeeps, ReleaseUriKeeps, ZeroKeeps, ReparentKeeps, EnterKeeps, HandKeeps, VacateKeeps,
   ClearKeeps, CompactKeeps DEF LibraryRuns

LEMMA ClientKeeps == ASSUME RefsInv, ClientCalls PROVE RefsInv'
<1>1. work = <<>> /\ fault' = fault
  BY DEF ClientCalls
<1>2. ASSUME NEW p \in Objects, NEW e \in Elements, Create(p, e) \/ Place(p, e) PROVE RefsInv'
  <2>1. CASE Create(p, e)
    BY <1>1, <2>1, CreateKeeps
  <2>2. CASE Place(p, e)
    BY <1>1, <2>2, PlaceKeeps
  <2> QED BY <1>2, <2>1, <2>2
<1>3. ASSUME NEW p \in Objects, NEW x \in Elements, NEW c \in Elements, Replace(p, x, c)
      PROVE  RefsInv'
  BY <1>1, <1>3, ReplaceKeeps
<1>4. ASSUME NEW x \in Objects, Hold(x) \/ Drop(x) PROVE RefsInv'
  <2>1. CASE Hold(x)
    BY <1>1, <2>1, HoldKeeps
  <2>2. CASE Drop(x)
    BY <1>1, <2>2, DropKeeps
  <2> QED BY <1>4, <2>1, <2>2
<1>5. ASSUME NEW c \in Elements, RemoveChild(c) \/ ClearContents(c) PROVE RefsInv'
  <2>1. CASE RemoveChild(c)
    BY <1>1, <2>1, RemoveKeeps
  <2>2. CASE ClearContents(c)
    BY <1>1, <2>2, ClearContentsKeeps
  <2> QED BY <1>5, <2>1, <2>2
<1>6. ASSUME NEW d \in Documents,
             \/ HoldUri(d) \/ DropUri(d) \/ CloseDocument(d) \/ CompactClosed(d)
      PROVE  RefsInv'
  <2>1. CASE HoldUri(d)
    BY <1>1, <2>1, HoldUriKeeps
  <2>2. CASE DropUri(d)
    BY <1>1, <2>2, DropUriKeeps
  <2>3. CASE CloseDocument(d)
    BY <1>1, <2>3, CloseKeeps
  <2>4. CASE CompactClosed(d)
    BY <1>1, <2>4, CompactClosedKeeps
  <2> QED BY <1>6, <2>1, <2>2, <2>3, <2>4
<1> QED BY <1>2, <1>3, <1>4, <1>5, <1>6 DEF ClientCalls

LEMMA StutterKeeps == ASSUME RefsInv, UNCHANGED referencesVars PROVE RefsInv'
<1>1. /\ alive' = alive /\ refs' = refs /\ uriRefs' = uriRefs /\ parent' = parent
      /\ content' = content /\ held' = held /\ uriHeld' = uriHeld /\ listed' = listed
      /\ work' = work /\ fault' = fault
  BY DEF referencesVars, counts, tree, client
<1>2. Typed'
  BY <1>1 DEF RefsInv, Typed, StateTypeOK
<1>3. Forest'
  BY <1>1 DEF RefsInv, Forest
<1>4. Counts'
  <2>1. ASSUME NEW y PROVE Referred(y)' = Referred(y) /\ Pending("release uri", y)' = Pending("release uri", y)
    BY <1>1 DEF Referred, Fixed, Kept, Slots, Kids, Stacked, SlotsOf, Children, Pending
  <2> QED BY <1>1, <2>1 DEF RefsInv, Counts
<1>5. Due'
  BY <1>1 DEF RefsInv, Due, Needed
<1>6. TasksOK'
  <2>1. \A y : SlotsOf(y)' = SlotsOf(y) /\ Protected(y)' = Protected(y)
    BY <1>1 DEF SlotsOf, Protected, Roots
  <2>2. ASSUME NEW t \in On(work) PROVE TaskOK(t)'
    <3>1. TaskOK(t)
      BY DEF RefsInv, TasksOK
    <3> QED BY <1>1, <2>1, <3>1 DEF TaskOK
  <2> QED BY <1>1, <2>2 DEF TasksOK
<1>7. Shape' /\ Ordered'
  BY <1>1 DEF RefsInv, Shape, Ordered
<1> QED BY <1>2, <1>3, <1>4, <1>5, <1>6, <1>7 DEF RefsInv

\* Stacks written out.
LEMMA TwoTasks ==
  ASSUME NEW a, NEW b
  PROVE  /\ Head(<<a, b>>) = a /\ Tail(<<a, b>>) = <<b>> /\ <<a, b>> # <<>>
         /\ <<a>> \o <<b>> = <<a, b>>
<1> PICK S : S = {a, b}
  OBVIOUS
<1>0. a \in S /\ b \in S
  OBVIOUS
<1>1. <<a>> \in Seq(S) /\ <<b>> \in Seq(S) /\ <<a, b>> \in Seq(S)
  BY <1>0
<1>2. <<a>> \o <<b>> \in Seq(S) /\ Len(<<a>> \o <<b>>) = 2
  BY <1>1
<1>3. (<<a>> \o <<b>>)[1] = a /\ (<<a>> \o <<b>>)[2] = b
  BY <1>1
<1> PICK v, w : v = <<a>> \o <<b>> /\ w = <<a, b>>
  OBVIOUS
<1>4. v \in Seq(S) /\ w \in Seq(S) /\ Len(v) = 2 /\ Len(w) = 2 /\ v[1] = w[1] /\ v[2] = w[2]
  BY <1>1, <1>2, <1>3
<1>5. \A i \in 1..2 : v[i] = w[i]
  <2> TAKE i \in 1..2
  <2>1. i = 1 \/ i = 2
    OBVIOUS
  <2> QED BY <1>4, <2>1
<1>6. v = w
  BY <1>4, <1>5, SeqEqual
<1>7. Tail(<<a, b>>) = <<b>>
  BY <1>0
<1>8. Head(<<a, b>>) = a /\ <<a, b>> # <<>>
  OBVIOUS
<1> QED BY <1>6, <1>7, <1>8

LEMMA OneTask ==
  ASSUME NEW a PROVE Head(<<a>>) = a /\ <<a>> # <<>> /\ <<>> \o <<a>> = <<a>>
<1> PICK S : S = {a}
  OBVIOUS
<1>1. <<a>> \in Seq(S)
  OBVIOUS
<1> QED BY <1>1

LEMMA ThreeTasks ==
  ASSUME NEW v, NEW a, NEW b PROVE <<v>> \o <<a, b>> = <<v, a, b>>
<1> PICK S : S = {v, a, b}
  OBVIOUS
<1>0. v \in S /\ a \in S /\ b \in S
  OBVIOUS
<1>1. <<v>> \in Seq(S) /\ <<a, b>> \in Seq(S) /\ <<v, a, b>> \in Seq(S)
  BY <1>0
<1>2. <<v>> \o <<a, b>> \in Seq(S) /\ Len(<<v>> \o <<a, b>>) = 3
  BY <1>1
<1>3. /\ (<<v>> \o <<a, b>>)[1] = v /\ (<<v>> \o <<a, b>>)[2] = a
      /\ (<<v>> \o <<a, b>>)[3] = b
  BY <1>1
<1> PICK y, w : y = <<v>> \o <<a, b>> /\ w = <<v, a, b>>
  OBVIOUS
<1>4. /\ y \in Seq(S) /\ w \in Seq(S) /\ Len(y) = 3 /\ Len(w) = 3
      /\ y[1] = w[1] /\ y[2] = w[2] /\ y[3] = w[3]
  BY <1>1, <1>2, <1>3
<1>5. \A i \in 1..3 : y[i] = w[i]
  <2> TAKE i \in 1..3
  <2>1. i = 1 \/ i = 2 \/ i = 3
    OBVIOUS
  <2> QED BY <1>4, <2>1
<1>6. y = w
  BY <1>4, <1>5, SeqEqual
<1> QED BY <1>6

LEMMA OnTail == \A w \in Seq(Tasks) : w # <<>> => Tail(w) \in Seq(Tasks) /\ On(Tail(w)) \subseteq On(w)
BY StackTop

\* What a step puts on the stack.
LEMMA OnCalls ==
  ASSUME NEW w \in Seq(Tasks), w # <<>>, NEW s \in Seq(Tasks)
  PROVE  On(s \o Tail(w)) \subseteq On(s) \union On(w)
<1> PICK r : r = Tail(w)
  OBVIOUS
<1>1. r \in Seq(Tasks) /\ On(r) \subseteq On(w)
  BY OnTail
<1>2. ASSUME NEW i \in DOMAIN (s \o r) PROVE (s \o r)[i] \in On(s) \union On(r)
  <2>1. CASE i <= Len(s)
    BY <1>1, <1>2, <2>1 DEF On
  <2>2. CASE ~(i <= Len(s))
    <3>1. i - Len(s) \in DOMAIN r /\ (s \o r)[i] = r[i - Len(s)]
      BY <1>1, <1>2, <2>2
    <3> QED BY <3>1 DEF On
  <2> QED BY <2>1, <2>2
<1> QED BY <1>1, <1>2 DEF On

\* A child to be taken out is in its parent, if the task at the top is not about it.
LEMMA SourceIsParent ==
  ASSUME SourceOK, Typed, work # <<>>, Head(work).name \notin {"release", "hand"},
         NEW t \in On(work), t.name = "hand"
  PROVE  parent[t.on] = t.with
<1>1. Head(work) \in On(work)
  BY StackTop DEF Typed
<1> QED BY <1>1 DEF SourceOK

\* Of the steps that put nothing like it on the stack.
LEMMA SourceStays ==
  ASSUME SourceOK, Typed, work # <<>>, Head(work).name \notin {"release", "hand"},
         parent' = parent, \A t \in On(work') : t.name = "hand" => t \in On(work)
  PROVE  SourceOK'
<1>1. ASSUME NEW t \in On(work'), t.name = "hand" PROVE parent'[t.on] = t.with
  BY <1>1, SourceIsParent
<1> QED BY <1>1 DEF SourceOK

LEMMA SourceGrows ==
  ASSUME Typed, work # <<>>, NEW s \in Seq(Tasks), work' = s \o Tail(work),
         \A u \in On(s) : u.name # "hand"
  PROVE  \A t \in On(work') : t.name = "hand" => t \in On(work)
BY OnCalls DEF Typed

LEMMA ReleaseSources == ASSUME RefsInv, SourceOK, Release, RefsInv' PROVE SourceOK'
<1> PICK x : x = Head(work).on
  OBVIOUS
<1> DEFINE z == Task("zero", x, x)
<1>1. Typed /\ Counts /\ TasksOK /\ work \in Seq(Tasks)
  BY DEF RefsInv, Typed
<1>2. /\ work # <<>> /\ Head(work).name = "release" /\ Head(work) \in On(work) /\ Head(work) \in Tasks
      /\ On(Tail(work)) \subseteq On(work) /\ Tail(work) \in Seq(Tasks)
  BY <1>1, StackTop DEF Release, Runs
<1>3. x \in alive /\ x \in Objects
  BY <1>1, <1>2 DEF TasksOK, TaskOK, Typed, StateTypeOK
<1>4. /\ UNCHANGED <<alive, tree, client, listed, uriRefs, fault>>
      /\ work' = (IF refs[x] - 1 <= 0 THEN <<z>> ELSE <<>>) \o Tail(work)
  BY <1>3 DEF Release, Calls
<1>5. z \in Tasks /\ z.name = "zero"
  BY <1>3 DEF Task, Tasks, TaskNames
<1>6. /\ parent' = parent /\ \A y : Fixed(y)' = Fixed(y)
  BY <1>4, SameFixed DEF tree
<1>7. ASSUME NEW t \in On(work'), t.name = "hand", parent'[t.on] # t.with
      PROVE  Fixed(t.with)' > 0 /\ \A u \in On(work') : u = t \/ (u.name = "release" /\ u.on = t.with)
  <2>1. t \in On(work)
    <3>1. <<>> \in Seq(Tasks) /\ <<z>> \in Seq(Tasks) /\ On(<<>>) = {}
      BY <1>5, StackEmpty
    <3>2. \A u \in On(<<z>>) : u.name # "hand"
      BY <1>5 DEF On
    <3> HIDE DEF z
    <3>3. CASE refs[x] - 1 <= 0
      BY <1>1, <1>2, <1>4, <1>7, <3>1, <3>2, <3>3, SourceGrows
    <3>4. CASE ~(refs[x] - 1 <= 0)
      BY <1>1, <1>2, <1>4, <1>7, <3>1, <3>4, SourceGrows
    <3> QED BY <3>3, <3>4
  <2>2. Fixed(t.with) > 0 /\ \A u \in On(work) : u = t \/ (u.name = "release" /\ u.on = t.with)
    BY <1>6, <1>7, <2>1 DEF SourceOK
  <2>3. t.with = x
    BY <1>2, <1>7, <2>2
  <2>4. refs[x] > 1
    <3>1. Fixed(x) \in Nat /\ Pending("release", x) \in Nat /\ refs[x] = Fixed(x) + Pending("release", x)
      BY <1>1, <1>3, FixedIs, CountsAreNat DEF Counts, Referred, Stacked
    <3>2. Pending("release", x) # 0
      BY <1>1, <1>2, Waiting DEF Is
    <3> QED BY <2>2, <2>3, <3>1, <3>2
  <2>5. work' = Tail(work)
    <3>1. refs[x] \in Int
      BY <1>1, <1>3 DEF Typed, StateTypeOK
    <3>2. ~(refs[x] - 1 <= 0)
      BY ONLY <2>4, <3>1
    <3> QED BY <1>2, <1>4, <3>2, NothingFirst
  <2> QED BY <1>2, <1>6, <2>2, <2>3, <2>5
<1> QED BY <1>7 DEF SourceOK

LEMMA ReparentSources ==
  ASSUME RefsInv, SourceOK, Reparent, ~dropped', RefsInv' PROVE SourceOK'
<1> PICK c : c = Head(work).on
  OBVIOUS
<1> PICK p : p = Head(work).with
  OBVIOUS
<1> PICK q : q = parent[c]
  OBVIOUS
<1> DEFINE r == Task("release", q, q)
<1>1. Typed /\ Forest /\ Counts /\ TasksOK /\ Shape /\ work \in Seq(Tasks)
  BY DEF RefsInv, Typed
<1>2. /\ work # <<>> /\ Head(work).name = "reparent" /\ Head(work) \in On(work) /\ Head(work) \in Tasks
      /\ On(work) = {Head(work)} \union On(Tail(work)) /\ Tail(work) \in Seq(Tasks)
  BY <1>1, StackTop DEF Reparent, Runs
<1>3. PICK t \in Tasks : Tail(work) = <<t>> /\ t.on = c /\ t.name \in {"enter", "hand"}
  BY <1>1, <1>2, ShapeTop DEF Shape
<1>4. c \in alive /\ p \in alive /\ {c, p} \subseteq Objects /\ c \in Elements
  BY <1>1, <1>2 DEF TasksOK, TaskOK, Protected, Typed, StateTypeOK
<1>5. /\ refs' = [refs EXCEPT ![p] = @ + 1] /\ parent' = [parent EXCEPT ![c] = p]
      /\ work' = <<r>> \o Tail(work) /\ alive' = alive /\ ~LosesSource(c, p)
  BY <1>4 DEF Reparent, Calls
<1>6. q \in alive /\ q \in Objects /\ q # c
  <2>1. q \in alive /\ q \in Objects /\ c \notin Closure(parent, {q}) /\ parent \in Parents
    BY <1>1, <1>4 DEF Forest, Typed, StateTypeOK, Parents
  <2> QED BY <2>1, ClosureCloses
<1>7. r \in Tasks /\ r.name = "release" /\ r.on = q
  BY <1>6 DEF Task, Tasks, TaskNames
<1> HIDE DEF r
<1>8. work' = <<r, t>>
  BY <1>3, <1>5, TwoTasks
<1>9. On(work') = {r, t}
  BY <1>8 DEF On
<1>10. ASSUME t.name = "hand", parent'[t.on] # t.with PROVE t.with = q /\ Fixed(q)' > 0
  <2>1. t \in On(work)
    <3>1. t \in On(<<t>>)
      BY DEF On
    <3> QED BY <1>2, <1>3, <3>1
  <2>2. t.with = q
    BY <1>1, <1>2, <1>3, <1>10, <2>1, SourceIsParent
  <2>3. p # q
    BY <1>1, <1>3, <1>4, <1>5, <1>10, <2>2 DEF Typed, StateTypeOK
  <2>4. c \in content[q]
    BY <1>1, <1>3, <1>10, <2>1, <2>2 DEF TasksOK, TaskOK
  <2>5. refs[q] \in Nat /\ refs[q] > 1
    <3>1. refs[q] # 1
      BY <1>5, <2>3, <2>4 DEF LosesSource
    <3>2. Children(q) # {}
      BY <1>4, <1>6 DEF Children
    <3>3. refs[q] \in Nat /\ refs[q] > 0
      BY <1>1, <1>6, <3>2, ReferredIsNeeded
    <3> QED BY <3>1, <3>3
  <2>6. refs'[q] = refs[q]
    BY <1>1, <1>4, <1>5, <1>6, <2>3 DEF Typed, StateTypeOK
  <2>7. Pending("release", q)' = 1
    <3>1. {i \in DOMAIN work' : work'[i].name = "release" /\ work'[i].on = q} = {1}
      BY <1>7, <1>8, <1>10
    <3> QED BY <3>1, FS_Singleton DEF Pending
  <2>8. refs'[q] = Fixed(q)' + Pending("release", q)'
    BY <1>5, <1>6 DEF RefsInv, Counts, Referred, Stacked
  <2>9. Fixed(q)' \in Nat
    BY <1>5, <1>6, FixedWillBe DEF RefsInv
  <2> PICK f, n : f = Fixed(q)' /\ n = refs[q]
    OBVIOUS
  <2>10. f \in Nat /\ n \in Nat /\ n > 1 /\ n = f + 1
    BY <2>5, <2>6, <2>7, <2>8, <2>9
  <2>11. f > 0
    BY ONLY <2>10
  <2> QED BY <2>2, <2>11
<1> QED BY <1>7, <1>9, <1>10 DEF SourceOK

LEMMA ZeroSources == ASSUME RefsInv, SourceOK, Zero, RefsInv' PROVE SourceOK'
<1> PICK x : x = Head(work).on
  OBVIOUS
<1> PICK p : p = parent[x]
  OBVIOUS
<1>1. Typed /\ Forest /\ TasksOK /\ work \in Seq(Tasks)
  BY DEF RefsInv, Typed
<1>2. /\ work # <<>> /\ Head(work).name = "zero" /\ Head(work) \in On(work) /\ Head(work) \in Tasks
  BY <1>1, StackTop DEF Zero, Runs
<1>3. x \in alive /\ x \in Objects /\ p \in Objects
  BY <1>1, <1>2 DEF TasksOK, TaskOK, Typed, StateTypeOK
<1>4. PICK s \in Seq(Tasks) : work' = s \o Tail(work) /\ \A u \in On(s) : u.name # "hand"
  <2> PICK z : z = Task("zero", p, p)
    OBVIOUS
  <2>1. /\ <<>> \in Seq(Tasks) /\ <<z>> \in Seq(Tasks) /\ On(<<>>) = {}
        /\ \A u \in On(<<z>>) : u.name # "hand"
    <3>1. z \in Tasks /\ z.name = "zero"
      BY <1>3 DEF Task, Tasks, TaskNames
    <3> QED BY <3>1, StackEmpty DEF On
  <2>2. work' = <<>> \o Tail(work) \/ work' = <<z>> \o Tail(work)
    BY <1>3 DEF Zero, Destruct, Calls
  <2> QED BY <2>1, <2>2
<1>5. \A t \in On(work') : t.name = "hand" => t \in On(work)
  BY <1>1, <1>2, <1>4, SourceGrows
<1>6. \A y \in Objects \intersect alive' : parent'[y] = parent[y]
  BY <1>1, <1>3 DEF Zero, tree, Typed, StateTypeOK
<1>7. ASSUME NEW t \in On(work'), t.name = "hand" PROVE parent'[t.on] = t.with
  <2>1. parent[t.on] = t.with
    BY <1>1, <1>2, <1>5, <1>7, SourceIsParent
  <2>2. t.on \in content'[t.with] /\ t.with \in Elements
    BY <1>7 DEF RefsInv, TasksOK, TaskOK
  <2>3. t.with \in alive' /\ t.on \in alive' /\ t.on \in Objects
    BY <2>2, FiniteObjects DEF RefsInv, Forest, Typed, StateTypeOK
  <2> QED BY <1>6, <2>1, <2>3
<1> QED BY <1>7 DEF SourceOK

\* The steps of the library that leave every parent where it is.
LEMMA OtherSources ==
  ASSUME RefsInv, SourceOK, ReleaseUri \/ Enter \/ Vacate \/ Clear \/ Compact
  PROVE  SourceOK'
<1> PICK x : x = Head(work).on
  OBVIOUS
<1> PICK y : y = Head(work).with
  OBVIOUS
<1>1. Typed /\ Forest /\ TasksOK /\ work \in Seq(Tasks) /\ Shape
  BY DEF RefsInv, Typed
<1>2. /\ work # <<>> /\ Head(work).name \notin {"release", "hand"}
      /\ Head(work) \in On(work) /\ Head(work) \in Tasks
  BY <1>1, StackTop DEF ReleaseUri, Enter, Vacate, Clear, Compact, Runs
<1>3. x \in Objects /\ y \in Objects
  BY <1>2 DEF Tasks
<1>4. ASSUME NEW name \in TaskNames \ {"hand"}, NEW a \in Objects, NEW b \in Objects
      PROVE  Task(name, a, b) \in Tasks /\ Task(name, a, b).name # "hand"
  BY <1>4 DEF Task, Tasks
<1>5. parent' = parent
  BY DEF ReleaseUri, Enter, Vacate, Clear, Compact, tree, Fault
<1>6. \/ work' = <<>>
      \/ \E s \in Seq(Tasks) : work' = s \o Tail(work) /\ \A u \in On(s) : u.name # "hand"
  <2>1. <<>> \in Seq(Tasks) /\ On(<<>>) = {}
    BY StackEmpty
  <2>2. ASSUME NEW a \in Tasks, a.name # "hand"
        PROVE  <<a>> \in Seq(Tasks) /\ \A u \in On(<<a>>) : u.name # "hand"
    BY <2>2 DEF On
  <2>3. CASE ReleaseUri
    <3> PICK a : a = Task("zero", x, x)
      OBVIOUS
    <3>1. a \in Tasks /\ a.name # "hand"
      BY <1>3, <1>4 DEF TaskNames
    <3>2. work' = <<>> \/ work' = <<a>> \o Tail(work) \/ work' = <<>> \o Tail(work)
      BY <2>3 DEF ReleaseUri, Fault, Calls
    <3> QED BY <2>1, <2>2, <3>1, <3>2
  <2>4. CASE Enter
    <3>1. work' = <<>> \/ work' = <<>> \o Tail(work)
      BY <2>4 DEF Enter, Fault, Calls
    <3> QED BY <2>1, <3>1
  <2>5. CASE Vacate
    <3> PICK a : a = Task("release", x, x)
      OBVIOUS
    <3>1. a \in Tasks /\ a.name # "hand"
      BY <1>3, <1>4 DEF TaskNames
    <3>2. work' = <<>> \/ work' = <<a>> \o Tail(work)
      BY <2>5 DEF Vacate, Fault, Calls
    <3> QED BY <2>2, <3>1, <3>2
  <2>6. CASE Clear
    <3>1. \/ work' = <<>>
          \/ work' = <<>> \o Tail(work)
          \/ \E c \in content[x] :
               work' = <<Task("clear", c, c), Task("vacate", c, x), Task("clear", x, x)>> \o Tail(work)
      BY <2>6 DEF Clear, Fault, Calls
    <3>2. ASSUME NEW c \in content[x],
                 work' = <<Task("clear", c, c), Task("vacate", c, x), Task("clear", x, x)>> \o Tail(work)
          PROVE  \E s \in Seq(Tasks) : work' = s \o Tail(work) /\ \A u \in On(s) : u.name # "hand"
      <4> PICK d, e, f : d = Task("clear", c, c) /\ e = Task("vacate", c, x) /\ f = Task("clear", x, x)
        OBVIOUS
      <4>1. c \in Objects
        BY <1>1, <1>3, FiniteObjects DEF Typed, StateTypeOK
      <4>2. {d, e, f} \subseteq Tasks /\ \A u \in {d, e, f} : u.name # "hand"
        <5>1. "clear" \in TaskNames \ {"hand"} /\ "vacate" \in TaskNames \ {"hand"}
          BY DEF TaskNames
        <5>2. d \in Tasks /\ d.name # "hand"
          BY <1>4, <4>1, <5>1
        <5>3. e \in Tasks /\ e.name # "hand"
          BY <1>3, <1>4, <4>1, <5>1
        <5>4. f \in Tasks /\ f.name # "hand"
          BY <1>3, <1>4, <5>1
        <5> QED BY <5>2, <5>3, <5>4
      <4> PICK s : s = <<d, e, f>>
        OBVIOUS
      <4>3. s \in Seq(Tasks) /\ On(s) \subseteq {d, e, f}
        BY <4>2 DEF On
      <4>4. work' = s \o Tail(work)
        BY <3>2
      <4> QED BY <4>2, <4>3, <4>4
    <3> QED BY <2>1, <3>1, <3>2
  <2>7. CASE Compact
    <3> PICK a : a = Task("release", x, x)
      OBVIOUS
    <3>1. a \in Tasks /\ a.name # "hand"
      BY <1>3, <1>4 DEF TaskNames
    <3>2. work' = <<>> \o Tail(work) \/ work' = <<a>> \o Tail(work)
      BY <2>7 DEF Compact, Calls
    <3> QED BY <2>1, <2>2, <3>1, <3>2
  <2> QED BY <2>3, <2>4, <2>5, <2>6, <2>7
<1>7. \A t \in On(work') : t.name = "hand" => t \in On(work)
  <2>1. CASE work' = <<>>
    BY <2>1, StackEmpty
  <2>2. CASE \E s \in Seq(Tasks) : work' = s \o Tail(work) /\ \A u \in On(s) : u.name # "hand"
    BY <1>1, <1>2, <2>2, SourceGrows
  <2> QED BY <1>6, <2>1, <2>2
<1> QED BY <1>1, <1>2, <1>5, <1>7, SourceStays

\* A call begins with what is in its parent.
LEMMA ClientSources == ASSUME RefsInv, ClientCalls PROVE SourceOK'
<1>1. Typed /\ Forest /\ work = <<>>
  BY DEF RefsInv, ClientCalls
<1>2. ASSUME work' = work PROVE SourceOK'
  BY <1>1, <1>2, StackEmpty DEF SourceOK
<1>3. ASSUME parent' = parent,
             \A t \in On(work') : t.name = "hand" => t.with = parent[t.on]
      PROVE  SourceOK'
  BY <1>3 DEF SourceOK
<1>4. \A name, x, y : /\ Task(name, x, y).name = name /\ Task(name, x, y).on = x
                      /\ Task(name, x, y).with = y
  BY DEF Task
<1>5. ASSUME NEW a, a.name # "hand", work' = <<a>>, parent' = parent PROVE SourceOK'
  <2>1. On(work') = {a}
    BY <1>5 DEF On
  <2> QED BY <1>3, <1>5, <2>1
<1>6. ASSUME NEW a, NEW b, a.name # "hand", b.name = "hand" => b.with = parent[b.on],
             work' = <<a, b>>, parent' = parent
      PROVE  SourceOK'
  <2>1. On(work') = {a, b}
    BY <1>6 DEF On
  <2> QED BY <1>3, <1>6, <2>1
<1>7. ASSUME NEW p \in Objects, NEW e \in Elements, Create(p, e) \/ Place(p, e) PROVE SourceOK'
  <2>1. CASE Create(p, e)
    BY <1>2, <2>1 DEF Create
  <2>2. CASE Place(p, e)
    <3> PICK a : a = Task("reparent", e, p)
      OBVIOUS
    <3> PICK b : b = IF InContent(e) THEN Task("hand", e, parent[e]) ELSE Task("enter", e, p)
      OBVIOUS
    <3>1. work' = <<a, b>> /\ parent' = parent
      BY <2>2 DEF Place, Starts, Placing, tree
    <3>2. a.name # "hand" /\ (b.name = "hand" => b.with = parent[b.on])
      BY <1>4
    <3> QED BY <1>6, <3>1, <3>2
  <2> QED BY <1>7, <2>1, <2>2
<1>8. ASSUME NEW p \in Objects, NEW x \in Elements, NEW c \in Elements, Replace(p, x, c) PROVE SourceOK'
  <2> PICK v : v = Task("vacate", x, p)
    OBVIOUS
  <2> PICK a : a = Task("reparent", c, p)
    OBVIOUS
  <2> PICK b : b = IF InContent(c) THEN Task("hand", c, parent[c]) ELSE Task("enter", c, p)
    OBVIOUS
  <2>1. work' = <<v>> \o <<a, b>> /\ parent' = parent
    BY <1>8 DEF Replace, Starts, Placing, tree
  <2>2. v.name # "hand" /\ a.name # "hand" /\ (b.name = "hand" => b.with = parent[b.on])
    BY <1>4
  <2>3. work' = <<v, a, b>>
    BY <2>1, ThreeTasks
  <2>4. On(work') = {v, a, b}
    BY <2>3 DEF On
  <2> QED BY <1>3, <2>1, <2>2, <2>4
<1>9. ASSUME NEW x \in Objects, Hold(x) \/ Drop(x) PROVE SourceOK'
  <2>1. CASE Hold(x)
    BY <1>2, <2>1 DEF Hold
  <2>2. CASE Drop(x)
    BY <1>4, <1>5, <2>2 DEF Drop, Starts, tree
  <2> QED BY <1>9, <2>1, <2>2
<1>10. ASSUME NEW c \in Elements, RemoveChild(c) \/ ClearContents(c) PROVE SourceOK'
  <2>1. CASE RemoveChild(c)
    BY <1>4, <1>5, <2>1 DEF RemoveChild, Starts, tree
  <2>2. CASE ClearContents(c)
    BY <1>4, <1>5, <2>2 DEF ClearContents, Starts, tree
  <2> QED BY <1>10, <2>1, <2>2
<1>11. ASSUME NEW d \in Documents, HoldUri(d) \/ DropUri(d) \/ CloseDocument(d) \/ CompactClosed(d)
       PROVE  SourceOK'
  <2>1. CASE HoldUri(d)
    BY <1>2, <2>1 DEF HoldUri
  <2>2. CASE DropUri(d)
    <3> PICK a : a = Task("release uri", d, d)
      OBVIOUS
    <3>1. work' = <<a>> /\ parent' = parent
      BY <2>2 DEF DropUri, Starts, tree
    <3>2. a.name # "hand"
      BY DEF Task
    <3> QED BY <1>5, <3>1, <3>2
  <2>3. CASE CloseDocument(d)
    <3> PICK a, b : a = Task("clear", d, d) /\ b = Task("compact", d, d)
      OBVIOUS
    <3>1. work' = <<a, b>> /\ parent' = parent
      BY <2>3 DEF CloseDocument, Starts, tree
    <3> QED BY <1>4, <1>6, <3>1
  <2>4. CASE CompactClosed(d)
    BY <1>4, <1>5, <2>4 DEF CompactClosed, Starts, tree
  <2> QED BY <1>11, <2>1, <2>2, <2>3, <2>4
<1> QED BY <1>7, <1>8, <1>9, <1>10, <1>11 DEF ClientCalls

LEMMA SourcesKept ==
  ASSUME RefsInv, SourceOK, [ReferencesNext]_referencesVars, ~dropped', RefsInv'
  PROVE  SourceOK'
<1>1. CASE Hand
  <2>1. work \in Seq(Tasks) /\ Shape /\ work # <<>> /\ Head(work).name = "hand"
    BY <1>1 DEF RefsInv, Typed, Hand, Runs
  <2>2. Tail(work) = <<>>
    BY <2>1, ShapeTop DEF Shape
  <2>3. work' = <<>>
    <3>1. <<>> \o <<>> = <<>>
      OBVIOUS
    <3> QED BY <1>1, <2>2, <3>1 DEF Hand, Fault, Calls
  <2> QED BY <2>3, StackEmpty DEF SourceOK
<1>2. CASE UNCHANGED referencesVars
  <2>1. work' = work /\ parent' = parent /\ \A y : Fixed(y)' = Fixed(y)
    BY <1>2, SameFixed DEF referencesVars, tree
  <2> QED BY <2>1 DEF SourceOK
<1> QED BY <1>1, <1>2, ReleaseSources, ReparentSources, ZeroSources, OtherSources, ClientSources
        DEF ReferencesNext, LibraryRuns

LEMMA NextKeeps == ASSUME RefsInv, SourceOK, [ReferencesNext]_referencesVars PROVE RefsInv'
BY LibraryKeeps, ClientKeeps, StutterKeeps DEF ReferencesNext

\* A move that lets go of the last reference to its source.
LEMMA Dooms == ASSUME RefsInv, SourceOK, [ReferencesNext]_referencesVars, ~dropped, dropped' PROVE Doomed'
<1>1. Reparent
  BY DEF ReferencesNext, LibraryRuns, ClientCalls, referencesVars
<1> PICK c : c = Head(work).on
  OBVIOUS
<1> PICK p : p = Head(work).with
  OBVIOUS
<1> PICK q : q = parent[c]
  OBVIOUS
<1>2. Typed /\ Forest /\ TasksOK /\ Shape /\ work \in Seq(Tasks)
  BY DEF RefsInv, Typed
<1>3. /\ work # <<>> /\ Head(work).name = "reparent" /\ Head(work) \in On(work) /\ Head(work) \in Tasks
      /\ On(work) = {Head(work)} \union On(Tail(work)) /\ Tail(work) \in Seq(Tasks)
  BY <1>1, <1>2, StackTop DEF Reparent, Runs
<1>4. PICK t \in Tasks : Tail(work) = <<t>> /\ t.on = c /\ t.name \in {"enter", "hand"}
  BY <1>2, <1>3, ShapeTop DEF Shape
<1>5. c \in alive /\ p \in alive /\ {c, p} \subseteq Objects /\ c \in Elements
  BY <1>2, <1>3 DEF TasksOK, TaskOK, Protected, Typed, StateTypeOK
<1>6. /\ refs' = [refs EXCEPT ![p] = @ + 1] /\ work' = <<Task("release", q, q)>> \o Tail(work)
      /\ c \in content[q] /\ q # p /\ refs[q] = 1
  BY <1>1, <1>5 DEF Reparent, Calls, LosesSource
<1>7. q \in alive /\ q \in Objects
  BY <1>2, <1>5 DEF Forest, Typed, StateTypeOK
<1>8. t \in On(work)
  <2>1. t \in On(<<t>>)
    BY DEF On
  <2> QED BY <1>3, <1>4, <2>1
<1>9. t.name = "hand"
  <2>1. q \in SlotsOf(c)
    BY <1>6, <1>7 DEF SlotsOf
  <2> QED BY <1>2, <1>4, <1>8, <2>1 DEF TasksOK, TaskOK
<1>10. t.with = q /\ q \in Elements
  <2>1. c \in content[t.with] /\ t.with \in Elements
    BY <1>2, <1>4, <1>8, <1>9 DEF TasksOK, TaskOK
  <2> QED BY <1>2, <1>6, <1>7, <2>1, FiniteObjects DEF Forest
<1>11. t = Task("hand", c, q)
  BY <1>4, <1>9, <1>10 DEF Task, Tasks
<1>12. work' = <<Task("release", q, q), Task("hand", c, q)>>
  BY <1>4, <1>6, <1>11, TwoTasks
<1>13. refs'[q] = 1
  BY <1>2, <1>6, <1>7 DEF Typed, StateTypeOK
<1> QED BY <1>5, <1>10, <1>12, <1>13 DEF Doomed

\* From there it goes one way.
LEMMA StaysDoomed ==
  ASSUME Doomed, [ReferencesNext]_referencesVars PROVE Doomed'
<1>1. CASE UNCHANGED referencesVars
  BY <1>1 DEF Doomed, referencesVars, counts
<1>2. ASSUME fault # "" PROVE UNCHANGED referencesVars
  BY <1>2 DEF ReferencesNext, LibraryRuns, ClientCalls, Runs, Release, ReleaseUri, Zero, Reparent, Enter,
              Hand, Vacate, Clear, Compact
<1> SUFFICES ASSUME fault = "", ReferencesNext PROVE Doomed'
  BY <1>1, <1>2
<1> PICK c, q \in Elements : LET h == Task("hand", c, q) IN
      \/ work = <<Task("release", q, q), h>> /\ refs[q] = 1
      \/ work = <<Task("zero", q, q), h>>
      \/ q \notin alive /\ (work = <<h>> \/ \E x : work = <<Task("zero", x, x), h>>)
  BY DEF Doomed
<1> PICK h : h = Task("hand", c, q)
  OBVIOUS
<1>3. h.name = "hand" /\ h.on = c /\ h.with = q /\ q \notin Documents
  BY ReferencesAssumption DEF Task
<1>4. \A name, x, y : Task(name, x, y).name = name /\ Task(name, x, y).on = x
  BY DEF Task
<1>5. \A what : Fault(what) => fault' = what
  BY DEF Fault
<1>6. work # <<>> /\ LibraryRuns
  BY TwoTasks, OneTask DEF ReferencesNext, ClientCalls
<1> PICK r, z : r = Task("release", q, q) /\ z = Task("zero", q, q)
  OBVIOUS
<1>7. CASE work = <<r, h>> /\ refs[q] = 1
  <2>1. Head(work).name = "release" /\ Head(work).on = q /\ Tail(work) = <<h>>
    <3>1. Head(work) = r /\ Tail(work) = <<h>>
      BY <1>7, TwoTasks
    <3>2. r.name = "release" /\ r.on = q
      BY DEF Task
    <3> QED BY <3>1, <3>2
  <2>2. Release
    BY <1>6, <2>1 DEF LibraryRuns, Runs, ReleaseUri, Zero, Reparent, Enter, Hand, Vacate, Clear, Compact
  <2>3. fault' # "" \/ work' = <<z>> \o <<h>>
    <3>1. CASE q \notin alive
      BY <1>5, <2>1, <2>2, <3>1 DEF Release
    <3>2. CASE q \in alive
      <4>1. refs[q] - 1 <= 0
        BY ONLY <1>7
      <4>2. work' = (IF refs[q] - 1 <= 0 THEN <<z>> ELSE <<>>) \o Tail(work)
        BY <2>1, <2>2, <3>2 DEF Release, Calls
      <4> QED BY <2>1, <4>1, <4>2
    <3> QED BY <3>1, <3>2
  <2>4. fault' # "" \/ work' = <<z, h>>
    BY <2>3, TwoTasks
  <2> QED BY <2>4 DEF Doomed
<1>8. ASSUME NEW x, work = <<Task("zero", x, x), h>>, x = q \/ q \notin alive PROVE Doomed'
  <2>1. Head(work).name = "zero" /\ Head(work).on = x /\ Tail(work) = <<h>>
    <3> PICK y : y = Task("zero", x, x)
      OBVIOUS
    <3>1. work = <<y, h>>
      BY <1>8
    <3>2. Head(work) = y /\ Tail(work) = <<h>>
      BY <3>1, TwoTasks
    <3>3. y.name = "zero" /\ y.on = x
      BY DEF Task
    <3> QED BY <3>2, <3>3
  <2>2. Zero
    BY <1>6, <2>1 DEF LibraryRuns, Runs, Release, ReleaseUri, Reparent, Enter, Hand, Vacate, Clear, Compact
  <2>3. CASE x \notin alive
    BY <1>5, <2>1, <2>2, <2>3 DEF Zero, Doomed
  <2>4. CASE x \in alive /\ Outstanding(x)
    <3>1. x # q
      BY <1>3, <2>4 DEF Outstanding
    <3>2. alive' = alive /\ work' = <<>> \o <<h>>
      BY <2>1, <2>2, <2>4 DEF Zero, Calls
    <3> QED BY <1>8, <3>1, <3>2, OneTask DEF Doomed
  <2>5. CASE x \in alive /\ ~Outstanding(x)
    <3> PICK p : p = parent[x]
      OBVIOUS
    <3> PICK y : y = Task("zero", p, p)
      OBVIOUS
    <3>1. alive' = alive \ {x} /\ Destruct(x)
      BY <2>1, <2>2, <2>5 DEF Zero
    <3>2. work' = <<>> \o <<h>> \/ work' = <<y>> \o <<h>>
      BY <2>1, <3>1 DEF Destruct, Calls
    <3>3. q \notin alive'
      BY <1>8, <3>1
    <3>4. work' = <<h>> \/ work' = <<y, h>>
      BY <3>2, OneTask, TwoTasks
    <3>5. work' = <<h>> \/ \E w : work' = <<Task("zero", w, w), h>>
      BY <3>4
    <3> QED BY <3>3, <3>5 DEF Doomed
  <2> QED BY <2>3, <2>4, <2>5
<1>9. CASE work = <<h>> /\ q \notin alive
  <2>1. Head(work) = h
    BY <1>9, OneTask
  <2>2. Hand
    BY <1>3, <1>6, <2>1 DEF LibraryRuns, Runs, Release, ReleaseUri, Zero, Reparent, Enter, Vacate, Clear, Compact
  <2> QED BY <1>3, <1>5, <1>9, <2>1, <2>2 DEF Hand, Doomed
<1> QED BY <1>7, <1>8, <1>9

LEMMA NeverIdle == ASSUME Doomed, fault = "" PROVE work # <<>>
<1> PICK c, q \in Elements : LET h == Task("hand", c, q) IN
      \/ work = <<Task("release", q, q), h>> /\ refs[q] = 1
      \/ work = <<Task("zero", q, q), h>>
      \/ q \notin alive /\ (work = <<h>> \/ \E x : work = <<Task("zero", x, x), h>>)
  BY DEF Doomed
<1> QED BY TwoTasks, OneTask

LEMMA EitherKept == ASSUME EitherInv, [ReferencesNext]_referencesVars PROVE EitherInv'
<1>1. dropped' \in BOOLEAN /\ (dropped => dropped')
  BY DEF EitherInv, ReferencesNext, LibraryRuns, ClientCalls, Reparent, referencesVars
<1>2. CASE dropped
  BY <1>1, <1>2, StaysDoomed DEF EitherInv
<1>3. CASE ~dropped
  <2>1. RefsInv /\ SourceOK
    BY <1>3 DEF EitherInv
  <2>2. CASE dropped'
    BY <1>1, <1>3, <2>1, <2>2, Dooms DEF EitherInv
  <2>3. CASE ~dropped'
    BY <1>1, <2>1, <2>3, NextKeeps, SourcesKept DEF EitherInv
  <2> QED BY <2>2, <2>3
<1> QED BY <1>2, <1>3

LEMMA Initially == ReferencesInit => RefsInv
<1> SUFFICES ASSUME ReferencesInit PROVE RefsInv
  OBVIOUS
<1>1. /\ alive = Documents /\ refs = [x \in Objects |-> IF x \in Documents THEN 1 ELSE 0]
      /\ parent = [x \in Objects |-> x] /\ content = [x \in Objects |-> {}]
      /\ held = [x \in Objects |-> 0] /\ listed = [d \in Documents |-> "open"]
      /\ uriRefs = [d \in Documents |-> 0] /\ uriHeld = [d \in Documents |-> 0]
      /\ work = <<>> /\ fault = ""
  BY DEF ReferencesInit
<1>a. /\ \A x \in Objects : parent[x] = x /\ content[x] = {} /\ held[x] = 0
      /\ \A d \in Documents : refs[d] = 1 /\ listed[d] = "open" /\ uriRefs[d] = 0 /\ uriHeld[d] = 0
  BY <1>1, FiniteObjects
<1>2. work \in Seq(Tasks) /\ On(work) = {} /\ DOMAIN work = {}
  <2>1. DOMAIN <<>> = {}
    OBVIOUS
  <2>2. work = <<>>
    BY <1>1
  <2> QED BY ONLY <2>1, <2>2, StackEmpty
<1>3. \A y : Pending("release", y) = 0 /\ Pending("release uri", y) = 0
  <2> TAKE y
  <2>1. PendingIn(work, "release", y) = 0 /\ PendingIn(work, "release uri", y) = 0
    BY <1>2, NoneLike
  <2> QED BY <2>1 DEF Pending, PendingIn
<1>4. Typed
  <2>1. 0 \in 0..MaxHeld
    <3>1. MaxHeld \in Nat
      BY ReferencesAssumption
    <3> QED BY ONLY <3>1
  <2>2. refs \in [Objects -> Int] /\ uriRefs \in [Documents -> Int]
    <3>1. [x \in Objects |-> IF x \in Documents THEN 1 ELSE 0] \in [Objects -> Int]
      OBVIOUS
    <3>2. [d \in Documents |-> 0] \in [Documents -> Int]
      OBVIOUS
    <3> QED BY ONLY <1>1, <3>1, <3>2
  <2>3. held \in [Objects -> 0..MaxHeld] /\ uriHeld \in [Documents -> 0..MaxHeld]
    BY <1>1, <2>1
  <2>4. StateTypeOK
    <3>1. alive \subseteq Objects /\ parent \in [Objects -> Objects]
      BY <1>1, FiniteObjects
    <3>2. content \in [Objects -> SUBSET Elements]
      BY <1>1
    <3>3. listed \in [Documents -> {"open", "closed", "gone"}]
      BY <1>1
    <3>4. fault \in Faults
      BY <1>1 DEF Faults
    <3> QED BY <1>2, <2>2, <2>3, <3>1, <3>2, <3>3, <3>4 DEF StateTypeOK
  <2> QED BY <1>2, <2>4 DEF Typed
<1>5. Forest
  <2>1. /\ alive = Documents /\ fault = ""
    BY <1>1
  <2> QED BY <1>a, <2>1, FiniteObjects, ReferencesAssumption DEF Forest
<1>6. Counts
  <2>1. ASSUME NEW d \in Documents PROVE refs[d] = Referred(d) /\ uriRefs[d] = uriHeld[d] + Pending("release uri", d)
    <3>1. SlotsOf(d) = {} /\ Children(d) = {} /\ d \in Objects
      BY <1>1, FiniteObjects DEF SlotsOf, Children
    <3>2. Slots(d) = 0 /\ Kids(d) = 0 /\ Stacked(d) = 0
      BY <1>3, <3>1, JustOne DEF Slots, Kids, Stacked
    <3>3. Kept(d) = 0 + 1 /\ refs[d] = 1
      BY <1>a, <3>1 DEF Kept
    <3>4. Referred(d) = Kept(d) + Slots(d) + Kids(d) + Stacked(d)
      BY DEF Referred, Fixed
    <3> PICK a, b, c, e : a = Kept(d) /\ b = Slots(d) /\ c = Kids(d) /\ e = Stacked(d)
      OBVIOUS
    <3>5. Referred(d) = a + b + c + e /\ a = 1 /\ b = 0 /\ c = 0 /\ e = 0
      BY <3>2, <3>3, <3>4
    <3>6. Referred(d) = 1
      BY ONLY <3>5
    <3>7. uriRefs[d] = uriHeld[d] + Pending("release uri", d)
      <4> PICK f, g, h : f = uriRefs[d] /\ g = uriHeld[d] /\ h = Pending("release uri", d)
        OBVIOUS
      <4>1. f = 0 /\ g = 0 /\ h = 0
        BY <1>a, <1>3
      <4>2. f = g + h
        BY ONLY <4>1
      <4> QED BY <4>2
    <3> QED BY <3>3, <3>6, <3>7
  <2> QED BY <1>1, <2>1 DEF Counts
<1>7. Due
  <2>1. \A d \in alive : refs[d] > 0
    <3>1. alive = Documents
      BY <1>1
    <3> QED BY ONLY <1>a, <3>1
  <2> QED BY <2>1 DEF Due, Needed
<1>8. TasksOK /\ Shape /\ Ordered
  BY <1>2 DEF TasksOK, Shape, Ordered, ShapeOf, OrderedBy
<1> QED BY <1>4, <1>5, <1>6, <1>7, <1>8 DEF RefsInv

\* The invariant after every step of every call, over any number of elements and documents.
\* While no move has let go of the last reference to its source: the tree is a forest,
\* counters count, and what is on the stack can rely on what it names. After such a move:
\* the call is on its way to a fault.
THEOREM InvariantHolds == ReferencesSpec => []EitherInv
<1>1. ReferencesInit => EitherInv
  <2>1. ReferencesInit => work = <<>> /\ dropped = FALSE
    BY DEF ReferencesInit
  <2>2. work = <<>> => SourceOK
    BY StackEmpty DEF SourceOK
  <2> QED BY <2>1, <2>2, Initially DEF EitherInv
<1>2. EitherInv /\ [ReferencesNext]_referencesVars => EitherInv'
  BY EitherKept
<1> QED BY <1>1, <1>2, PTL DEF ReferencesSpec

-----------------------------------------------------------------------------
(* The properties. *)

\* Every counter is the number of those who count, after every step of every call: a
\* _release() too many or too few would show here long before an object is lost. It is so
\* until a move lets go of the last reference to its source (daeElement.cpp:147).
THEOREM CountersCount == ReferencesSpec => []Counted
<1>1. EitherInv => Counted
  BY DEF EitherInv, RefsInv, Counts, Counted, Referred, Fixed, Kept, Slots, SlotsOf, Kids, Stacked
<1> QED BY <1>1, InvariantHolds, PTL

\* Nothing that is referred to is deleted, and no call trips over a deleted object, until a
\* move lets go of the last reference to its source. That move is the only way there is.
THEOREM NothingDangles == ReferencesSpec => []NeverDangling
<1>1. EitherInv => NeverDangling
  BY DEF EitherInv, RefsInv, Forest, NeverDangling
<1> QED BY <1>1, InvariantHolds, PTL

\* And that move never comes to a good end: no call returns, except by way of a fault, once
\* a child was taken from a parent nothing else refers to, with the child in its contents.
THEOREM DroppedSourceIsFatal == ReferencesSpec => [](dropped /\ work = <<>> => fault # "")
<1>1. EitherInv => (dropped /\ work = <<>> => fault # "")
  BY NeverIdle DEF EitherInv
<1> QED BY <1>1, InvariantHolds, PTL

\* There is no end to a line of children, of which none is above itself: not in a finite set.
LEMMA NoEndlessLine ==
  ASSUME NEW f \in Parents, NEW B \in SUBSET Objects,
         \A y \in B : \E z \in B : f[z] = y /\ z \notin Closure(f, {f[z]})
  PROVE  B = {}
<1> SUFFICES ASSUME NEW y \in B PROVE FALSE
  OBVIOUS
<1> DEFINE P == {z \in B : f[z] \in B /\ z \notin Closure(f, {f[z]})}
           g == [z \in P |-> f[z]]
           C == Closure(f, {f[y]})
           D == C \union {y}
           h == [z \in D |-> f[z]]
<1>1. IsFiniteSet(B) /\ IsFiniteSet(P) /\ Cardinality(B) \in Nat /\ Cardinality(P) \in Nat
  BY SomeOf
<1>2. g \in Surjection(P, B)
  BY DEF Surjection
<1>3. Cardinality(B) <= Cardinality(P) /\ (Cardinality(B) = Cardinality(P) <=> g \in Injection(P, B))
  BY <1>1, <1>2, FS_Surjection
<1>4. P \subseteq B
  OBVIOUS
<1> HIDE DEF P
<1>5. Cardinality(P) <= Cardinality(B) /\ (Cardinality(P) = Cardinality(B) => P = B)
  BY <1>1, <1>4, FS_Subset
<1>6. Cardinality(P) = Cardinality(B)
  BY <1>1, <1>3, <1>5
<1>7. P = B /\ g \in Injection(P, B)
  BY <1>3, <1>5, <1>6
<1>8. /\ \A z \in B : f[z] \in B /\ z \notin Closure(f, {f[z]})
      /\ \A a, b \in B : f[a] = f[b] => a = b
  <2>1. \A z \in B : f[z] \in B /\ z \notin Closure(f, {f[z]})
    BY <1>7 DEF P
  <2>2. g \in [P -> B] /\ \A a, b \in P : g[a] = g[b] => a = b
    BY <1>7 DEF Injection, IsInjective
  <2>3. ASSUME NEW a \in B, NEW b \in B, f[a] = f[b] PROVE a = b
    <3>1. a \in P /\ b \in P
      BY <1>7
    <3>2. g[a] = f[a] /\ g[b] = f[b]
      BY <3>1
    <3> QED BY <2>2, <2>3, <3>1, <3>2
  <2> QED BY <2>1, <2>3
<1>9. f[y] \in C /\ C \subseteq Objects /\ \A z \in C : f[z] \in C
  BY <1>8, ClosureCloses
<1>10. C \subseteq B
  <2>1. {f[y]} \subseteq B /\ B \in SUBSET Objects
    BY <1>8
  <2> QED BY <1>8, <2>1, ClosureLeast
<1>11. y \notin C
  BY <1>8
<1> HIDE DEF C
<1>12. h \in Injection(D, C)
  BY <1>8, <1>9, <1>10 DEF Injection, IsInjective
<1>13. IsFiniteSet(C) /\ Cardinality(C) \in Nat /\ Cardinality(D) = Cardinality(C) + 1
  BY <1>9, <1>11, SomeOf, OneMore
<1> HIDE DEF D, h
<1>14. Cardinality(D) <= Cardinality(C)
  BY <1>12, <1>13, FS_Injection
<1> QED BY <1>13, <1>14

\* Who is needed between calls, but not held, listed or in a slot, has children.
LEMMA NobodyLeft ==
  ASSUME Typed, Counts, NEW y \in alive, Needed(y), SlotsOf(y) = {}, ~(held[y] > 0),
         Pending("release", y) = 0, Pending("release uri", y) = 0,
         y \in Documents => listed[y] = "gone" /\ ~(uriHeld[y] > 0)
  PROVE  Children(y) # {}
<1> SUFFICES ASSUME Children(y) = {} PROVE FALSE
  OBVIOUS
<1>1. y \in Objects
  BY DEF Typed, StateTypeOK
<1>2. held[y] \in Nat /\ (y \in Documents => uriHeld[y] \in Nat)
  BY <1>1, CountsAreNat
<1>3. Slots(y) = 0 /\ Kids(y) = 0 /\ Stacked(y) = 0
  BY <1>1, JustOne DEF Slots, Kids, Stacked
<1>4. Kept(y) = held[y] + 0
  BY DEF Kept
<1>5. refs[y] = Kept(y) + Slots(y) + Kids(y) + Stacked(y)
  BY DEF Counts, Referred, Fixed
<1>6. y \in Documents => uriRefs[y] = uriHeld[y] + 0
  BY DEF Counts
<1> PICK h, a, b, c, d : h = held[y] /\ a = Kept(y) /\ b = Slots(y) /\ c = Kids(y) /\ d = Stacked(y)
  OBVIOUS
<1>7. h \in Nat /\ ~(h > 0) /\ a = h + 0 /\ b = 0 /\ c = 0 /\ d = 0 /\ refs[y] = a + b + c + d
  BY <1>2, <1>3, <1>4, <1>5
<1>8. ~(refs[y] > 0)
  BY ONLY <1>7
<1>9. y \in Documents => ~(uriRefs[y] > 0)
  <2> PICK u, v : u = uriHeld[y] /\ v = uriRefs[y]
    OBVIOUS
  <2>1. y \in Documents => u \in Nat /\ ~(u > 0) /\ v = u + 0
    BY <1>2, <1>6
  <2>2. y \in Documents => ~(v > 0)
    BY ONLY <2>1
  <2> QED BY <2>2
<1> QED BY <1>8, <1>9 DEF Needed

\* Between calls, every living object is held, listed, in a slot, or above something
\* that is: whatever else there was has been deleted on the way.
THEOREM OnlyTreesAreLeft == ReferencesSpec => []OnlyTreesLeak
<1>1. ASSUME RefsInv, work = <<>>
      PROVE  alive \subseteq
               Upward({x \in alive : \/ held[x] > 0 \/ InContent(x)
                                     \/ (x \in Documents /\ (listed[x] # "gone" \/ uriHeld[x] > 0))})
  <2> DEFINE A == {x \in alive : \/ held[x] > 0 \/ InContent(x)
                                 \/ (x \in Documents /\ (listed[x] # "gone" \/ uriHeld[x] > 0))}
             B == alive \ Closure(parent, A)
  <2>1. /\ Typed /\ Forest /\ Counts
        /\ \A y : Pending("release", y) = 0 /\ Pending("release uri", y) = 0
        /\ \A y \in alive : Needed(y)
        /\ \A e \in Objects : \A c \in content[e] : parent[c] = e
    BY <1>1, Idle
  <2>2. /\ parent \in Parents /\ alive \subseteq Objects /\ A \in SUBSET Objects /\ B \in SUBSET Objects
    BY <2>1 DEF Typed, StateTypeOK, Parents
  <2>3. /\ A \subseteq Closure(parent, A)
        /\ \A y \in Closure(parent, A) : parent[y] \in Closure(parent, A)
    BY <2>2, ClosureCloses
  <2>4. ASSUME NEW y \in B PROVE \E z \in B : parent[z] = y /\ z \notin Closure(parent, {parent[z]})
    <3>1. y \in alive /\ y \notin A /\ y \in Objects
      BY <2>2, <2>3
    <3>2. SlotsOf(y) = {}
      BY <2>1, <2>2, <3>1 DEF SlotsOf, InContent
    <3>3. Children(y) # {}
      <4>1. ~(held[y] > 0) /\ (y \in Documents => listed[y] = "gone" /\ ~(uriHeld[y] > 0))
        BY <3>1
      <4>2. Needed(y)
        BY <2>1, <3>1
      <4> QED BY <2>1, <3>1, <3>2, <4>1, <4>2, NobodyLeft
    <3>4. PICK z \in alive : parent[z] = y /\ z # y
      BY <3>3 DEF Children
    <3>5. z \notin Closure(parent, A)
      BY <2>3, <3>4
    <3>6. z \in Elements /\ z \notin Closure(parent, {parent[z]})
      BY <2>1, <2>2, <3>4 DEF Forest, Objects
    <3> QED BY <3>4, <3>5, <3>6
  <2>5. B = {}
    <3> HIDE DEF B
    <3> QED BY <2>2, <2>4, NoEndlessLine
  <2>6. alive \subseteq Closure(parent, A)
    BY <2>5
  <2> QED BY <2>6, UpwardIs
<1>2. EitherInv => OnlyTreesLeak
  BY <1>1, NeverIdle DEF EitherInv, OnlyTreesLeak
<1> QED BY <1>2, InvariantHolds, PTL
=============================================================================
