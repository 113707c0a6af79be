------------------------------ MODULE Strings ------------------------------
(***************************************************************************)
(* daeStringRef and the system pool (src/dom/include/dae/daeStringRef.h,   *)
(* src/dom/src/dae/daeStringRef.cpp), with the counters of daeDBaseString   *)
(* (daeDatabase.h).                                                        *)
(*                                                                         *)
(* Small strings are interned and live forever; all of them are Small here. *)
(* A large string is allocated for the reference that asked for it, shared  *)
(* by the references copied from that one, and freed when its counter comes *)
(* to zero. The counter has 16 bits; Wrap stands for 65536. A copy that     *)
(* makes it wrap around to zero is sent to the pool ("rollover"), which     *)
(* gives the new reference and its source a copy of the string.            *)
(***************************************************************************)
EXTENDS Naturals, FiniteSets

CONSTANTS StringRefs,    \* the daeStringRef variables
          Larges,        \* bound: blocks for large strings; a freed one is used again
          Wrap,          \* the counter counts modulo Wrap
          Small, NoString

ASSUME StringsAssumption ==
  /\ Wrap \in Nat /\ Wrap > 2 /\ IsFiniteSet(StringRefs)
  /\ Small # NoString /\ {Small, NoString} \intersect Larges = {}

VARIABLES string, counter, allocated

stringsVars == <<string, counter, allocated>>

StringsTypeOK ==
  /\ string \in [StringRefs -> Larges \union {Small, NoString}]
  /\ counter \in [Larges -> 0..(Wrap - 1)]
  /\ allocated \subseteq Larges

StringsInit ==
  /\ string = [r \in StringRefs |-> NoString]
  /\ counter = [s \in Larges |-> 0]
  /\ allocated = {}

Refers(s) == {r \in StringRefs : string[r] = s}
-----------------------------------------------------------------------------
(* The pool *)

\* The counters after a reference lets go of s, and what is still allocated:
\* release() frees a large string at zero, and is not heard of by a small one.
Lowered(counters, s) ==
  IF s \in Larges THEN [counters EXCEPT ![s] = IF @ = 0 THEN Wrap - 1 ELSE @ - 1]
  ELSE counters

FreedAtZero(counters, blocks, s) ==
  IF s \in Larges /\ counters[s] = 0 THEN blocks \ {s} ELSE blocks

Raised(counters, s) ==
  IF s \in Larges THEN [counters EXCEPT ![s] = IF @ + 1 = Wrap THEN 0 ELSE @ + 1]
  ELSE counters

\* Whether one more reference wraps the counter of s around.
Overflows(s) == s \in Larges /\ counter[s] + 1 = Wrap

\* Mutant: the pool is not asked about a counter that wrapped around.
RollsOverNever(r, q, t) ==
  /\ string' = [string EXCEPT ![r] = string[q]]
  /\ counter' = Raised(counter, string[q])
  /\ UNCHANGED allocated

\* rollover(): r and its source q move to a new block with two references, and the
\* old block's counter, 0 for Wrap references, is set to Wrap - 2.
RollsOver(r, q, t) ==
  /\ t \notin allocated
  /\ string' = [string EXCEPT ![r] = t, ![q] = t]
  /\ counter' = [counter EXCEPT ![string[q]] = Wrap - 2, ![t] = 2]
  /\ allocated' = allocated \union {t}
-----------------------------------------------------------------------------
(* The references *)

\* A text as a new block of one reference, or as an interned string.
Constructs(blocks, s) == s = Small \/ (s \in Larges /\ s \notin blocks)

Constructed(counters, s) == IF s \in Larges THEN [counters EXCEPT ![s] = 1] ELSE counters

\* daeStringRef(text)
Construct(r, s) ==
  /\ string[r] = NoString /\ Constructs(allocated, s)
  /\ string' = [string EXCEPT ![r] = s]
  /\ counter' = Constructed(counter, s)
  /\ allocated' = allocated \union ({s} \ {Small})

\* _copy_construct()
CopyConstruct(r, q) ==
  /\ string[r] = NoString /\ string[q] # NoString
  /\ IF Overflows(string[q]) THEN \E t \in Larges : RollsOver(r, q, t)
     ELSE /\ string' = [string EXCEPT ![r] = string[q]]
          /\ counter' = Raised(counter, string[q])
          /\ UNCHANGED allocated

\* ~daeStringRef()
Destroy(r) ==
  /\ string[r] # NoString
  /\ counter' = Lowered(counter, string[r])
  /\ allocated' = FreedAtZero(counter', allocated, string[r])
  /\ string' = [string EXCEPT ![r] = NoString]

\* Mutant: the old string goes first.
SetReleasesFirst(r, q) ==
  /\ string[r] # NoString /\ string[q] # NoString
  /\ ~Overflows(string[q])
  /\ LET lowered == Lowered(counter, string[r])
     IN  /\ counter' = Raised(lowered, string[q])
         /\ allocated' = FreedAtZero(lowered, allocated, string[r])
  /\ string' = [string EXCEPT ![r] = string[q]]

\* set(cp) in one pool: "swap just in case src/dst is same". A copy to itself that
\* overflows loses a reference of the old block: one that nobody makes, see README.
Set(r, q) ==
  /\ string[r] # NoString /\ string[q] # NoString
  /\ \/ /\ ~Overflows(string[q])
        /\ LET raised == Raised(counter, string[q])
           IN  /\ counter' = Lowered(raised, string[r])
               /\ allocated' = FreedAtZero(counter', allocated, string[r])
        /\ string' = [string EXCEPT ![r] = string[q]]
     \/ /\ Overflows(string[q]) /\ r # q
        /\ \E t \in Larges \ allocated :
             LET rolled == [counter EXCEPT ![string[q]] = Wrap - 2, ![t] = 2]
             IN  /\ counter' = Lowered(rolled, string[r])
                 /\ allocated' = FreedAtZero(counter', allocated \union {t}, string[r])
                 /\ string' = [string EXCEPT ![r] = t, ![q] = t]

\* set(text), setString(), clear() and append(): the pool makes the new string and
\* frees the old one, if that is large, whoever else may have it. That nobody else
\* has is up to the client.
Overwrite(r, s) ==
  /\ string[r] # NoString /\ Constructs(allocated, s)
  /\ string[r] \in Larges => counter[string[r]] = 1
  /\ string' = [string EXCEPT ![r] = s]
  /\ counter' = Constructed(counter, s)
  /\ allocated' = (allocated \ {string[r]}) \union ({s} \ {Small})

StringsNext ==
  \E r \in StringRefs :
    \/ \E s \in Larges \union {Small} : Construct(r, s) \/ Overwrite(r, s)
    \/ \E q \in StringRefs : CopyConstruct(r, q) \/ Set(r, q)
    \/ Destroy(r)

StringsSpec == StringsInit /\ [][StringsNext]_stringsVars
-----------------------------------------------------------------------------
(* Properties *)

\* No reference outlives its string, and no string its last reference, whether or
\* not the counter came around; "if _allocator is equal, _refs is increased or
\* decreased".
LargeStringsLive == allocated = {string[r] : r \in StringRefs} \intersect Larges

\* The counter is the number of references, so the pool is asked in time: a counter
\* at zero never belongs to a string in use.
ReferencesCounted == \A s \in allocated : counter[s] = Cardinality(Refers(s))
=============================================================================
