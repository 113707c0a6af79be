------------------------------- MODULE Shares -------------------------------
(***************************************************************************)
(* Process shares (src/dom/src/dae/dae.cpp, daePShare in daeTypes.h): every *)
(* module of a process that uses the DOM has a share, which is granted a    *)
(* slot of a table in the library; the slot's number is the tag of every    *)
(* object the module makes. Slot 0 and slot 1 are the library's own.        *)
(***************************************************************************)
EXTENDS Naturals

CONSTANTS PShares, System,
          Extent,     \* slots of dae_PShares (128)
          NoShare

ASSUME SharesAssumption ==
  Extent \in Nat /\ Extent > 1 /\ System \in PShares /\ NoShare \notin PShares

VARIABLES PS,          \* [0..Extent-1 -> share of the slot]
          side,        \* the slots that have a library-side share
          moduleTag,   \* [PShares -> tag, without the data bit]
          loaded,      \* the shares that exist
          refused      \* an assertion about a share failed: the program ended

sharesVars == <<PS, side, moduleTag, loaded, refused>>

Slots == 0..(Extent - 1)

SharesTypeOK ==
  /\ PS \in [Slots -> PShares \union {NoShare}]
  /\ side \subseteq Slots
  /\ moduleTag \in [PShares -> Slots]
  /\ loaded \subseteq PShares
  /\ refused \in BOOLEAN

SharesInit ==
  /\ PS = [i \in Slots |-> IF i < 2 THEN System ELSE NoShare]
  /\ side = {} /\ moduleTag = [p \in PShares |-> 0]
  /\ loaded = {} /\ refused = FALSE

\* Mutant: every slot that is not the library's is free.
GrantedOver(p, i) ==
  /\ i \in Slots \ {0}
  /\ PS[i] # System /\ \A j \in 1..(i - 1) : PS[j] = System

\* Mutant: a free slot is taken before one's own is looked for.
GrantedAnew(p, i) ==
  /\ i \in Slots \ {0}
  /\ PS[i] = NoShare /\ \A j \in 1..(i - 1) : PS[j] # NoShare

\* grant(): the first slot from 1 on that is p's, or else the first that is nobody's.
Granted(p, i) ==
  /\ i \in Slots \ {0}
  /\ \/ PS[i] = p /\ \A j \in 1..(i - 1) : PS[j] # p
     \/ PS[i] = NoShare /\ (\A j \in 1..(i - 1) : PS[j] # NoShare)
                        /\ \A j \in Slots \ {0} : PS[j] # p

\* daePShare() calls grant(), and so may the client again. Without a slot left the
\* constructor's assertion fails.
Grant(p) ==
  /\ loaded' = loaded \union {p}
  /\ \/ \E i \in Slots :
          /\ Granted(p, i)
          /\ PS' = [PS EXCEPT ![i] = p]
          /\ moduleTag' = [moduleTag EXCEPT ![p] = i]
          /\ UNCHANGED refused
     \/ /\ ~\E i \in Slots : Granted(p, i)
        /\ refused' = TRUE /\ UNCHANGED <<PS, moduleTag>>
  /\ UNCHANGED side

\* Mutant: the slot is given up and its library-side share left behind.
UngrantKeepsSide(p) ==
  /\ p \in loaded /\ loaded' = loaded \ {p}
  /\ PS[moduleTag[p]] = p
  /\ PS' = [PS EXCEPT ![moduleTag[p]] = NoShare]
  /\ moduleTag' = [moduleTag EXCEPT ![p] = 0]
  /\ UNCHANGED <<side, refused>>

\* ~daePShare() calls grant(0). Slot 0 is never given up.
Ungrant(p) ==
  /\ p \in loaded /\ loaded' = loaded \ {p}
  /\ \/ /\ PS[moduleTag[p]] = p
        /\ IF moduleTag[p] = 0 THEN UNCHANGED <<PS, side>>
           ELSE /\ PS' = [PS EXCEPT ![moduleTag[p]] = NoShare]
                /\ side' = side \ {moduleTag[p]}
        /\ moduleTag' = [moduleTag EXCEPT ![p] = 0]
        /\ UNCHANGED refused
     \/ /\ PS[moduleTag[p]] # p
        /\ refused' = TRUE /\ UNCHANGED <<PS, side, moduleTag>>

\* getDefaultProcessShare() of an object of p: the slot's library-side share is made
\* on first use, which asserts that the slot is somebody's.
Default(p) ==
  /\ p \in loaded
  /\ \/ PS[moduleTag[p]] # NoShare /\ side' = side \union {moduleTag[p]} /\ UNCHANGED refused
     \/ PS[moduleTag[p]] = NoShare /\ refused' = TRUE /\ UNCHANGED side
  /\ UNCHANGED <<PS, moduleTag, loaded>>

SharesNext == ~refused /\ \E p \in PShares : Grant(p) \/ Ungrant(p) \/ Default(p)

SharesSpec == SharesInit /\ [][SharesNext]_sharesVars
-----------------------------------------------------------------------------
(* Properties *)

\* The tag of a share is the number of a slot that holds it, so no two shares that
\* exist have a tag in common and every object is traced to the module that made it.
TagsNameTheirShare ==
  ~refused => \A p \in loaded : moduleTag[p] # 0 /\ PS[moduleTag[p]] = p

\* A library-side share is deleted with the slot it was made for: the next module
\* in the slot does not inherit it.
SidesHaveShares == \A i \in side : PS[i] # NoShare

\* A share takes one slot however often it is granted: the table is not used up by
\* a module that asks again.
OneSlotEach == \A p \in PShares, i, j \in Slots \ {0} : PS[i] = p /\ PS[j] = p => i = j
=============================================================================
