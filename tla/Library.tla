------------------------------- MODULE Library -------------------------------
(***************************************************************************)
(* What a daeDOM promises about its docs, whatever lists it keeps them on. *)
(*                                                                         *)
(* A doc that has been given a name is placed in the DOM or in an archive, *)
(* and is open while the outermost of these is the DOM.  It leaves that    *)
(* place in two ways only: to be renamed, or to be closed after the client *)
(* has been asked.  Its contents stay until it, the archive around it, or  *)
(* the DOM is closed.                                                      *)
(***************************************************************************)

CONSTANTS
  Documents, Zips,
  DOM,
  Parked,        \* the place of docs that are new, on the move, or closed
  Lost,          \* the place of docs whose archive is no more
  URIs, NoURI,
  Inside(_, _)   \* Inside(u, v): v, inside of the archive that is named u

VARIABLES
  place,   \* where every doc is
  name,    \* the URI of every doc
  busy,    \* the operation that is under way for a doc
  loaded,  \* the documents that have contents
  over     \* the DOM has been closed

vars == <<place, name, busy, loaded, over>>

Docs == Documents \union Zips

Open(d) == ~over /\ (place[d] = DOM \/ (place[d] \in Zips /\ place[place[d]] = DOM))

Init ==
  /\ place = [d \in Docs |-> Parked]
  /\ name = [d \in Docs |-> NoURI]
  /\ busy = [d \in Docs |-> "none"]
  /\ loaded = {}
  /\ over = FALSE
-----------------------------------------------------------------------------
\* A new doc takes the place of one that nothing was left of.
Create(d) ==
  /\ ~over /\ busy[d] = "none" /\ d \notin loaded
  /\ place' = [place EXCEPT ![d] = Parked]
  /\ name' = [name EXCEPT ![d] = NoURI]
  /\ UNCHANGED <<busy, loaded, over>>

Load(d) ==
  /\ Open(d) \/ name[d] = NoURI
  /\ loaded' = loaded \union {d}
  /\ UNCHANGED <<place, name, busy, over>>

\* A doc is renamed: it leaves, with all that is inside of it, and arrives in the
\* DOM, or in an archive there, and the names inside of it follow its own.
Leave(d, u) ==
  /\ ~over /\ busy[d] = "none"
  /\ place' = [place EXCEPT ![d] = Parked]
  /\ name' = [name EXCEPT ![d] = u]
  /\ busy' = [busy EXCEPT ![d] = "setURI"]
  /\ UNCHANGED <<loaded, over>>

Rename(d, u) ==
  /\ busy[d] = "setURI"
  /\ name' = [name EXCEPT ![d] = u]
  /\ UNCHANGED <<place, busy, loaded, over>>

Arrive(d, a) ==
  /\ busy[d] = "setURI" /\ place[d] = Parked
  /\ a = DOM \/ (a \in Zips /\ place[a] = DOM)
  /\ place' = [place EXCEPT ![d] = a]
  /\ \E inside \in SUBSET {x \in Docs : place[x] = d} :
       name' = [x \in Docs |-> IF x \in inside THEN Inside(name[d], name[x]) ELSE name[x]]
  /\ busy' = [busy EXCEPT ![d] = "none"]
  /\ UNCHANGED <<loaded, over>>

\* The client is asked before an open doc is closed.
Ask(d) ==
  /\ Open(d) /\ busy[d] = "none"
  /\ busy' = [busy EXCEPT ![d] = "close"]
  /\ UNCHANGED <<place, name, loaded, over>>

\* What is inside of an archive that is closed loses its contents with it.
Close(d) ==
  /\ busy[d] = "close" \/ (busy[d] = "none" /\ name[d] = NoURI)
  /\ place' = IF Open(d) THEN [place EXCEPT ![d] = Parked] ELSE place
  /\ loaded' = loaded \ {x \in Documents : x = d \/ place[x] = d}
  /\ busy' \in {busy, [busy EXCEPT ![d] = "none"]}
  /\ UNCHANGED <<name, over>>

\* The client refuses, or says that it has closed the doc itself.
Answer(d) ==
  /\ busy[d] = "close"
  /\ busy' = [busy EXCEPT ![d] = "none"]
  /\ UNCHANGED <<place, name, loaded, over>>

\* Archives that are closed may go; no document with contents goes with them.
Forget(gone) ==
  /\ ~over
  /\ \A z \in gone : place[z] = Parked /\ busy[z] = "none"
  /\ \A d \in loaded : place[d] \notin gone
  /\ place' = [d \in Docs |-> IF place[d] \in gone THEN Lost ELSE place[d]]
  /\ UNCHANGED <<name, busy, loaded, over>>

\* The DOM is closed: all that was open in it is unloaded.
Shut ==
  /\ ~over /\ \A d \in Docs : busy[d] = "none"
  /\ over' = TRUE
  /\ loaded' = {d \in loaded : ~Open(d)}
  /\ UNCHANGED <<place, name, busy>>
-----------------------------------------------------------------------------
Next ==
  \/ \E d \in Docs : Create(d) \/ Ask(d) \/ Close(d) \/ Answer(d)
  \/ \E d \in Documents : Load(d)
  \/ \E d \in Docs, u \in URIs : Leave(d, u) \/ Rename(d, u)
  \/ \E d \in Docs, a \in Zips \union {DOM} : Arrive(d, a)
  \/ \E gone \in SUBSET Zips : Forget(gone)
  \/ Shut

Spec == Init /\ [][Next]_vars
=============================================================================
