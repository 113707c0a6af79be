------------------------------- MODULE Common -------------------------------
(***************************************************************************)
(* What the two layers of a DOM have in common: a daeDocument is a doc on   *)
(* the list of an archive, and the root of a tree of elements.             *)
(***************************************************************************)
CONSTANTS
  Documents,    \* the documents (daeDocument) that may exist
  Nothing       \* null, or the empty string
=============================================================================
