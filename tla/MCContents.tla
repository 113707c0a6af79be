----------------------------- MODULE MCContents -----------------------------
(***************************************************************************)
(* A sequence of two names of children, of which one has a subscript of    *)
(* its own only once.                                                      *)
(***************************************************************************)
EXTENDS Contents, TLC

CONSTANTS asset, node

MCOrder == <<asset, node>>
MCMaxOccurs == (asset :> 1) @@ (node :> 2)
=============================================================================
