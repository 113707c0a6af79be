----------------------------- MODULE MCElements -----------------------------
EXTENDS Elements, TLC

CONSTANTS T

OneType == [e \in Elements |-> T]

Symmetric ==
  Permutations(Elements) \union Permutations(Documents) \union Permutations(IDs)

\* The parent pointer of an element that is no content is never read; with one
\* type it makes no difference whether an array was touched; and once the
\* program has stopped nothing changes any more.
View ==
  IF halted # Nothing THEN <<halted>>
  ELSE <<[e \in content |-> parent[e]], kids, vacant, id, sid, maps, types,
         assigning, leaked>>
=============================================================================
