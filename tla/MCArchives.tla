----------------------------- MODULE MCArchives -----------------------------
(* Archives for TLC: symmetry, and a view without what nothing reads: the place *)
(* and URI of an object that is not alive, the thread of an operation that ended. *)
EXTENDS Archives, TLC

Symmetry == Permutations(Documents) \union Permutations(Threads)

ArchivesView ==
  <<docs,
    [d \in Docs |-> IF Live(d) THEN <<archive[d], uri[d]>> ELSE <<Closed, NoURI>>],
    archive[DOM], link, filled, held, op,
    [d \in Docs |-> IF op[d] = "none" THEN Nothing ELSE opThread[d]],
    stack, aborted>>
=============================================================================
