------------------------------- MODULE MCWiki -------------------------------
(***************************************************************************)
(* Small instances of WikiQueue. Workers are interchangeable, and so are   *)
(* documents where the user may cancel or delete all of them or none.      *)
(***************************************************************************)
EXTENDS WikiQueue, TLC

Symmetry == Permutations(Batches) \union Permutations(Docs)
=============================================================================
