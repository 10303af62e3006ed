----------------------------- MODULE MCKnowledge -----------------------------
(***************************************************************************)
(* Small instances of KnowledgeLifecycle for TLC. The workers of the asynq *)
(* server are interchangeable.                                             *)
(***************************************************************************)
EXTENDS CounterRefinement, TLC

Symmetry == Permutations(Workers)
=============================================================================
