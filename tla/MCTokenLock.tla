--------------------------- MODULE MCTokenLock ---------------------------
(* TLC instance of TokenLock. *)
EXTENDS TokenLock

CONSTANTS c1, c2, c3
============================================================================
