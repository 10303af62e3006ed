------------------------------ MODULE MCLimiter ------------------------------
(* TLC instance of ModelLimiter: the second process's clock is one tick ahead. *)
EXTENDS ModelLimiter

CONSTANTS c1, c2, c3

Ahead == [c \in Calls |-> IF c = c2 THEN 1 ELSE 0]
=============================================================================
