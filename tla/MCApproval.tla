----------------------------- MODULE MCApproval -----------------------------
(* A small instance of ToolApproval: a call that its user answers twice, and *)
(* one that somebody else answers, each in a process of its own.             *)
EXTENDS ToolApproval

CONSTANTS c1, c2, r1, r2, r3, i1, i2

Homes == [c \in Calls |-> IF c = c1 THEN i1 ELSE i2]
About == [r \in Requests |-> IF r = r3 THEN c2 ELSE c1]
=============================================================================
