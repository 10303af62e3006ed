-------------------------------- MODULE MCIm --------------------------------
(* TLC instances of ImQuestions: the last question is the second user's. *)
EXTENDS ImQuestions

CONSTANTS q1, q2, q3, u1, u2, i1, i2

Anywhere == [q \in Questions |-> Instances]
Sticky   == [q \in Questions |-> IF q = q2 THEN {i2} ELSE {i1}]
TwoUsers == [q \in Questions |-> IF q = q3 THEN u2 ELSE u1]
=============================================================================
