---------------------------- MODULE MCCollection ----------------------------
(* Instances of Collection: one or two requests at a time.                 *)
EXTENDS Collection

CONSTANTS q1, q2

OneRequest  == {q1}
TwoRequests == {q1, q2}
=============================================================================
