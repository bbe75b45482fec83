----------------------------- MODULE MCCommands -----------------------------
(* Commands with one or two operators who may delete the same entry.       *)
EXTENDS Commands, TLC

CONSTANTS o1, o2

TwoOperators == {o1, o2}
OneOperator  == {o1}
Symmetric    == Permutations({o1, o2})
=============================================================================
