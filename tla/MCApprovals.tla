---------------------------- MODULE MCApprovals ----------------------------
(* Approvals of suggestions for one or two machines by two operators.      *)
EXTENDS Approvals, TLC

CONSTANTS m1, m2, q1, o1, o2

OneMachine   == {m1}
TwoMachines  == {m1, m2}
OneRequester == {q1}
TwoOperators == {o1, o2}
AskedTwice   == [suggest |-> 2, install |-> 1]
Symmetric    == Permutations({o1, o2}) \cup Permutations({m1, m2})
=============================================================================
