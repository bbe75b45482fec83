-------------------------- MODULE PermissiveWindow --------------------------
(***************************************************************************)
(* What the agent promises about `semanage permissive`: a domain it        *)
(* loosened itself is a window that it closes again; a domain an operator  *)
(* made permissive is the operator's alone; and a window the agent has no  *)
(* record of (its process ended at the wrong moment, or a rollback failed) *)
(* is forgotten, and only an operator ends it.                             *)
(***************************************************************************)

CONSTANT Domain

VARIABLE status

StatusSet == {"enforced", "window", "forgotten", "manual"}

TypeOK == status \in [Domain -> StatusSet]

Init == status = [d \in Domain |-> "enforced"]

Move(d, from, to) ==
  /\ status[d] \in from
  /\ status' = [status EXCEPT ![d] = to]

Open(d)           == Move(d, {"enforced"}, "window")
Close(d)          == Move(d, {"window"}, "enforced")
Forget(d)         == Move(d, {"window"}, "forgotten")
OperatorAdd(d)    == Move(d, {"enforced"}, "manual")
OperatorRemove(d) == Move(d, StatusSet \ {"enforced"}, "enforced")

Next ==
  \E d \in Domain :
    \/ Open(d)
    \/ Close(d)
    \/ Forget(d)
    \/ OperatorAdd(d)
    \/ OperatorRemove(d)

Safety == Init /\ [][Next]_status

\* The agent owes the end of every window it still knows of.
Spec == Safety /\ \A d \in Domain : WF_status(Close(d))

=============================================================================
