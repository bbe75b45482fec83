------------------------------- MODULE Loads -------------------------------
(* What every page does to get rows from the master: requests go out, the    *)
(* master answers each with what it holds at that moment, and answers come   *)
(* back in any order, or not at all.  What a page does with an answer is in  *)
(* the page's module.                                                        *)
(*                                                                           *)
(* A page is seen through ui, the state of its React components; calls is    *)
(* the set of requests it has not been answered.  server.v is what the master*)
(* holds for the page, or just a count of its changes, so rows are known by  *)
(* what was asked for (q) and what was then read (v).  live is false once    *)
(* the effect that asked was cleaned up.                                     *)
EXTENDS Naturals, FiniteSets

CONSTANTS MaxCalls,     \* requests in flight
          MaxChanges,   \* changes of what the master holds
          MaxFaults     \* requests lost

VARIABLES page, server, ui, calls, log
vars == <<page, server, ui, calls, log>>

Request(kind, q, v) == [kind |-> kind, q |-> q, live |-> TRUE, st |-> "sent", v |-> v]
Ask(q, v) == Request("load", q, v)
Rows(c) == [q |-> c.q, v |-> c.v]

\* a reload is a load that an action waits for
Loading(cs) == {c \in cs : c.kind \in {"load", "reload"}}
\* an effect's cleanup sets cancelled for the request of its last run
Cancelled(cs) == {IF c.kind = "load" THEN [c EXCEPT !.live = FALSE] ELSE c : c \in cs}
Room == Cardinality(calls) < MaxCalls

\* The master answers a read with what it holds.
Answer(p, c) ==
  /\ page = p /\ c \in Loading(calls) /\ c.st = "sent"
  /\ calls' = (calls \ {c}) \cup {[c EXCEPT !.st = "ok", !.v = server.v]}
  /\ UNCHANGED <<page, server, ui, log>>

\* request() throws: the master could not be reached or refused.
Fail(p, c) ==
  /\ page = p /\ c \in calls /\ c.st = "sent" /\ log.faults < MaxFaults
  /\ calls' = (calls \ {c}) \cup {[c EXCEPT !.st = "failed"]}
  /\ log' = [log EXCEPT !.faults = @ + 1]
  /\ UNCHANGED <<page, server, ui>>

\* An agent, or another operator, changes what the master holds.
Change(p) ==
  /\ page = p /\ server.v < MaxChanges
  /\ server' = [server EXCEPT !.v = @ + 1]
  /\ UNCHANGED <<page, ui, calls, log>>
=============================================================================
