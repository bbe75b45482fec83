----------------------------- MODULE AlertsPage -----------------------------
(* The alerts list.  What the master holds is whether each alert is open.    *)
EXTENDS PolledList

CONSTANT Alerts

Init ==
  /\ page = "alerts"
  /\ server = [v |-> [a \in Alerts |-> "open"]]
  /\ log = [faults |-> 0, moves |-> 0]
  /\ ui = Shown(First) @@ [acking |-> None]
  /\ calls = {Ask(<<First, 0, None>>, Unread)}

\* One slot for the row being acknowledged: a second click takes it over.
Acknowledge(a) ==
  /\ Moves("alerts") /\ Room /\ ui.rows # Unread /\ ui.rows[a] = "open" /\ ui.acking # a
  /\ ui' = [ui EXCEPT !.acking = a]
  /\ calls' = calls \cup {Request("ack", About(ui, a), Unread)}
  /\ UNCHANGED <<page, server>>

TakeAck(c) ==
  /\ page = "alerts" /\ c.kind = "ack" /\ c.st = "sent"
  /\ server' = [server EXCEPT !.v[c.q[3]] = "acknowledged"]
  /\ calls' = (calls \ {c}) \cup {[c EXCEPT !.st = "ok"]}
  /\ UNCHANGED <<page, ui, log>>

\* The reload asks what the list showed at the click.
Acked(c) ==
  /\ page = "alerts" /\ c.kind = "ack" /\ c.st \in {"ok", "failed"}
  /\ LET u == [ui EXCEPT !.acking = None] IN
       IF c.st = "ok" THEN Load(u, calls \ {c}, <<c.q[1], c.q[2], None>>)
       ELSE ui' = [u EXCEPT !.error = TRUE] /\ calls' = calls \ {c}
  /\ UNCHANGED <<page, server, log>>

\* another operator acknowledges it
OtherAck(a) ==
  /\ page = "alerts" /\ server.v[a] = "open"
  /\ server' = [server EXCEPT !.v[a] = "acknowledged"]
  /\ UNCHANGED <<page, ui, calls, log>>

Next ==
  \/ Polled("alerts")
  \/ \E a \in Alerts : Acknowledge(a) \/ OtherAck(a)
  \/ \E c \in calls : TakeAck(c) \/ Acked(c)

\* acknowledgements come to an end
Ends == \E c \in calls : TakeAck(c) \/ Acked(c)
Fairness == Polling("alerts") /\ WF_vars(Ends)

Spec == Init /\ [][Next]_vars
FairSpec == Spec /\ Fairness

-----------------------------------------------------------------------------
\* The list ends up showing the rows of the filter it is left on, although
\* answers for an earlier filter, and the reload after an acknowledgement,
\* which asks for the filter of the click, may come after and be shown.
AlertsConverge == Converges("alerts")
=============================================================================
