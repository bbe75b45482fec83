--------------------------- MODULE SuggestionsPage ---------------------------
(* The suggestions list, the suggestion a link brings into focus above it,   *)
(* and the review of one.  What the master holds is the status of each.      *)
(* Suggestions are reviewed from the row opened in the list or from the      *)
(* focus, with one choice of agents and one busy flag for both.              *)
EXTENDS PolledList

CONSTANTS Suggestion, Agent

Nothing == <<None, "unseen">>     \* no detail
AgentOf(s) == server.agent[s]     \* whose denial it was made from
Panels == {"row", "focus"}

Init ==
  /\ page = "suggestions"
  /\ \E a \in [Suggestion -> Agent] :
       server = [v |-> [s \in Suggestion |-> "pending"], agent |-> a]
  /\ log = [faults |-> 0, moves |-> 0]
  /\ \E focus \in Suggestion \cup {None} :
       /\ ui = Shown(First) @@
               [expanded |-> None, detail |-> Nothing, selected |-> {}, busy |-> FALSE,
                focus |-> focus, focused |-> Nothing, focusError |-> FALSE]
       /\ calls = {Ask(<<First, 0, None>>, Unread)} \cup
                  (IF focus = None THEN {} ELSE {Request("focus", <<First, 0, focus>>, Unread)})

\* A row is closed, or opened over the one that was; its detail is asked for,
\* the last one's stays until then.
ToggleExpand(s) ==
  /\ Moves("suggestions") /\ Room /\ ui.rows # Unread
  /\ IF ui.expanded = s
       THEN /\ ui' = [ui EXCEPT !.expanded = None, !.detail = Nothing]
            /\ UNCHANGED calls
       ELSE /\ ui' = [ui EXCEPT !.expanded = s, !.selected = {AgentOf(s)}]
            /\ calls' = calls \cup {Request("detail", About(ui, s), Unread)}
  /\ UNCHANGED <<page, server>>

GetSuggestedModule(c) ==
  /\ page = "suggestions" /\ c.kind \in {"detail", "focus"} /\ c.st = "sent"
  /\ calls' = (calls \ {c}) \cup {[c EXCEPT !.st = "ok", !.v = server.v]}
  /\ UNCHANGED <<page, server, ui, log>>

Got(c) == <<c.q[3], c.v[c.q[3]]>>

DetailLoads(c) ==
  /\ page = "suggestions" /\ c.kind = "detail" /\ c.st \in {"ok", "failed"}
  /\ ui' = IF c.st = "ok" THEN [ui EXCEPT !.detail = Got(c)] ELSE [ui EXCEPT !.error = TRUE]
  /\ calls' = calls \ {c}
  /\ UNCHANGED <<page, server, log>>

\* the focus also takes over the choice of agents
FocusLoads(c) ==
  /\ page = "suggestions" /\ c.kind = "focus" /\ c.st \in {"ok", "failed"}
  /\ ui' = IF c.st = "ok"
             THEN [ui EXCEPT !.focused = Got(c), !.selected = {AgentOf(c.q[3])}, !.focusError = FALSE]
             ELSE [ui EXCEPT !.focusError = TRUE]
  /\ calls' = calls \ {c}
  /\ UNCHANGED <<page, server, log>>

Unfocused(u) == [u EXCEPT !.focus = None, !.focused = Nothing, !.focusError = FALSE]

ClearFocus ==
  /\ page = "suggestions" /\ ui.focus # None
  /\ ui' = Unfocused(ui)
  /\ UNCHANGED <<page, server, calls, log>>

ToggleAgent(a) ==
  /\ Moves("suggestions") /\ (ui.expanded # None \/ ui.focus # None)
  /\ ui' = [ui EXCEPT !.selected = IF a \in @ THEN @ \ {a} ELSE @ \cup {a}]
  /\ UNCHANGED <<page, server, calls>>

\* the suggestion a panel's buttons act on, and what the panel shows of it
Target(p) == IF p = "row" THEN ui.expanded ELSE ui.focused[1]
Reviewable(p) ==
  /\ ~ui.busy
  /\ IF p = "row" THEN ui.expanded # None /\ ui.detail[2] = "pending"
     ELSE ui.focus # None /\ ui.focused[2] = "pending"

Review(p, kind) ==
  /\ Moves("suggestions") /\ Room /\ Reviewable(p)
  /\ kind = "approve" => ui.selected # {}
  /\ ui' = [ui EXCEPT !.busy = TRUE]
  /\ calls' = calls \cup {Request(kind, About(ui, Target(p)), Unread)}
  /\ UNCHANGED <<page, server>>

Outcome(kind) == IF kind = "approve" THEN "approved" ELSE "rejected"

\* The master takes a review of a pending suggestion, and refuses any other.
TakeReview(c) ==
  /\ page = "suggestions" /\ c.kind \in {"approve", "reject"} /\ c.st = "sent"
  /\ IF server.v[c.q[3]] = "pending"
       THEN /\ server' = [server EXCEPT !.v[c.q[3]] = Outcome(c.kind)]
            /\ calls' = (calls \ {c}) \cup {[c EXCEPT !.st = "ok"]}
       ELSE /\ calls' = (calls \ {c}) \cup {[c EXCEPT !.st = "failed"]}
            /\ UNCHANGED server
  /\ UNCHANGED <<page, ui, log>>

\* Reviewed: the row closes, whichever is open by now; the focus goes if it was
\* the one, and with it the address returns to the filter of the click; the
\* list is asked for as it was at the click.
Reviewed(c) ==
  /\ page = "suggestions" /\ c.kind \in {"approve", "reject"} /\ c.st \in {"ok", "failed"}
  /\ LET u == [ui EXCEPT !.busy = FALSE]
         closed == [u EXCEPT !.expanded = None, !.detail = Nothing]
         again == (calls \ {c}) \cup {Ask(<<c.q[1], c.q[2], None>>, Unread)}
     IN IF c.st = "failed" THEN ui' = [u EXCEPT !.error = TRUE] /\ calls' = calls \ {c}
        ELSE IF c.q[3] # ui.focus THEN ui' = closed /\ calls' = again
        ELSE IF c.q[1] = ui.filter THEN ui' = Unfocused(closed) /\ calls' = again
        ELSE Filtered([Unfocused(closed) EXCEPT !.filter = c.q[1]], again)
  /\ UNCHANGED <<page, server, log>>

\* Another operator reviews it.
OtherReview(s) ==
  /\ page = "suggestions" /\ server.v[s] = "pending"
  /\ server' = [server EXCEPT !.v[s] = "rejected"]
  /\ UNCHANGED <<page, ui, calls, log>>

Next ==
  \/ Polled("suggestions")
  \/ \E s \in Suggestion : ToggleExpand(s) \/ OtherReview(s)
  \/ \E a \in Agent : ToggleAgent(a)
  \/ \E p \in Panels : Review(p, "approve") \/ Review(p, "reject")
  \/ ClearFocus
  \/ \E c \in calls : \/ GetSuggestedModule(c) \/ DetailLoads(c) \/ FocusLoads(c)
                      \/ TakeReview(c) \/ Reviewed(c)

\* details are read and reviews come to an end
Ends == \E c \in calls : \/ GetSuggestedModule(c) \/ DetailLoads(c) \/ FocusLoads(c)
                         \/ TakeReview(c) \/ Reviewed(c)
Fairness == Polling("suggestions") /\ WF_vars(Ends)

Spec == Init /\ [][Next]_vars
FairSpec == Spec /\ Fairness

-----------------------------------------------------------------------------
\* The list ends up showing what the master holds for the filter it is left
\* on, whatever was reviewed, opened or filtered while requests were out.
SuggestionsConverge == Converges("suggestions")
=============================================================================
