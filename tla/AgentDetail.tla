----------------------------- MODULE AgentDetail -----------------------------
(* One agent's page.  Its address names the agent (ui.id); what it shows     *)
(* comes from loads that nothing gives up when the address changes.  The     *)
(* component keeps its state from one agent to the next.  A denial is known  *)
(* by the agent and by how many came before it; the newest is row 1, so rows *)
(* shift when one comes in.                                                  *)
EXTENDS Loads

CONSTANTS Agent, MaxMoves     \* what the operator does, at most

None == <<"none", 0>>
NoEvents == <<"nothing", 0>>  \* asked for, and none to show
Load(a) == Request("load", a, 0)

Init ==
  /\ page = "agent"
  /\ server = [v |-> 1]
  /\ \E a \in Agent, sources \in BOOLEAN :
       /\ ui = [id |-> a, shown |-> "nobody", rows |-> 0, error |-> FALSE,
                sources |-> sources, expanded |-> 0, events |-> None, correlating |-> FALSE,
                suggesting |-> 0, suggested |-> {}, switching |-> FALSE]
       /\ calls = {Load(a)}
  /\ log = [faults |-> 0, moves |-> 0]

Moves == page = "agent" /\ log.moves < MaxMoves /\ log' = [log EXCEPT !.moves = @ + 1]
\* an error replaces the whole page, and nothing shows before the first answer
Drawn == page = "agent" /\ ~ui.error /\ ui.shown # "nobody"
\* the denial in row i of what is shown
Row(i) == <<ui.shown, ui.rows + 1 - i>>

\* Another agent's page: the interval is set again and one load asked at once.
Open(a) ==
  /\ Moves /\ a # ui.id /\ Room
  /\ ui' = [ui EXCEPT !.id = a]
  /\ calls' = calls \cup {Load(a)}
  /\ UNCHANGED <<page, server>>

\* every 5 s
Tick ==
  /\ page = "agent" /\ Room
  /\ calls' = calls \cup {Load(ui.id)}
  /\ UNCHANGED <<page, server, ui, log>>

\* Four answers, shown together; whose they are is not looked at.
Loaded(c) ==
  /\ page = "agent" /\ c \in Loading(calls) /\ c.st = "ok"
  /\ ui' = [ui EXCEPT !.shown = c.q, !.rows = c.v, !.error = FALSE,
                      !.switching = @ /\ c.kind = "load"]
  /\ calls' = calls \ {c}
  /\ UNCHANGED <<page, server, log>>

NotLoaded(c) ==
  /\ page = "agent" /\ c \in Loading(calls) /\ c.st = "failed"
  /\ ui' = [ui EXCEPT !.error = TRUE, !.switching = @ /\ c.kind = "load"]
  /\ calls' = calls \ {c}
  /\ UNCHANGED <<page, server, log>>

\* A row is opened or closed, by its place; opening it asks what happened
\* around its denial, if there is a source that would know.
ToggleDenial(i) ==
  /\ Drawn /\ Moves /\ i <= ui.rows /\ Room
  /\ IF ui.expanded = i
       THEN /\ ui' = [ui EXCEPT !.expanded = 0, !.events = None]
            /\ UNCHANGED calls
       ELSE /\ ui' = [ui EXCEPT !.expanded = i, !.events = None, !.correlating = @ \/ ui.sources]
            /\ calls' = IF ui.sources THEN calls \cup {Request("correlate", Row(i)[1], Row(i)[2])} ELSE calls
  /\ UNCHANGED <<page, server>>

Correlated(c) ==
  /\ page = "agent" /\ c.kind = "correlate" /\ c.st \in {"ok", "failed"}
  /\ ui' = [ui EXCEPT !.events = IF c.st = "ok" THEN <<c.q, c.v>> ELSE NoEvents, !.correlating = FALSE]
  /\ calls' = calls \ {c}
  /\ UNCHANGED <<page, server, log>>

\* "Fix": the slot and the mark are the row's place
RequestFix(i) ==
  /\ Drawn /\ Moves /\ i = ui.expanded /\ i <= ui.rows /\ Room
  /\ i \notin ui.suggested /\ ui.suggesting # i
  /\ ui' = [ui EXCEPT !.suggesting = i]
  /\ calls' = calls \cup {Request("fix", Row(i)[1], i)}
  /\ UNCHANGED <<page, server>>

FixAnswered(c) ==
  /\ page = "agent" /\ c.kind = "fix" /\ c.st \in {"ok", "failed"}
  /\ ui' = IF c.st = "ok" THEN [ui EXCEPT !.suggesting = 0, !.suggested = @ \cup {c.v}, !.error = FALSE]
           ELSE [ui EXCEPT !.suggesting = 0, !.error = TRUE]
  /\ calls' = calls \ {c}
  /\ UNCHANGED <<page, server, log>>

\* The mode or a boolean is switched on the agent shown; then a load, of the
\* agent the page was open on at the click, which the button waits for.
Switch ==
  /\ Drawn /\ Moves /\ Room /\ ~ui.switching
  /\ ui' = [ui EXCEPT !.switching = TRUE]
  /\ calls' = calls \cup {Request("command", ui.id, 0)}
  /\ UNCHANGED <<page, server>>

SwitchAnswered(c) ==
  /\ page = "agent" /\ c.kind = "command" /\ c.st \in {"ok", "failed"}
  /\ IF c.st = "ok"
       THEN calls' = (calls \ {c}) \cup {Request("reload", c.q, 0)} /\ UNCHANGED ui
       ELSE calls' = calls \ {c} /\ ui' = [ui EXCEPT !.switching = FALSE, !.error = TRUE]
  /\ UNCHANGED <<page, server, log>>

\* what the master does with the other requests
Take(c) ==
  /\ page = "agent" /\ c \in calls \ Loading(calls) /\ c.st = "sent"
  /\ calls' = (calls \ {c}) \cup {[c EXCEPT !.st = "ok"]}
  /\ UNCHANGED <<page, server, ui, log>>

Next ==
  \/ \E c \in calls : \/ Answer("agent", c) \/ Fail("agent", c) \/ Take(c) \/ Loaded(c) \/ NotLoaded(c)
                      \/ Correlated(c) \/ FixAnswered(c) \/ SwitchAnswered(c)
  \/ \E a \in Agent : Open(a)
  \/ \E i \in 1..MaxChanges : ToggleDenial(i) \/ RequestFix(i)
  \/ Tick \/ Switch \/ Change("agent")

\* The interval fires, the master answers, and requests come to an end.
Reads == \E c \in calls : Answer("agent", c)
Shows == \E c \in calls : Loaded(c) \/ NotLoaded(c)
Ends == \E c \in calls : Take(c) \/ Correlated(c) \/ FixAnswered(c) \/ SwitchAnswered(c)
Fairness == WF_vars(Tick) /\ WF_vars(Reads) /\ WF_vars(Shows) /\ WF_vars(Ends)

Spec == Init /\ [][Next]_vars
FairSpec == Spec /\ Fairness

-----------------------------------------------------------------------------
\* An operator, whose moves end, ends up seeing the agent whose page he stays on,
\* and no error, although answers about the agent before may come late and replace it
\* for a while: nothing gives them up (AgentDetail.tsx load).
ShowsTheAgent ==
  <>[](page = "agent" => (ui.shown = ui.id /\ ~ui.error))
=============================================================================
