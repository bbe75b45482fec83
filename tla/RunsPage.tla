------------------------------- MODULE RunsPage -------------------------------
(* The collection runs as the console follows them: the collections page and *)
(* the panel of one agent's page.  A run is collected for a domain on its    *)
(* own, or as a member of one scan of a machine.  What the master holds is   *)
(* the status of each run; module Collection has how it gets there.          *)
EXTENDS Loads, TLC

CONSTANTS Member, Solo, MaxMoves    \* runs; what the operator does, at most

Run == Member \cup Solo
\* Of the statuses, "active" stands for starting, collecting and stopping, and
\* "done" for failed; a run not started yet has none.
NoRuns == [r \in Run |-> "none"]
None == "none"
Scan == "scan"                      \* its name in the busy slot and in requests
Pages == {"collections", "panel"}

Moves == page \in Pages /\ log.moves < MaxMoves /\ log' = [log EXCEPT !.moves = @ + 1]
ReadList(cs) == cs \cup {Ask(None, NoRuns)}
Send(kind, q) == Request(kind, q, NoRuns)

\* a scan is on its way already, or, on the panel, nothing was started yet
Init ==
  /\ page \in Pages
  /\ server = [v |-> [r \in Run |-> IF page = "collections" /\ r \in Member THEN "active" ELSE "none"]]
  /\ log = [faults |-> 0, moves |-> 0]
  /\ ui = [rows |-> NoRuns, busy |-> None, scanAgent |-> None, domains |-> 0, starting |-> FALSE]
  /\ calls = {Ask(None, NoRuns)}

-----------------------------------------------------------------------------
(* The list.  Every 2 or 3 s while a run is active and 8 or 10 s otherwise;  *)
(* nothing gives a request up.                                               *)

HasActive == \E r \in Run : ui.rows[r] = "active"

Tick ==
  /\ page \in Pages /\ Room
  /\ calls' = ReadList(calls)
  /\ UNCHANGED <<page, server, ui, log>>

\* When the first run becomes active, or the last ends, the effect runs again:
\* it sets the other interval and asks at once.
Loaded(c) ==
  /\ page \in Pages /\ c.kind = "load" /\ c.st = "ok"
  /\ ui' = [ui EXCEPT !.rows = c.v]
  /\ calls' = IF HasActive = HasActive' THEN calls \ {c} ELSE ReadList(calls \ {c})
  /\ UNCHANGED <<page, server, log>>

\* the rows stay; the collections page shows the error, the panel does not
NotLoaded(c) ==
  /\ page \in Pages /\ c.kind = "load" /\ c.st = "failed"
  /\ calls' = calls \ {c}
  /\ UNCHANGED <<page, server, ui, log>>

-----------------------------------------------------------------------------
(* Buttons of a row and of a scan's group: one busy slot for all of them.    *)

Stop(r) ==
  /\ Moves /\ Room /\ ui.rows[r] = "active" /\ ui.busy # r
  /\ ui' = [ui EXCEPT !.busy = r]
  /\ calls' = calls \cup {Send("stop", r)}
  /\ UNCHANGED <<page, server>>

StopAll ==
  /\ Moves /\ Room /\ ui.busy # Scan /\ \E r \in Member : ui.rows[r] = "active"
  /\ ui' = [ui EXCEPT !.busy = Scan]
  /\ calls' = calls \cup {Send("stop", Scan)}
  /\ UNCHANGED <<page, server>>

Generate(r) ==
  /\ Moves /\ Room /\ ui.rows[r] = "collected" /\ ui.busy # r
  /\ ui' = [ui EXCEPT !.busy = r]
  /\ calls' = calls \cup {Send("generate", r)}
  /\ UNCHANGED <<page, server>>

\* One request per run collected, not live for none is waited for alone; the
\* slot is the first run's, so the button of the group stays enabled.
GenerateAll ==
  /\ Moves /\ Room /\ ui.busy # Scan
  /\ LET ready == {r \in Member : ui.rows[r] = "collected"} IN
       /\ ready # {}
       /\ ui' = [ui EXCEPT !.busy = CHOOSE r \in ready : TRUE]
       /\ calls' = calls \cup {[Send("generate", r) EXCEPT !.live = FALSE] : r \in ready}
  /\ UNCHANGED <<page, server>>

\* Choosing a machine to scan asks for its domains, and gives up the request
\* for those of the one chosen before; they stay meanwhile.
ChooseAgent(a) ==
  /\ Moves /\ Room /\ page = "collections" /\ a # ui.scanAgent
  /\ ui' = [ui EXCEPT !.scanAgent = a, !.domains = IF a = None THEN 0 ELSE @]
  /\ calls' = {IF c.kind = "selinux" THEN [c EXCEPT !.live = FALSE] ELSE c : c \in calls}
                \cup (IF a = None THEN {} ELSE {Send("selinux", a)})
  /\ UNCHANGED <<page, server>>

DomainsLoad(c) ==
  /\ page = "collections" /\ c.kind = "selinux" /\ c.st \in {"ok", "failed"}
  /\ ui' = IF c.live THEN [ui EXCEPT !.domains = IF c.st = "ok" THEN 1 ELSE 0] ELSE ui
  /\ calls' = calls \ {c}
  /\ UNCHANGED <<page, server, log>>

\* "Scan the machine", on either page, or "collect" on a denial of an agent.
\* That button is disabled by a list read when the page opens and after each
\* start, and may be enabled for a run that is on: the master then refuses.
Start(q) ==
  /\ Moves /\ Room /\ ~ui.starting
  /\ \/ q = Scan /\ page = "collections" /\ ui.scanAgent # None /\ ui.domains > 0
     \/ q = Scan /\ page = "panel"
     \/ q \in Solo /\ page = "panel"
  /\ ui' = [ui EXCEPT !.starting = TRUE]
  /\ calls' = calls \cup {Send("start", q)}
  /\ UNCHANGED <<page, server>>

-----------------------------------------------------------------------------
(* The master's side: what it holds after a request, or on its own.          *)

\* the runs a request is about, and those it can act on
Named(c) == IF c.q = Scan THEN Member ELSE {c.q} \cap Run
From == [start |-> "none", stop |-> "active", generate |-> "collected"]
To == [start |-> "active", stop |-> "active", generate |-> "done"]
Ready(c) == {r \in Named(c) : server.v[r] = From[c.kind]}

\* The request acts on the runs it can, or on fewer: one on which nothing could
\* be done is refused, but for the stop of a scan.  A stop leaves a run active
\* until its agent confirms; a run is done even when no suggestion came of it.
Take(c) ==
  /\ page \in Pages /\ c.kind \in DOMAIN From /\ c.st = "sent"
  /\ \E S \in SUBSET Ready(c), st \in {"ok", "failed"} :
       /\ st = "ok" => S # {} \/ (c.kind = "stop" /\ c.q = Scan)
       /\ st = "failed" => S = {} \/ c.kind = "generate"
       /\ server' = [server EXCEPT !.v = [r \in Run |-> IF r \in S THEN To[c.kind] ELSE @[r]]]
       /\ calls' = (calls \ {c}) \cup {[c EXCEPT !.st = st]}
  /\ UNCHANGED <<page, ui, log>>

\* A window closes: its time is over or a stop is confirmed.  One that logged
\* nothing is done at once; to the page that is as if its model had answered.
Advance(r) ==
  /\ page \in Pages /\ server.v[r] = "active"
  /\ server' = [server EXCEPT !.v[r] = "collected"]
  /\ UNCHANGED <<page, ui, calls, log>>

-----------------------------------------------------------------------------
(* Answers.                                                                *)

\* finally: the slot is freed, whoever has it by then.  Of the requests for all
\* runs of a group the last answer does it, and reloads whatever they were.
Together == {d \in calls : d.kind = "generate" /\ ~d.live}
Answered(c) ==
  /\ page \in Pages /\ c.kind \in {"stop", "generate"} /\ c.st \in {"ok", "failed"}
  /\ IF ~c.live /\ Together # {c} THEN calls' = calls \ {c} /\ UNCHANGED ui
     ELSE /\ ui' = [ui EXCEPT !.busy = None]
          /\ calls' = IF c.st = "ok" \/ ~c.live THEN ReadList(calls \ {c}) ELSE calls \ {c}
  /\ UNCHANGED <<page, server, log>>

Started(c) ==
  /\ page \in Pages /\ c.kind = "start" /\ c.st \in {"ok", "failed"}
  /\ ui' = [ui EXCEPT !.starting = FALSE]
  /\ calls' = IF c.st = "ok" THEN ReadList(calls \ {c}) ELSE calls \ {c}
  /\ UNCHANGED <<page, server, log>>

Read(c) ==
  \/ page \in Pages /\ c.kind = "load" /\ Answer(page, c)
  \/ /\ page \in Pages /\ c.kind = "selinux" /\ c.st = "sent"
     /\ calls' = (calls \ {c}) \cup {[c EXCEPT !.st = "ok"]}
     /\ UNCHANGED <<page, server, ui, log>>

Next ==
  \/ Tick \/ StopAll \/ GenerateAll
  \/ \E r \in Run : Stop(r) \/ Generate(r) \/ Advance(r)
  \/ \E q \in {Scan} \cup Solo : Start(q)
  \/ \E a \in {"a1", None} : ChooseAgent(a)
  \/ page \in Pages /\ \E c \in calls :
                      \/ Read(c) \/ Take(c) \/ Fail(page, c)
                      \/ Loaded(c) \/ NotLoaded(c) \/ DomainsLoad(c)
                      \/ Answered(c) \/ Started(c)

\* The interval fires; the master answers lists and does what it is asked;
\* requests come to an end.
Reads == \E c \in calls : Read(c)
Shows == \E c \in calls : Loaded(c) \/ NotLoaded(c)
Ends == \E c \in calls : Take(c) \/ DomainsLoad(c) \/ Answered(c) \/ Started(c)
Fairness == WF_vars(Tick) /\ WF_vars(Reads) /\ WF_vars(Shows) /\ WF_vars(Ends)

Spec == Init /\ [][Next]_vars
FairSpec == Spec /\ Fairness

-----------------------------------------------------------------------------
\* The runs end up shown as the master has them, and every button comes back,
\* whatever was clicked while requests were out and whichever of them failed.
RunsConverge ==
  <>[](page \in Pages => (ui.rows = server.v /\ ui.busy = None /\ ~ui.starting))
=============================================================================
