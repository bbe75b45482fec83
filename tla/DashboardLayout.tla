-------------------------- MODULE DashboardLayout --------------------------
(* The dashboard's grid and the layout the master keeps of it.  Two pages    *)
(* write that layout: the dashboard, through a debounced autosave, and the   *)
(* chart explorer, which reads it, appends a tile and writes it back.        *)
(*                                                                           *)
(* A layout is the set of its tiles and how they look (places, sizes, limits *)
(* and chart settings, all in one value).  Tiles get a fresh id whenever one *)
(* is made.  calls holds the requests the browser has not been answered: a   *)
(* write is by the dashboard open now, by one that was left, or by the chart *)
(* whose tile it adds.  log is history that only properties read.            *)
EXTENDS Naturals, FiniteSets

CONSTANTS Fresh, Chart,                     \* ids for new tiles: widgets, charts
          MaxEdits, MaxVisits, MaxFaults    \* bounds of the exploration

VARIABLES page, server, ui, calls, log

vars == <<page, server, ui, calls, log>>

Layout(tiles) == [tiles |-> tiles, look |-> 0]
Empty == Layout({})
DefaultWidgets == Layout({"default"})
SavedBefore == Layout({"saved"})

\* a stored list that is empty means: the default layout
OrDefault(l) == IF l.tiles = {} THEN DefaultWidgets ELSE l

Opened == [widgets |-> DefaultWidgets, loaded |-> FALSE, synced |-> Empty,
           save |-> "idle", timer |-> FALSE, editing |-> FALSE, previous |-> {}]
Gallery == [added |-> {}]

Pages == {"dashboard", "charts"}
On(p) == page = p

\* What a page is opened with: its state, and the one read a dashboard makes.
OpenedOn(p) == IF p = "dashboard" THEN Opened ELSE Gallery
FirstRead(p) ==
  IF p = "dashboard"
    THEN {[kind |-> "get", by |-> "dashboard", st |-> "sent", got |-> Empty]} ELSE {}

Init ==
  /\ page \in Pages
  /\ server \in {Empty, SavedBefore}
  /\ ui = OpenedOn(page)
  /\ calls = FirstRead(page)
  /\ log = [used |-> {}, removed |-> {}, edits |-> 0, visits |-> 1,
            faults |-> 0, blind |-> FALSE, raced |-> FALSE]

\* The saves of the dashboard that is open, and whether its read is still to be
\* served: what the history log.raced is told from.
OwnSaves == {c \in calls : c.kind = "put" /\ c.by = "dashboard"}
ReadsYet == \E c \in calls : c.kind = "get" /\ c.by = "dashboard" /\ c.st = "sent"

\* randomUUID: an id no tile has had
NewId == IF Fresh \subseteq log.used THEN "no id left" ELSE CHOOSE t \in Fresh : t \notin log.used

-----------------------------------------------------------------------------
(* The master's side, and the network between.                             *)

\* The master answers the request: a read with what it holds, a write by
\* replacing the whole layout.
Serve(c) ==
  /\ c.st = "sent"
  /\ IF c.kind = "get"
       THEN /\ calls' = (calls \ {c}) \cup {[c EXCEPT !.st = "ok", !.got = server]}
            /\ UNCHANGED <<server, log>>
       ELSE /\ calls' = (calls \ {c}) \cup {[c EXCEPT !.st = "ok"]}
            /\ server' = c.body
            /\ log' = [log EXCEPT !.raced =
                                    @ \/ (c.by # "dashboard" /\ On("dashboard") /\ ~ReadsYet)]
  /\ UNCHANGED <<page, ui>>

\* The request is lost before the master sees it, or its answer after.
Lose(c) ==
  /\ c.st \in {"sent", "ok"} /\ log.faults < MaxFaults
  /\ calls' = (calls \ {c}) \cup {[c EXCEPT !.st = "failed"]}
  /\ log' = [log EXCEPT !.faults = @ + 1]
  /\ UNCHANGED <<page, server, ui>>

-----------------------------------------------------------------------------
(* The dashboard page.                                                     *)

\* slip: a layout is saved before the saved one was loaded
Autosave_slip(u) ==
  IF u.widgets = u.synced THEN [u EXCEPT !.timer = FALSE]
  ELSE [u EXCEPT !.timer = TRUE, !.save = "saving"]

\* The autosave effect, run with every change of the widgets or of loaded:
\* the pending timer is dropped, and a layout that differs from the synced one
\* is timed for saving.
Autosave(u) ==
  IF ~u.loaded THEN u
  ELSE IF u.widgets = u.synced THEN [u EXCEPT !.timer = FALSE]
  ELSE [u EXCEPT !.timer = TRUE, !.save = "saving"]

\* The answer to the one read a visit makes.
LayoutLoads(c) ==
  /\ On("dashboard") /\ c.kind = "get" /\ c.by = "dashboard" /\ c.st = "ok"
  /\ LET l == OrDefault(c.got) IN
       ui' = Autosave([ui EXCEPT !.widgets = l, !.synced = l, !.loaded = TRUE])
  /\ calls' = calls \ {c}
  /\ UNCHANGED <<page, server, log>>

LayoutDoesNotLoad(c) ==
  /\ On("dashboard") /\ c.kind = "get" /\ c.by = "dashboard" /\ c.st = "failed"
  /\ ui' = Autosave([ui EXCEPT !.synced = DefaultWidgets, !.loaded = TRUE])
  /\ calls' = calls \ {c}
  /\ log' = [log EXCEPT !.blind = TRUE]
  /\ UNCHANGED <<page, server>>

Customize ==
  /\ On("dashboard")
  /\ ui' = [ui EXCEPT !.editing = ~@]
  /\ UNCHANGED <<page, server, calls, log>>

Edit(u, ids, gone) ==
  /\ On("dashboard") /\ ui.editing /\ log.edits < MaxEdits
  /\ ui' = Autosave(u)
  /\ log' = [log EXCEPT !.edits = @ + 1, !.used = @ \cup ids, !.removed = @ \cup gone,
                        !.raced = @ \/ (OwnSaves # {} /\ u.widgets = u.synced)]
  /\ UNCHANGED <<page, server, calls>>

AddWidget(t) ==
  /\ On("dashboard") /\ t = NewId
  /\ Edit([ui EXCEPT !.widgets.tiles = @ \cup {t}], {t}, {})

RemoveWidget(t) ==
  /\ On("dashboard") /\ t \in ui.widgets.tiles
  /\ Edit([ui EXCEPT !.widgets.tiles = @ \ {t}], {}, {t})

\* a drag, a resize, a row limit or a chart's settings
Rearrange ==
  /\ On("dashboard")
  /\ Edit([ui EXCEPT !.widgets.look = 1 - @], {}, {})

\* a template or a random layout, of fresh tiles
ReplaceLayout(t) ==
  /\ On("dashboard") /\ t = NewId
  /\ Edit([ui EXCEPT !.previous = {ui.widgets}, !.widgets = Layout({t})], {t}, ui.widgets.tiles)

UndoReplace ==
  /\ On("dashboard")
  /\ \E l \in ui.previous : Edit([ui EXCEPT !.widgets = l, !.previous = {}], {}, ui.widgets.tiles)

SaveTimer ==
  /\ On("dashboard") /\ ui.timer
  /\ calls' = calls \cup {[kind |-> "put", by |-> "dashboard", st |-> "sent", body |-> ui.widgets]}
  /\ ui' = [ui EXCEPT !.timer = FALSE]
  /\ log' = [log EXCEPT !.raced = @ \/ OwnSaves # {}]
  /\ UNCHANGED <<page, server>>

\* slip: the answer of a save takes the timer of a later edit with it
SaveAnswered_slip(c) ==
  /\ c.kind = "put" /\ c.by \in {"dashboard", "left"} /\ c.st \in {"ok", "failed"}
  /\ ui' = IF c.by = "left" THEN ui
           ELSE IF c.st = "ok" THEN [ui EXCEPT !.synced = c.body, !.save = "saved", !.timer = FALSE]
           ELSE [ui EXCEPT !.save = "idle"]
  /\ calls' = calls \ {c}
  /\ UNCHANGED <<page, server, log>>

\* A save outlives the page it was made on, and its answer is then shown by
\* none: a dashboard opened later has a state of its own.
SaveAnswered(c) ==
  /\ c.kind = "put" /\ c.by \in {"dashboard", "left"} /\ c.st \in {"ok", "failed"}
  /\ ui' = IF c.by = "left" THEN ui
           ELSE IF c.st = "ok" THEN [ui EXCEPT !.synced = c.body, !.save = "saved"]
           ELSE [ui EXCEPT !.save = "idle"]
  /\ calls' = calls \ {c}
  /\ UNCHANGED <<page, server, log>>

-----------------------------------------------------------------------------
(* The chart explorer's "add to dashboard".  The button stays enabled.     *)

AddToDashboard(t) ==
  /\ On("charts") /\ t \notin log.used
  /\ calls' = calls \cup {[kind |-> "get", by |-> t, st |-> "sent", got |-> Empty]}
  /\ log' = [log EXCEPT !.used = @ \cup {t}]
  /\ UNCHANGED <<page, server, ui>>

\* addToDashboard goes on after its read, on whatever page the browser is.
AppendChart(c) ==
  /\ c.kind = "get" /\ c.by \in Chart /\ c.st = "ok"
  /\ calls' = (calls \ {c}) \cup
       {[kind |-> "put", by |-> c.by, st |-> "sent",
         body |-> [OrDefault(c.got) EXCEPT !.tiles = @ \cup {c.by}]]}
  /\ UNCHANGED <<page, server, ui, log>>

ChartAnswered(c) ==
  /\ c.by \in Chart
  /\ \/ c.kind = "put" /\ c.st \in {"ok", "failed"}
     \/ c.kind = "get" /\ c.st = "failed"
  /\ calls' = calls \ {c}
  /\ ui' = IF On("charts") /\ c.st = "ok" THEN [ui EXCEPT !.added = @ \cup {c.by}] ELSE ui
  /\ UNCHANGED <<page, server, log>>

\* Another page is opened: the timer goes with the old one, as do the answers
\* only its state waited for.  Writes go on.
GoTo(p) ==
  /\ page \in Pages /\ page # p /\ log.visits < MaxVisits
  /\ page' = p
  /\ ui' = OpenedOn(p)
  /\ calls' = {c \in calls : c.by # "dashboard"}
               \cup {[c EXCEPT !.by = "left"] : c \in OwnSaves} \cup FirstRead(p)
  /\ log' = [log EXCEPT !.visits = @ + 1, !.raced = FALSE]
  /\ UNCHANGED server

Next ==
  \/ page \in Pages /\ \E c \in calls :
                      \/ Serve(c) \/ Lose(c)
                      \/ LayoutLoads(c) \/ LayoutDoesNotLoad(c) \/ SaveAnswered(c)
                      \/ AppendChart(c) \/ ChartAnswered(c)
  \/ \E t \in Fresh : AddWidget(t) \/ ReplaceLayout(t)
  \/ \E t \in {"saved", "default"} \cup Fresh \cup Chart : RemoveWidget(t)
  \/ \E t \in Chart : AddToDashboard(t)
  \/ \E p \in Pages : GoTo(p)
  \/ Customize \/ Rearrange \/ UndoReplace \/ SaveTimer

Spec == Init /\ [][Next]_vars

-----------------------------------------------------------------------------
(* Properties.                                                             *)

\* A tile saved before the visit stays on the master until the operator takes
\* it off, as long as no read of the layout failed: no default, half-loaded or
\* appended layout ever replaces it, whatever answers are lost or cross.
\* (Dashboard.tsx autosave: "it can never overwrite a saved layout with the
\* still-default one"; after a failed read it can, and does.)
SavedTilesKept ==
  [][ (page \in Pages /\ "saved" \in server.tiles
         /\ ~log.blind /\ "saved" \notin log.removed)
        => "saved" \in server'.tiles ]_vars

\* When the page says "saved" and all is answered, the master holds what the
\* grid shows: after edits made while a save was timed or out, saves that
\* failed, and visits whose requests cross (Dashboard.tsx 225-249).  Not so,
\* and log.raced, if during this visit
\*   - the grid was brought back to the synced layout while a save was out: no
\*     timer is set (233), and the answer then calls the other layout synced
\*     and "saved" (239-241);
\*   - a save was sent while another was out, and either may be served last;
\*   - a write of an earlier visit or of the explorer was served after the
\*     layout had been read.
SavedIsSaved ==
  (page = "dashboard" /\ ui.save = "saved" /\ ~ui.timer /\ calls = {} /\ ~log.raced)
     => server = ui.widgets
=============================================================================
