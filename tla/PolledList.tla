----------------------------- MODULE PolledList -----------------------------
(* A filtered, paged list that is loaded again every 5 s, as the alerts and  *)
(* the suggestions pages have it: unlike the other lists, no request is ever *)
(* given up, so every answer is shown when it comes.                         *)
EXTENDS Loads, TLC

CONSTANTS Filters, MaxMoves     \* what the operator does, at most

None == "none"
\* what a request is about: a filter, a page, and for some a row
About(u, row) == <<u.filter, u.offset, row>>
Query(u) == About(u, None)
MaxPage == 1                    \* the last page the master has, from 0

First == CHOOSE f \in Filters : TRUE      \* the filter the page opens with

\* what a list holds: the status of each of its items, by function; none yet
Unread == <<>>
Shown(f) ==
  [filter |-> f, offset |-> 0, q |-> <<None, 0, None>>, rows |-> Unread, error |-> FALSE]

Moves(p) == page = p /\ log.moves < MaxMoves /\ log' = [log EXCEPT !.moves = @ + 1]

\* load(), with the query of the render it was made in
Load(u, cs, q) ==
  /\ ui' = u
  /\ calls' = cs \cup {Ask(q, Unread)}

\* slip: the interval keeps the page it was started on
Tick_slip(p) ==
  /\ page = p /\ Room
  /\ Load(ui, calls, Query([ui EXCEPT !.offset = 0]))
  /\ UNCHANGED <<page, server, log>>

Tick(p) ==
  /\ page = p /\ Room
  /\ Load(ui, calls, Query(ui))
  /\ UNCHANGED <<page, server, log>>

\* Another filter: a request with the old offset, then one for the first page.
Filtered(u, cs) ==
  LET first == [u EXCEPT !.offset = 0] IN
  Load(first, IF u.offset = 0 THEN cs ELSE cs \cup {Ask(Query(u), Unread)}, Query(first))

SetFilter(p, f) ==
  /\ Moves(p) /\ Room /\ f # ui.filter
  /\ Filtered([ui EXCEPT !.filter = f], calls)
  /\ UNCHANGED <<page, server>>

Turn(p) ==
  /\ Moves(p) /\ Room
  /\ \/ ui.offset > 0 /\ LET u == [ui EXCEPT !.offset = @ - 1] IN Load(u, calls, Query(u))
     \/ ui.offset < MaxPage /\ ui.q[1] # None /\ LET u == [ui EXCEPT !.offset = @ + 1] IN Load(u, calls, Query(u))
  /\ UNCHANGED <<page, server>>

\* the rows are shown whatever was asked for since
Loaded(p, c) ==
  /\ page = p /\ c \in Loading(calls) /\ c.st = "ok"
  /\ ui' = [ui EXCEPT !.q = c.q, !.rows = c.v, !.error = FALSE]
  /\ calls' = calls \ {c}
  /\ UNCHANGED <<page, server, log>>

NotLoaded(p, c) ==
  /\ page = p /\ c \in Loading(calls) /\ c.st = "failed"
  /\ ui' = [ui EXCEPT !.error = TRUE]
  /\ calls' = calls \ {c}
  /\ UNCHANGED <<page, server, log>>

Polled(p) ==
  \/ Tick(p) \/ Turn(p)
  \/ \E f \in Filters : SetFilter(p, f)
  \/ \E c \in calls : Answer(p, c) \/ Fail(p, c) \/ Loaded(p, c) \/ NotLoaded(p, c)

\* The interval fires, the master answers, and answers are shown.
Reads(p) == \E c \in calls : Answer(p, c)
Shows(p) == \E c \in calls : Loaded(p, c) \/ NotLoaded(p, c)
Polling(p) == WF_vars(Tick(p)) /\ WF_vars(Reads(p)) /\ WF_vars(Shows(p))

\* An operator, whose moves end, ends up seeing the rows of the filter and page
\* he stays on, as the master holds them, whatever came late.
Converges(p) == <>[](page = p => (ui.q = Query(ui) /\ ui.rows = server.v))
=============================================================================
