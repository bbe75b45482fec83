----------------------------- MODULE DenialsPage -----------------------------
(* The denials list and the quarantine list: one component, which keeps its  *)
(* state when the operator goes from one route to the other.  The search     *)
(* parameters (agent and text) are one value; a group of occurrences is      *)
(* acted on with one request per occurrence.                                 *)
EXTENDS Loads

CONSTANTS Filters, Groups, Occurrences,
          MaxMoves              \* what the operator does, at most

None == "none"
NoRows == [q |-> <<"no rows", 0, FALSE>>, v |-> 0]
Query(u) == <<u.filter, u.offset, u.quarantine>>

\* pages of rows the master has: fewer in quarantine
Pages(q) == IF q[3] THEN 1 ELSE 2

\* The load effect: runs when the query or a tick changes.  "Loading" shows
\* only when the query is another one.
Effect(u) ==
  /\ ui' = [u EXCEPT !.loading = @ \/ u.last # Query(u), !.last = Query(u)]
  /\ calls' = Cancelled(calls) \cup {Ask(Query(u), 0)}

Init ==
  /\ page = "denials"
  /\ server = [v |-> 0]
  /\ log = [faults |-> 0, moves |-> 0]
  /\ LET q == <<CHOOSE f \in Filters : TRUE, 0, FALSE>> IN
       /\ ui = [filter |-> q[1], offset |-> 0, quarantine |-> FALSE, typed |-> None,
                rows |-> NoRows, total |-> 0, loading |-> TRUE, last |-> q, error |-> FALSE,
                busy |-> None, suggesting |-> None, suggested |-> {}]
       /\ calls = {Ask(q, 0)}

Moves == page = "denials" /\ log.moves < MaxMoves /\ log' = [log EXCEPT !.moves = @ + 1]

\* The automatic refresh, or a reload asked for.
Refresh == page = "denials" /\ Room /\ Effect(ui) /\ UNCHANGED <<page, server, log>>

\* slip: an answer is shown although its request was given up
Loaded_slip(c) ==
  /\ page = "denials" /\ c \in Loading(calls) /\ c.st = "ok"
  /\ ui' = [ui EXCEPT !.rows = Rows(c), !.total = Pages(c.q), !.error = FALSE, !.loading = FALSE]
  /\ calls' = calls \ {c}
  /\ UNCHANGED <<page, server, log>>

Loaded(c) ==
  /\ page = "denials" /\ c \in Loading(calls) /\ c.st = "ok"
  /\ ui' = IF ~c.live THEN ui
           ELSE [ui EXCEPT !.rows = Rows(c), !.total = Pages(c.q), !.error = FALSE, !.loading = FALSE]
  /\ calls' = calls \ {c}
  /\ UNCHANGED <<page, server, log>>

NotLoaded(c) ==
  /\ page = "denials" /\ c \in Loading(calls) /\ c.st = "failed"
  /\ ui' = IF ~c.live THEN ui ELSE [ui EXCEPT !.error = TRUE, !.loading = FALSE]
  /\ calls' = calls \ {c}
  /\ UNCHANGED <<page, server, log>>

\* New search parameters: the load effect runs with the old offset, whose
\* request is given up at once when the reset to the first page renders.
SetFilter(u) ==
  IF u.offset = 0 THEN Effect(u)
  ELSE /\ ui' = [u EXCEPT !.offset = 0, !.loading = TRUE, !.last = Query([u EXCEPT !.offset = 0])]
       /\ calls' = Cancelled(calls \cup {Ask(Query(u), 0)}) \cup {Ask(Query([u EXCEPT !.offset = 0]), 0)}

FilterAgent(f) ==
  /\ Moves /\ Room /\ f # ui.filter
  /\ SetFilter([ui EXCEPT !.filter = f])
  /\ UNCHANGED <<page, server>>

\* a typed text waits for the debounce timer; another restarts it
Type(f) ==
  /\ Moves /\ f # ui.typed
  /\ ui' = [ui EXCEPT !.typed = f]
  /\ UNCHANGED <<page, server, calls>>

SearchTimer ==
  /\ page = "denials" /\ Room /\ ui.typed # None
  /\ IF ui.typed = ui.filter
       THEN ui' = [ui EXCEPT !.typed = None] /\ UNCHANGED calls
       ELSE SetFilter([ui EXCEPT !.filter = ui.typed, !.typed = None])
  /\ UNCHANGED <<page, server, log>>

\* previous and next: a page is one unit of offset
Turn ==
  /\ Moves /\ Room
  /\ \/ ui.offset > 0 /\ Effect([ui EXCEPT !.offset = @ - 1])
     \/ ui.offset + 1 < ui.total /\ Effect([ui EXCEPT !.offset = @ + 1])
  /\ UNCHANGED <<page, server>>

\* The other route: same component, another prop; rows and offset stay.
SwitchRoute ==
  /\ Moves /\ Room
  /\ Effect([ui EXCEPT !.quarantine = ~@])
  /\ UNCHANGED <<page, server>>

-----------------------------------------------------------------------------
(* Acting on a group of rows.                                              *)

\* Quarantine, restore or delete every occurrence of the group; a bound: not
\* before all the requests of the last such click on it were answered.
Act(g) ==
  /\ Moves /\ ui.rows # NoRows /\ ui.busy # g
  /\ \A c \in calls : c.kind = "act" /\ c.live => c.q[1] # g
  /\ Cardinality(calls) + Cardinality(Occurrences) <= MaxCalls
  /\ ui' = [ui EXCEPT !.busy = g]
  /\ calls' = calls \cup {Request("act", <<g, o, TRUE>>, 0) : o \in Occurrences}
  /\ UNCHANGED <<page, server>>

\* The master quarantines, restores or deletes the occurrence, or records a fix.
Apply(c) ==
  /\ page = "denials" /\ c \in calls \ Loading(calls) /\ c.st = "sent"
  /\ server' = [server EXCEPT !.v = IF @ < MaxChanges THEN @ + 1 ELSE @]
  /\ calls' = (calls \ {c}) \cup {[c EXCEPT !.st = "ok"]}
  /\ UNCHANGED <<page, ui, log>>

\* the other occurrences' requests of the same click
Together(c) == {d \in calls : d.kind = "act" /\ d.live /\ d.q[1] = c.q[1]}

\* Promise.all: the last success reloads; the first failure stops waiting for
\* the others, which go on, and reloads nothing.
Acted(c) ==
  /\ page = "denials" /\ c \in calls /\ c.kind = "act" /\ c.st \in {"ok", "failed"}
  /\ IF ~c.live THEN calls' = calls \ {c} /\ UNCHANGED ui
     ELSE IF c.st = "failed"
       THEN /\ calls' = (calls \ Together(c)) \cup {[d EXCEPT !.live = FALSE] : d \in Together(c) \ {c}}
            /\ ui' = [ui EXCEPT !.busy = None, !.error = TRUE]
     ELSE IF Together(c) # {c} THEN calls' = calls \ {c} /\ UNCHANGED ui
     ELSE /\ calls' = Cancelled(calls \ {c}) \cup {Ask(Query(ui), 0)}
          /\ ui' = [ui EXCEPT !.busy = None, !.error = FALSE]
  /\ UNCHANGED <<page, server, log>>

\* "Fix": one slot for the request under way, a mark per group once done
RequestFix(g) ==
  /\ Moves /\ ui.rows # NoRows /\ ~ui.quarantine /\ Room
  /\ g \notin ui.suggested /\ ui.suggesting # g
  /\ ui' = [ui EXCEPT !.suggesting = g]
  /\ calls' = calls \cup {Request("fix", <<g, 0, TRUE>>, 0)}
  /\ UNCHANGED <<page, server>>

FixAnswered(c) ==
  /\ page = "denials" /\ c \in calls /\ c.kind = "fix" /\ c.st \in {"ok", "failed"}
  /\ ui' = IF c.st = "ok"
             THEN [ui EXCEPT !.suggesting = None, !.suggested = @ \cup {c.q[1]}, !.error = FALSE]
             ELSE [ui EXCEPT !.suggesting = None, !.error = TRUE]
  /\ calls' = calls \ {c}
  /\ UNCHANGED <<page, server, log>>

Next ==
  \/ \E c \in calls : \/ Answer("denials", c) \/ Apply(c) \/ Fail("denials", c)
                      \/ Loaded(c) \/ NotLoaded(c) \/ Acted(c) \/ FixAnswered(c)
  \/ \E f \in Filters : FilterAgent(f) \/ Type(f)
  \/ \E g \in Groups : Act(g) \/ RequestFix(g)
  \/ Refresh \/ SearchTimer \/ Turn \/ SwitchRoute \/ Change("denials")

Spec == Init /\ [][Next]_vars

-----------------------------------------------------------------------------
\* Rows never go back: while the filters, the page and the route stay, rows
\* of this query are not replaced by rows of another query, nor by an older
\* answer to the same one, however the answers are delayed.
DenialsNeverGoBack ==
  [][ (page = "denials" /\ Query(ui') = Query(ui) /\ ui.rows.q = Query(ui))
        => (ui'.rows.q = Query(ui) /\ ui'.rows.v >= ui.rows.v) ]_vars
=============================================================================
