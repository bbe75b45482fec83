----------------------------- MODULE MatrixPage -----------------------------
(* The denial matrix, over a window of days the operator picks, and the      *)
(* trend of each agent over the last days.  What the master holds is the     *)
(* number of denials of each agent on each day.  The two lists are asked for *)
(* and shown together; the page relates nothing of one to the other, so they *)
(* are one answer here.                                                      *)
EXTENDS Loads, Listing, FiniteSetsExt

CONSTANTS Agent, Day,       \* Day: a set of numbers, the last is today
          Windows           \* numbers of days; 0 is the whole history

Nothing == [p \in Agent \X Day |-> 0]

\* "Loading" shows when the window is another one.
Effect(u) ==
  /\ ui' = [u EXCEPT !.loading = @ \/ u.last # u.days, !.last = u.days]
  /\ calls' = Cancelled(calls) \cup {Ask(u.days, Nothing)}

Init ==
  /\ page = "matrix"
  /\ server = [v |-> Nothing]
  /\ log = [faults |-> 0]
  /\ LET d == CHOOSE d \in Windows : \A e \in Windows : e <= d IN
       /\ ui = [days |-> d, last |-> d, q |-> 0, rows |-> Nothing, loading |-> TRUE, error |-> FALSE]
       /\ calls = {Ask(d, Nothing)}

SetDays(d) ==
  /\ page = "matrix" /\ Room /\ d # ui.days
  /\ Effect([ui EXCEPT !.days = d])
  /\ UNCHANGED <<page, server, log>>

AutoTick == page = "matrix" /\ Room /\ Effect(ui) /\ UNCHANGED <<page, server, log>>

Loaded(c) ==
  /\ page = "matrix" /\ c.st = "ok"
  /\ ui' = IF c.live THEN [ui EXCEPT !.q = c.q, !.rows = c.v, !.error = FALSE, !.loading = FALSE] ELSE ui
  /\ calls' = calls \ {c}
  /\ UNCHANGED <<page, server, log>>

NotLoaded(c) ==
  /\ page = "matrix" /\ c.st = "failed"
  /\ ui' = IF c.live THEN [ui EXCEPT !.error = TRUE, !.loading = FALSE] ELSE ui
  /\ calls' = calls \ {c}
  /\ UNCHANGED <<page, server, log>>

Denial(p) ==
  /\ page = "matrix" /\ SumFunction(server.v) < MaxChanges
  /\ server' = [server EXCEPT !.v[p] = @ + 1]
  /\ UNCHANGED <<page, ui, calls, log>>

Next ==
  \/ \E d \in Windows : SetDays(d)
  \/ AutoTick
  \/ \E c \in calls : Answer("matrix", c) \/ Fail("matrix", c) \/ Loaded(c) \/ NotLoaded(c)
  \/ \E p \in Agent \X Day : Denial(p)

Spec == Init /\ [][Next]_vars

-----------------------------------------------------------------------------
(* The trend: a bar per day on which any agent had a denial, oldest first,   *)
(* for each agent that had one, those with most first.                       *)

TrendDays(v) == ListedBy({d \in Day : \E a \in Agent : v[<<a, d>>] > 0}, LAMBDA d, e : d < e)
Counts(v, a) == [i \in DOMAIN TrendDays(v) |-> v[<<a, TrendDays(v)[i]>>]]
Total(v, a) == SumFunction([d \in Day |-> v[<<a, d>>]])
TrendByAgent(v) ==
  ListedBy({a \in Agent : Total(v, a) > 0}, LAMBDA a, b : Total(v, a) > Total(v, b))

\* heights of the bars, of 24 pixels; a day with denials always shows
Sparkline(counts) ==
  LET top == Max(Range(counts) \cup {1})
      AtLeast(n, m) == IF n < m THEN m ELSE n
  IN [i \in DOMAIN counts |-> AtLeast((24 * counts[i]) \div top, IF counts[i] > 0 THEN 1 ELSE 0)]

\* the dashboard's widget of the same rows: a point per day, of all agents
DenialTrend(v) ==
  [i \in DOMAIN TrendDays(v) |-> SumFunction([a \in Agent |-> v[<<a, TrendDays(v)[i]>>]])]

-----------------------------------------------------------------------------
\* Every denial of the days is in one row of the trend, under its day, and its
\* bar is drawn; the dashboard's points are the sums of the rows (Matrix.tsx:
\* trendByAgent, Sparkline; dashboardWidgets.tsx: denial-trend).
TrendAddsUp ==
  page = "matrix" =>
    LET v == ui.rows
        shown == TrendByAgent(v)
        bars == [i \in DOMAIN shown |-> Sparkline(Counts(v, shown[i]))]
    IN /\ SumFunction([i \in DOMAIN shown |-> SumFunction(Counts(v, shown[i]))])
             = SumFunction(v)
       /\ \A i \in DOMAIN shown, d \in DOMAIN TrendDays(v) :
            bars[i][d] > 0 <=> v[<<shown[i], TrendDays(v)[d]>>] > 0
       /\ \A i \in DOMAIN shown : 24 \in Range(bars[i])
       /\ \A d \in DOMAIN TrendDays(v) :
            DenialTrend(v)[d] = SumFunction([i \in DOMAIN shown |-> Counts(v, shown[i])[d]])

\* While the window stays, its rows are not replaced by those of another, nor
\* by an older answer (Matrix.tsx: cancelled).
MatrixNeverGoesBack ==
  [][ (page = "matrix" /\ ui'.days = ui.days /\ ui.q = ui.days)
        => (ui'.q = ui.days /\ \A p \in DOMAIN ui.rows : ui'.rows[p] >= ui.rows[p]) ]_vars
=============================================================================
