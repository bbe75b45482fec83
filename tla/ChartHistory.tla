---------------------------- MODULE ChartHistory ----------------------------
(* How a chart gets its history: a page-wide cache of requests, in flight or *)
(* answered, that every chart reads through, and one chart that loads again  *)
(* every minute and whenever its configuration changes.                      *)
(*                                                                           *)
(* A load needs several slices: one of its own, one it shares with charts of *)
(* other dimensions, and the status, which says since when there is history. *)
(* A request is known by its slice and the number of the load that made it.  *)
EXTENDS Naturals, FiniteSets

CONSTANTS Configuration,                \* configurations, but for the chart type
          TTL,                          \* how long an entry serves, in ticks
          MaxTime, MaxLoads, MaxFaults

VARIABLES page, server, ui, calls, log
vars == <<page, server, ui, calls, log>>

Status == "status"
Slice == Configuration \cup {"shared", Status}
Needed(k) == {k, "shared", Status}
NotShown == "none"

\* the request behind a slice's entry; none: 0
Cached(s) == {c \in calls : c.slice = s /\ c.n = ui.cache[s]}
Hit(s) == \E c \in Cached(s) : log.now - c.at < TTL

\* Only what a load or the cache still refers to is kept of settled requests.
Referred(cs, cache, runs) ==
  {c \in cs : \/ c.st = "sent" \/ cache[c.slice] = c.n
              \/ \E r \in runs : c.slice \in Needed(r.key) /\ r.uses[c.slice] = c.n}

\* loadChartInput: a request for each slice the cache does not have
LoadChartInput(k, u) ==
  LET n == log.loads + 1
      missing == {s \in Needed(k) : ~Hit(s)}
      cache == [s \in Slice |-> IF s \in missing THEN n ELSE ui.cache[s]]
      run == [n |-> n, key |-> k, asked |-> log.now, live |-> TRUE,
              uses |-> [s \in Needed(k) |-> cache[s]]]
      runs == u.runs \cup {run}
  IN /\ log.loads < MaxLoads
     /\ ui' = [u EXCEPT !.cache = cache, !.runs = runs]
     /\ calls' = Referred(calls \cup {[slice |-> s, n |-> n, at |-> log.now, st |-> "sent", ended |-> 0] :
                                        s \in missing}, cache, runs)
     /\ log' = [log EXCEPT !.loads = n]

Init ==
  /\ page = "explorer"
  /\ server = <<>>
  /\ log = [now |-> 0, loads |-> 0, faults |-> 0]
  /\ ui = [key |-> "none", loading |-> FALSE, error |-> FALSE, shown |-> NotShown,
           cache |-> [s \in Slice |-> 0], runs |-> {}]
  /\ calls = {}

\* A chart is put on screen or its dataset, dimension, period or measure
\* changes: the loads of the last configuration are given up.
Show(k) ==
  /\ page = "explorer" /\ k # ui.key
  /\ LoadChartInput(k, [ui EXCEPT !.key = k, !.loading = TRUE,
                                  !.runs = {[r EXCEPT !.live = FALSE] : r \in @}])
  /\ UNCHANGED <<page, server>>

\* the interval, on a visible page
Refresh ==
  /\ page = "explorer" /\ ui.key # "none"
  /\ LoadChartInput(ui.key, ui)
  /\ UNCHANGED <<page, server>>

MinutePasses ==
  /\ page = "explorer" /\ log.now < MaxTime
  /\ log' = [log EXCEPT !.now = @ + 1]
  /\ UNCHANGED <<page, server, ui, calls>>

Answered(c) ==
  /\ page = "explorer" /\ c.st = "sent"
  /\ calls' = Referred((calls \ {c}) \cup {[c EXCEPT !.st = "ok"]}, ui.cache, ui.runs)
  /\ UNCHANGED <<page, server, ui, log>>

\* slip: a failed request stays in the cache
Forget_slip(s) == ui

\* The entry of the slice goes, even one that a later request has made.
Forget(s) == [ui EXCEPT !.cache[s] = 0]

Failed(c) ==
  /\ page = "explorer" /\ c.st = "sent" /\ log.faults < MaxFaults
  /\ ui' = Forget(c.slice)
  /\ calls' = Referred((calls \ {c}) \cup {[c EXCEPT !.st = "failed", !.ended = log.loads]},
                       ui'.cache, ui.runs)
  /\ log' = [log EXCEPT !.faults = @ + 1]
  /\ UNCHANGED <<page, server>>

Used(r) == {c \in calls : c.slice \in Needed(r.key) /\ r.uses[c.slice] = c.n}
Ends(r, u) ==
  LET runs == ui.runs \ {r} IN
  /\ ui' = [(IF r.live THEN u ELSE ui) EXCEPT !.runs = runs]
  /\ calls' = Referred(calls, ui.cache, runs)
  /\ UNCHANGED <<page, server, log>>

\* a status that cannot be read only means that no comparison is made
InputLoads(r) ==
  /\ page = "explorer"
  /\ \A c \in Used(r) : c.st = "ok" \/ (c.slice = Status /\ c.st = "failed")
  /\ Ends(r, [ui EXCEPT !.loading = FALSE, !.error = FALSE, !.shown = r.key])

\* the last input stays on screen
InputDoesNotLoad(r) ==
  /\ page = "explorer"
  /\ \E c \in Used(r) : c.st = "failed" /\ c.slice # Status
  /\ Ends(r, [ui EXCEPT !.loading = FALSE, !.error = TRUE])

Next ==
  \/ \E k \in Configuration : Show(k)
  \/ Refresh \/ MinutePasses
  \/ page = "explorer" /\ \E c \in calls : Answered(c) \/ Failed(c)
  \/ page = "explorer" /\ \E r \in ui.runs : InputLoads(r) \/ InputDoesNotLoad(r)

Spec == Init /\ [][Next]_vars

-----------------------------------------------------------------------------
\* The cache is transparent: a load never takes a request that had failed when
\* it began (history.ts "a failed request must not be served from the cache"),
\* nor one older than TTL, whatever entries expired, failed late or were taken
\* over meanwhile; and with no load left, the chart is drawn from data of its
\* own configuration or says that it could not be.
CacheTransparent ==
  page = "explorer" =>
    /\ \A r \in ui.runs : \A c \in Used(r) :
         /\ r.asked - c.at < TTL
         /\ c.st = "failed" => c.ended >= r.n
    /\ \A r \in ui.runs : DOMAIN r.uses = {c.slice : c \in Used(r)}
    /\ (ui.runs = {} /\ ~ui.error) => ui.shown = ui.key
=============================================================================
