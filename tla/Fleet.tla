-------------------------------- MODULE Fleet --------------------------------
(* What the console says of the fleet: the compliance page and the           *)
(* dashboard's widgets, both redrawn from polled lists of agents and open    *)
(* alerts that are read at two instants.  A fleet is a sequence of agents;   *)
(* an agent is what the checks tell apart.                                   *)
EXTENDS Listing, Sequences, FiniteSetsExt

CONSTANTS Profiles,     \* agents: mode, connected, targeted, alerts, the two versions
          FleetSize,    \* at most so many
          AlertLimit,   \* open alerts one request returns (500)
          MaxPolls      \* polls in flight

VARIABLES page, server, ui, calls, log
vars == <<page, server, ui, calls, log>>

Indices(fleet, P(_)) == {i \in DOMAIN fleet : P(fleet[i])}
Count(fleet, P(_)) == Cardinality(Indices(fleet, P))
\* Math.round(a / b), of naturals
RoundDiv(a, b) == (2 * a + b) \div (2 * b)

-----------------------------------------------------------------------------
(* lib/compliance.ts.                                                      *)

Checks == {"enforcing", "connected", "policy", "no_open_alerts"}

\* alerted: agents with an alert among those fetched
Check(id, fleet, i, alerted) ==
  LET a == fleet[i]
      Verdict(ok) == IF ok THEN "pass" ELSE "fail"
  IN CASE id = "enforcing" -> IF a.mode = "unknown" THEN "unknown" ELSE Verdict(a.mode = "enforcing")
       [] id = "connected" -> Verdict(a.connected)
       [] id = "policy" -> IF a.mode = "unknown" THEN "unknown" ELSE Verdict(a.targeted)
       [] id = "no_open_alerts" -> Verdict(i \notin alerted)

Score(fleet, i, alerted) ==
  LET status(s) == {id \in Checks : Check(id, fleet, i, alerted) = s}
      applicable == Cardinality(Checks \ status("unknown"))
  IN RoundDiv(100 * Cardinality(status("pass")), applicable)

FleetScore(fleet, alerted) ==
  IF fleet = <<>> THEN 100
  ELSE RoundDiv(SumFunction([i \in DOMAIN fleet |-> Score(fleet, i, alerted)]), Len(fleet))

-----------------------------------------------------------------------------
(* lib/attention.ts.                                                       *)

NoMajority == "no majority"

\* slip: one of several equally common values is taken for the majority
Majority_slip(values) ==
  LET used == Range(values) \ {""}
      n(v) == Count(values, LAMBDA w : w = v)
      top == {v \in used : \A w \in used : n(w) <= n(v)}
  IN IF Cardinality(used) < 2 THEN NoMajority ELSE CHOOSE v \in top : TRUE

\* The value more agents share than any other, when at least two are in use.
Majority(values) ==
  LET used == Range(values) \ {""}
      n(v) == Count(values, LAMBDA w : w = v)
      top == {v \in used : \A w \in used : n(w) <= n(v)}
  IN IF Cardinality(used) < 2 \/ Cardinality(top) # 1 THEN NoMajority ELSE CHOOSE v \in top : TRUE

Versions(fleet) == [i \in DOMAIN fleet |-> fleet[i].version]
PolicyVersions(fleet) == [i \in DOMAIN fleet |-> fleet[i].policyVersion]

\* a known value, and not that of the majority
Minority(values, i) == Majority(values) # NoMajority /\ values[i] \notin {"", Majority(values)}

Reasons(fleet, i) ==
  LET a == fleet[i]
  IN (IF a.connected THEN {} ELSE {"offline"})
       \cup (CASE a.mode \in {"disabled", "unknown"} -> {"disabled"}
               [] a.mode = "permissive" -> {"permissive"}
               [] OTHER -> {})
       \cup (IF Minority(PolicyVersions(fleet), i) THEN {"policyMismatch"} ELSE {})
       \cup (IF Minority(Versions(fleet), i) THEN {"outdated"} ELSE {})

NeedAttention(fleet) == {i \in DOMAIN fleet : Reasons(fleet, i) # {}}

\* most urgent first; agents are listed by name among equals
Urgency == <<"offline", "disabled", "permissive", "policyMismatch", "outdated">>
Rank(fleet, i) == Min({k \in DOMAIN Urgency : Urgency[k] \in Reasons(fleet, i)})
AgentsNeedingAttention(fleet) ==
  ListedBy(NeedAttention(fleet), LAMBDA i, j :
    \/ Rank(fleet, i) < Rank(fleet, j)
    \/ Rank(fleet, i) = Rank(fleet, j) /\ i < j)

-----------------------------------------------------------------------------
(* The widgets drawn from the lists: counts, and lists cut at their limit. *)

\* the widget counts all in its title and lists the first
AttentionAgents(fleet, limit) ==
  LET flagged == AgentsNeedingAttention(fleet) IN
  [count |-> Len(flagged), rows |-> SubSeq(flagged, 1, Min({limit, Len(flagged)}))]

Online(fleet) == Count(fleet, LAMBDA a : a.connected)

\* slip: agents of unknown mode are not counted as disabled
StatEnforcing_slip(fleet) ==
  [enforcing  |-> Count(fleet, LAMBDA a : a.mode = "enforcing"),
   permissive |-> Count(fleet, LAMBDA a : a.mode = "permissive"),
   disabled   |-> Count(fleet, LAMBDA a : a.mode = "disabled")]

StatEnforcing(fleet) ==
  [enforcing  |-> Count(fleet, LAMBDA a : a.mode = "enforcing"),
   permissive |-> Count(fleet, LAMBDA a : a.mode = "permissive"),
   disabled   |-> Count(fleet, LAMBDA a : a.mode \in {"disabled", "unknown"})]

AgentsByMode(fleet) ==
  [m \in {"enforcing", "permissive", "disabled", "unknown"} |->
     IF m = "unknown" THEN Count(fleet, LAMBDA a : a.mode \notin {"enforcing", "permissive", "disabled"})
     ELSE Count(fleet, LAMBDA a : a.mode = m)]

\* one bar per check, over the agents it applies to
ComplianceBars(fleet, alerted) ==
  [id \in Checks |->
     LET with(S) == Cardinality({i \in DOMAIN fleet : Check(id, fleet, i, alerted) \in S})
     IN [value |-> with({"pass"}), total |-> with({"pass", "fail"})]]

\* width of a bar, in percent
BarWidth(value, total) ==
  IF total = 0 THEN 0 ELSE RoundDiv(100 * value, total)

-----------------------------------------------------------------------------
(* Polling.  The newest AlertLimit alerts come back; the agents listed last  *)
(* are taken to have the newest.                                             *)

Alerted(fleet) ==
  {i \in DOMAIN fleet : fleet[i].alerts
     /\ Cardinality({j \in i..Len(fleet) : fleet[j].alerts}) <= AlertLimit}

\* the number of open alerts that the same answer tells, one per agent here
OpenAlerts(fleet) == Count(fleet, LAMBDA a : a.alerts)

Init ==
  /\ page \in {"compliance", "widgets"}
  /\ server = <<>>
  /\ ui = [agents |-> <<>>, alerted |-> {}, total |-> 0, error |-> FALSE]
  /\ calls = {[st |-> "sent", agents |-> <<>>, alerted |-> {}, total |-> 0]}
  /\ log = {}

Enroll(a) ==
  /\ page \in {"compliance", "widgets"} /\ Len(server) < FleetSize
  /\ server' = Append(server, a)
  /\ UNCHANGED <<page, ui, calls, log>>

\* every 5 s, whether or not the last answers have come
Poll ==
  /\ page \in {"compliance", "widgets"} /\ Cardinality(calls) < MaxPolls
  /\ calls' = calls \cup {[st |-> "sent", agents |-> <<>>, alerted |-> {}, total |-> 0]}
  /\ UNCHANGED <<page, server, ui, log>>

AgentsRead(c) ==
  /\ page \in {"compliance", "widgets"} /\ c.st = "sent"
  /\ calls' = (calls \ {c}) \cup {[c EXCEPT !.st = "half", !.agents = server]}
  /\ UNCHANGED <<page, server, ui, log>>

AlertsRead(c) ==
  /\ page \in {"compliance", "widgets"} /\ c.st = "half"
  /\ calls' = (calls \ {c}) \cup {[c EXCEPT !.st = "ok", !.alerted = Alerted(server), !.total = OpenAlerts(server)]}
  /\ UNCHANGED <<page, server, ui, log>>

\* Promise.all: all the lists are set, or none and the error is shown
ComplianceLoads(c) ==
  /\ page = "compliance" /\ c.st = "ok"
  /\ ui' = [agents |-> c.agents, alerted |-> c.alerted, total |-> c.total, error |-> FALSE]
  /\ calls' = calls \ {c}
  /\ UNCHANGED <<page, server, log>>

WidgetsLoad(c) ==
  /\ page = "widgets" /\ c.st = "ok"
  /\ ui' = [agents |-> c.agents, alerted |-> c.alerted, total |-> c.total, error |-> FALSE]
  /\ calls' = calls \ {c}
  /\ UNCHANGED <<page, server, log>>

PollFails(c) ==
  /\ page \in {"compliance", "widgets"} /\ c.st \in {"sent", "half"}
  /\ ui' = [ui EXCEPT !.error = TRUE]
  /\ calls' = calls \ {c}
  /\ UNCHANGED <<page, server, log>>

Next ==
  \/ \E a \in Profiles : Enroll(a)
  \/ Poll
  \/ \E c \in calls : \/ AgentsRead(c) \/ AlertsRead(c) \/ PollFails(c)
                      \/ ComplianceLoads(c) \/ WidgetsLoad(c)

Spec == Init /\ [][Next]_vars

-----------------------------------------------------------------------------
\* The console does not contradict itself about an agent it draws: one at 100 %
\* is never listed as offline or permissive, and as disabled only when nothing
\* was heard of its mode; and whoever is called outdated, or on another policy,
\* has a version that fewer agents have than the common one (attention.ts: "an
\* exact split has no majority to compare against, so nobody gets singled out").
OneVerdictPerAgent ==
  page \in {"compliance", "widgets"} =>
    \A i \in DOMAIN ui.agents :
      LET why == Reasons(ui.agents, i)
          Outnumbered(values) ==
            LET like(v) == Count(values, LAMBDA w : w = v) IN
            \E v \in Range(values) \ {""} : like(v) > like(values[i])
      IN /\ Score(ui.agents, i, ui.alerted) = 100 =>
              /\ {"offline", "permissive"} \cap why = {}
              /\ "disabled" \in why => ui.agents[i].mode = "unknown"
         /\ "outdated" \in why => Outnumbered(Versions(ui.agents))
         /\ "policyMismatch" \in why => Outnumbered(PolicyVersions(ui.agents))

\* The widgets drawn from one answer add up: the modes partition the agents, the
\* two mode widgets agree, and the bars of the checks never exceed their totals
\* nor lose an agent that answered; full bars mean a score of 100 (the converse
\* fails for large fleets, whose score is rounded).  The attention list, cut
\* anywhere, hides nobody as long as the widgets count an agent offline or not
\* enforcing that it could show; and as long as no more alerts are open than
\* one request returns, every agent with one fails its bar.
WidgetsAgree ==
  page = "widgets" =>
    LET fleet == ui.agents
        by == AgentsByMode(fleet)
        stat == StatEnforcing(fleet)
        bars == ComplianceBars(fleet, ui.alerted)
    IN /\ SumFunction(by) = Len(fleet)
       /\ stat.enforcing + stat.permissive + stat.disabled = Len(fleet)
       /\ stat.disabled = by["disabled"] + by["unknown"]
       /\ bars["enforcing"].value = by["enforcing"]
       /\ bars["enforcing"].total = Len(fleet) - by["unknown"]
       /\ bars["connected"].value = Online(fleet)
       /\ LET failing == bars["no_open_alerts"].total - bars["no_open_alerts"].value IN
            /\ failing <= ui.total
            /\ ui.total <= AlertLimit => failing = OpenAlerts(fleet)
       /\ (\A id \in Checks : bars[id].value = bars[id].total) => FleetScore(fleet, ui.alerted) = 100
       /\ \A id \in Checks : BarWidth(bars[id].value, bars[id].total) <= 100
       /\ \A limit \in 0..FleetSize :
            LET list == AttentionAgents(fleet, limit)
                offline == Len(fleet) - Online(fleet)
                shown == {i \in Range(list.rows) : ~fleet[i].connected}
            IN /\ list.count >= offline /\ list.count >= Len(fleet) - stat.enforcing
               /\ Cardinality(shown) = Min({limit, offline})
=============================================================================
