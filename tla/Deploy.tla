------------------------------- MODULE Deploy -------------------------------
(* Deploying a rule from the agents page: the selection, the dialog and its  *)
(* idempotency key, and the master's handling of that key, which may crash   *)
(* at any step.  A configuration is one filling-in of one dialog; its number *)
(* is history that only properties read.                                     *)
EXTENDS Naturals, Sequences, FiniteSets

CONSTANTS Agent,         \* the agents enrolled
          MaxEdits,      \* dialogs opened and fields changed
          MaxSubmits,    \* clicks on deploy
          MaxFaults      \* failures and crashes

VARIABLES page, server, ui, calls, log
vars == <<page, server, ui, calls, log>>

Kinds == {"set_mode", "set_boolean", "chcon"}
Fields == [kind |-> "set_mode", mode |-> "permissive", name |-> "", path |-> ""]

Init ==
  /\ page = "agents"
  /\ server = [agents |-> Agent, keys |-> <<>>, deployed |-> <<>>]
  /\ ui = [agents |-> Agent, selected |-> {}, dialog |-> <<>>, permissive |-> FALSE]
  /\ calls = {}
  /\ log = [edits |-> 0, submits |-> 0, faults |-> 0, config |-> 0, key |-> 0]

-----------------------------------------------------------------------------
(* The list and the selection.                                             *)

Toggle(a) ==
  /\ page = "agents" /\ a \in ui.agents /\ ui.dialog = <<>>
  /\ ui' = [ui EXCEPT !.selected = IF a \in @ THEN @ \ {a} ELSE @ \cup {a}]
  /\ UNCHANGED <<page, server, calls, log>>

\* everything listed, or nothing when all of it is selected
ToggleAllVisible ==
  /\ page = "agents" /\ ui.dialog = <<>>
  /\ ui' = [ui EXCEPT !.selected = IF ui.agents # {} /\ ui.agents \subseteq @ THEN {} ELSE ui.agents]
  /\ UNCHANGED <<page, server, calls, log>>

\* The list is polled; what was selected stays selected.
Poll ==
  /\ page = "agents" /\ ui.agents # server.agents
  /\ ui' = [ui EXCEPT !.agents = server.agents]
  /\ UNCHANGED <<page, server, calls, log>>

AgentLeaves(a) ==
  /\ page = "agents" /\ a \in server.agents /\ log.faults < MaxFaults
  /\ server' = [server EXCEPT !.agents = @ \ {a}]
  /\ log' = [log EXCEPT !.faults = @ + 1]
  /\ UNCHANGED <<page, ui, calls>>

-----------------------------------------------------------------------------
(* The dialog.  Its key is renewed with every change of a field, so one key  *)
(* goes with one configuration.                                            *)

\* slip: the key stays when a field changes
NewKey_slip(old, new) == log.key

\* useMemo: another key when what it depends on changed
NewKey(old, new) == IF old = new THEN log.key ELSE log.key + 1

OpenDialog ==
  /\ page = "agents" /\ log.edits < MaxEdits /\ ui.dialog = <<>> /\ ui.selected # {}
  /\ ui' = [ui EXCEPT !.dialog = <<[id |-> log.edits + 1, fields |-> Fields, agents |-> ui.selected, key |-> log.key + 1,
                                    config |-> log.config + 1, submitting |-> FALSE, error |-> FALSE]>>]
  /\ log' = [log EXCEPT !.key = @ + 1, !.config = @ + 1, !.edits = @ + 1]
  /\ UNCHANGED <<page, server, calls>>

CloseDialog ==
  /\ page = "agents" /\ ui.dialog # <<>>
  /\ ui' = [ui EXCEPT !.dialog = <<>>]
  /\ UNCHANGED <<page, server, calls, log>>

\* fields can be changed while a request is under way
ChangeField(f) ==
  /\ page = "agents" /\ ui.dialog # <<>> /\ log.edits < MaxEdits
  /\ LET d == ui.dialog[1]
         k == NewKey(d.fields, f)
     IN /\ d.fields # f
        /\ Cardinality({x \in DOMAIN f : f[x] # d.fields[x]}) = 1
        /\ ui' = [ui EXCEPT !.dialog[1].fields = f, !.dialog[1].key = k,
                            !.dialog[1].config = log.config + 1]
        /\ log' = [log EXCEPT !.edits = @ + 1, !.key = k, !.config = @ + 1]
  /\ UNCHANGED <<page, server, calls>>

Payload(d) ==
  LET f == d.fields IN
  <<d.agents, f.kind, CASE f.kind = "set_mode" -> f.mode
                        [] f.kind = "set_boolean" -> f.name
                        [] f.kind = "chcon" -> f.path>>

Complete(f) == /\ f.kind = "set_boolean" => f.name # ""
               /\ f.kind = "chcon" => f.path # ""

\* from: the dialog that asks, 0 for the button
Sent(from, key, config, payload) ==
  calls' = calls \cup {[n |-> log.submits, from |-> from, key |-> key, config |-> config, payload |-> payload,
                        st |-> "sent", open |-> TRUE]}

Submit ==
  /\ page = "agents" /\ ui.dialog # <<>> /\ log.submits < MaxSubmits
  /\ ~ui.dialog[1].submitting /\ Complete(ui.dialog[1].fields)
  /\ ui' = [ui EXCEPT !.dialog[1].submitting = TRUE, !.dialog[1].error = FALSE]
  /\ Sent(ui.dialog[1].id, ui.dialog[1].key, ui.dialog[1].config, Payload(ui.dialog[1]))
  /\ log' = [log EXCEPT !.submits = @ + 1]
  /\ UNCHANGED <<page, server>>

\* the button that deploys permissive mode at once: a key per click
SetPermissive ==
  /\ page = "agents" /\ ui.selected # {} /\ ui.dialog = <<>> /\ ~ui.permissive /\ log.submits < MaxSubmits
  /\ ui' = [ui EXCEPT !.permissive = TRUE]
  /\ Sent(0, log.key + 1, log.config + 1, <<ui.selected, "set_mode", "permissive">>)
  /\ log' = [log EXCEPT !.submits = @ + 1, !.key = @ + 1, !.config = @ + 1]
  /\ UNCHANGED <<page, server>>

-----------------------------------------------------------------------------
(* The master.  keys: what each key was claimed for, and how it ended.     *)

Step(c, st) == calls' = (calls \ {c}) \cup {[c EXCEPT !.st = st]}
Claimed(k) == {r \in {server.keys[i] : i \in DOMAIN server.keys} : r.key = k}

Claim(c) ==
  /\ page = "agents" /\ c.st = "sent" /\ Claimed(c.key) = {}
  /\ server' = [server EXCEPT !.keys = Append(@, [key |-> c.key, payload |-> c.payload, st |-> "in_progress"])]
  /\ Step(c, "claimed")
  /\ UNCHANGED <<page, ui, log>>

\* slip: a key whose outcome is not known is run again
Known_slip(c) ==
  /\ page = "agents" /\ c.st = "sent" /\ Claimed(c.key) # {}
  /\ \E r \in Claimed(c.key) :
       Step(c, IF r.payload # c.payload THEN "failed" ELSE IF r.st = "ok" THEN "ok" ELSE "claimed")
  /\ UNCHANGED <<page, server, ui, log>>

\* A key seen before: replayed when completed, refused when it was used for
\* something else or is in progress.
Known(c) ==
  /\ page = "agents" /\ c.st = "sent" /\ Claimed(c.key) # {}
  /\ \E r \in Claimed(c.key) :
       Step(c, IF r.payload = c.payload /\ r.st = "ok" THEN "ok" ELSE "failed")
  /\ UNCHANGED <<page, server, ui, log>>

Execute(c) ==
  /\ page = "agents" /\ c.st = "claimed"
  /\ server' = [server EXCEPT !.deployed = Append(@, c.config)]
  /\ Step(c, "executed")
  /\ UNCHANGED <<page, ui, log>>

\* the rule cannot be created: nothing is dispatched, and the failure is kept
CannotExecute(c) ==
  /\ page = "agents" /\ c.st = "claimed" /\ log.faults < MaxFaults
  /\ Step(c, "refused")
  /\ log' = [log EXCEPT !.faults = @ + 1]
  /\ UNCHANGED <<page, server, ui>>

\* The outcome is kept for the key, then answered; keeping it may fail.
KeepOutcome(c) ==
  /\ page = "agents" /\ c.st \in {"executed", "refused"}
  /\ LET st == IF c.st = "executed" THEN "ok" ELSE "failed" IN
       /\ Step(c, st)
       /\ \/ /\ server' = [server EXCEPT !.keys =
                  [i \in DOMAIN @ |-> IF @[i].key = c.key THEN [@[i] EXCEPT !.st = st] ELSE @[i]]]
             /\ UNCHANGED log
          \/ /\ log.faults < MaxFaults
             /\ log' = [log EXCEPT !.faults = @ + 1]
             /\ UNCHANGED server
  /\ UNCHANGED <<page, ui>>

\* The master stops: requests it was handling are never answered, keys stay.
Crash ==
  /\ page = "agents" /\ log.faults < MaxFaults
  /\ \E c \in calls : c.st \in {"claimed", "executed", "refused"}
  /\ calls' = {IF c.st \in {"claimed", "executed", "refused"} THEN [c EXCEPT !.st = "failed"] ELSE c : c \in calls}
  /\ log' = [log EXCEPT !.faults = @ + 1]
  /\ UNCHANGED <<page, server, ui>>

-----------------------------------------------------------------------------
(* The answer, or the browser giving up on it while the master goes on.    *)

\* A success closes whichever dialog is open by then; a failure shows in the
\* dialog that asked.
Shown(c, ok) ==
  IF c.from = 0 THEN [ui EXCEPT !.permissive = FALSE]
  ELSE IF ok THEN [ui EXCEPT !.dialog = <<>>]
  ELSE IF ui.dialog # <<>> /\ ui.dialog[1].id = c.from
    THEN [ui EXCEPT !.dialog[1].submitting = FALSE, !.dialog[1].error = TRUE]
  ELSE ui

Answered(c) ==
  /\ page = "agents" /\ c.st \in {"ok", "failed"}
  /\ ui' = IF c.open THEN Shown(c, c.st = "ok") ELSE ui
  /\ calls' = calls \ {c}
  /\ UNCHANGED <<page, server, log>>

GivesUp(c) ==
  /\ page = "agents" /\ c.open /\ log.faults < MaxFaults
  /\ ui' = Shown(c, FALSE)
  /\ calls' = (calls \ {c}) \cup {[c EXCEPT !.open = FALSE]}
  /\ log' = [log EXCEPT !.faults = @ + 1]
  /\ UNCHANGED <<page, server>>

FieldValues ==
  [kind : Kinds, mode : {"enforcing", "permissive"}, name : {"", "a"}, path : {"", "a"}]

Next ==
  \/ \E a \in Agent : Toggle(a) \/ AgentLeaves(a)
  \/ ToggleAllVisible \/ Poll \/ OpenDialog \/ CloseDialog \/ Submit \/ SetPermissive \/ Crash
  \/ \E f \in FieldValues : ChangeField(f)
  \/ \E c \in calls : \/ Claim(c) \/ Known(c) \/ Execute(c) \/ CannotExecute(c) \/ KeepOutcome(c)
                      \/ Answered(c) \/ GivesUp(c)

Spec == Init /\ [][Next]_vars

-----------------------------------------------------------------------------
\* A configuration is deployed at most once, however often it is submitted and
\* whatever is lost: a retry after an ambiguous failure, a crash of the master
\* or an outcome that was not kept (DeployRuleDialog.tsx "stable across retries
\* of the same configured request"; api.go "runs exactly once per idempotency
\* key").
DeployedOnce ==
  page = "agents" =>
    \A i, j \in DOMAIN server.deployed : server.deployed[i] = server.deployed[j] => i = j

\* The master is never handed a key it knows for another request: whatever is
\* changed, and changed back, while earlier requests are under way, failed or were
\* given up (DeployRuleDialog.tsx "regenerated as soon as they change any field").
KeyMeansPayload ==
  page = "agents" =>
    \A c \in calls : \A r \in Claimed(c.key) : r.payload = c.payload
=============================================================================
