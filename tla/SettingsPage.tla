---------------------------- MODULE SettingsPage ----------------------------
(* The integrations page and the master's handlers behind it.  A setting is  *)
(* whether its connector is enabled and its secret, "" for none; the other   *)
(* fields go with these.  The master saves in steps (carry the old secret    *)
(* over, store, read all the settings back, replace the connectors), and the *)
(* two integrations are saved independently.  log is history that only       *)
(* properties read: typed, what was typed as a secret; unread, the           *)
(* integrations saved without their old secret because it could not be read; *)
(* stale, those whose rebuild has read what another save replaced since; and *)
(* outdated, whether the last rebuild to end was such a one, or failed.      *)
EXTENDS Naturals, FiniteSets

CONSTANTS Integration, Secrets, MaxMoves, MaxFaults

VARIABLES page, server, ui, calls, log
vars == <<page, server, ui, calls, log>>

Form(enabled) == [enabled |-> enabled, typed |-> "", busy |-> FALSE, saved |-> FALSE]
Stored == server.stored
Enabled(stored) == {i \in Integration : stored[i].enabled}

Req(kind, i, enabled, secret) ==
  [kind |-> kind, i |-> i, st |-> "sent", enabled |-> enabled, secret |-> secret, seen |-> {}]

Init ==
  /\ page = "settings"
  /\ \E enabled \in SUBSET Integration :
       server = [stored |-> [i \in Integration |-> [enabled |-> i \in enabled, secret |-> "old"]],
                 sources |-> enabled]
  /\ ui = [loaded |-> FALSE, form |-> [i \in Integration |-> Form(FALSE)], error |-> FALSE]
  /\ calls = {Req("get", CHOOSE i \in Integration : TRUE, FALSE, "")}
  /\ log = [moves |-> 0, faults |-> 0, typed |-> {}, unread |-> {}, stale |-> {}, outdated |-> FALSE]

Moves == page = "settings" /\ ui.loaded /\ log.moves < MaxMoves
Moved == [log EXCEPT !.moves = @ + 1]
Step(c, st) == calls' = (calls \ {c}) \cup {[c EXCEPT !.st = st]}

-----------------------------------------------------------------------------
(* The page.  Fields can be edited while a request is out.                 *)

SetEnabled(i) ==
  /\ Moves /\ log' = Moved
  /\ ui' = [ui EXCEPT !.form[i].enabled = ~@]
  /\ UNCHANGED <<page, server, calls>>

\* A field made empty holds no secret.
TypeSecret(i, s) ==
  /\ Moves /\ log' = [Moved EXCEPT !.typed = @ \cup ({<<i, s>>} \ {<<i, "">>})]
  /\ ui' = [ui EXCEPT !.form[i].typed = s]
  /\ UNCHANGED <<page, server, calls>>

\* "Test the connection", and "save": an untyped secret is sent as ""
Press(kind, i) ==
  /\ Moves /\ ~ui.form[i].busy
  /\ ui' = [ui EXCEPT !.form[i].busy = TRUE, !.form[i].saved = @ /\ kind = "test"]
  /\ calls' = calls \cup {Req(kind, i, ui.form[i].enabled, ui.form[i].typed)}
  /\ log' = Moved
  /\ UNCHANGED <<page, server>>

\* What is stored, at mount and after a save; secrets are not sent back.
\* Without it at mount there is no form, and no retry.
SettingsLoad(c) ==
  /\ page = "settings" /\ c.kind = "get" /\ c.st \in {"ok", "failed"}
  /\ ui' = IF c.st = "failed" THEN [ui EXCEPT !.error = TRUE]
           ELSE [ui EXCEPT !.loaded = TRUE, !.error = FALSE,
                           !.form = [i \in Integration |-> [@[i] EXCEPT !.enabled = i \in c.seen]]]
  /\ calls' = calls \ {c}
  /\ UNCHANGED <<page, server, log>>

TestAnswered(c) ==
  /\ page = "settings" /\ c.kind = "test" /\ c.st \in {"ok", "failed"}
  /\ ui' = [ui EXCEPT !.form[c.i].busy = FALSE]
  /\ calls' = calls \ {c}
  /\ UNCHANGED <<page, server, log>>

\* Saved: the secret's field is emptied, and the settings are read again.
SaveAnswered(c) ==
  /\ page = "settings" /\ c.kind = "save" /\ c.st \in {"ok", "failed"}
  /\ IF c.st = "ok"
       THEN /\ ui' = [ui EXCEPT !.form[c.i].typed = ""]
            /\ calls' = (calls \ {c}) \cup {Req("reread", c.i, FALSE, "")}
       ELSE /\ ui' = [ui EXCEPT !.form[c.i].busy = FALSE, !.error = TRUE]
            /\ calls' = calls \ {c}
  /\ UNCHANGED <<page, server, log>>

Reread(c) ==
  /\ page = "settings" /\ c.kind = "reread" /\ c.st \in {"ok", "failed"}
  /\ LET u == [ui EXCEPT !.form[c.i].busy = FALSE] IN
       ui' = IF c.st = "failed" THEN [u EXCEPT !.error = TRUE]
             ELSE [u EXCEPT !.form[c.i].enabled = c.i \in c.seen, !.form[c.i].saved = TRUE, !.error = FALSE]
  /\ calls' = calls \ {c}
  /\ UNCHANGED <<page, server, log>>

-----------------------------------------------------------------------------
(* The master.                                                             *)

GetIntegrations(c) ==
  /\ page = "settings" /\ c.kind \in {"get", "reread"} /\ c.st = "sent"
  /\ calls' = (calls \ {c}) \cup {[c EXCEPT !.st = "ok", !.seen = Enabled(Stored)]}
  /\ UNCHANGED <<page, server, ui, log>>

\* slip: an untyped secret is stored as none
Carried_slip(c) == c.secret

\* an empty secret stands for the one stored
Carried(c) == IF c.secret = "" THEN Stored[c.i].secret ELSE c.secret

\* The secret to use.  One that cannot be read is taken to be none.
ResolveConfig(c) ==
  /\ page = "settings" /\ c.kind \in {"save", "test"} /\ c.st = "sent"
  /\ \/ calls' = (calls \ {c}) \cup {[c EXCEPT !.st = "resolved", !.secret = Carried(c)]} /\ UNCHANGED log
     \/ c.secret = "" /\ log.faults < MaxFaults /\ Step(c, "resolved")
          /\ log' = [log EXCEPT !.faults = @ + 1,
                                !.unread = IF c.kind = "save" THEN @ \cup {c.i} ELSE @]
  /\ UNCHANGED <<page, server, ui>>

\* the connector answers or not; either way the outcome is an answer
Ping(c) ==
  /\ page = "settings" /\ c.kind = "test" /\ c.st = "resolved"
  /\ Step(c, "ok")
  /\ UNCHANGED <<page, server, ui, log>>

\* the integrations whose rebuild has begun to read and not replaced yet
Reading == {c.i : c \in {d \in calls : d.kind = "save" /\ d.st \in {"half read", "read"}}}

UpsertIntegrationSetting(c) ==
  /\ page = "settings" /\ c.kind = "save" /\ c.st = "resolved"
  /\ server' = [server EXCEPT !.stored[c.i] = [enabled |-> c.enabled, secret |-> c.secret]]
  /\ Step(c, "stored")
  /\ log' = [log EXCEPT !.stale = @ \cup Reading]
  /\ UNCHANGED <<page, ui>>

\* The setting cannot be stored: the save is answered as failed.
CannotStore(c) ==
  /\ page = "settings" /\ c.kind = "save" /\ c.st = "resolved" /\ log.faults < MaxFaults
  /\ Step(c, "failed")
  /\ log' = [log EXCEPT !.faults = @ + 1]
  /\ UNCHANGED <<page, server, ui>>

\* RebuildCorrelateRegistry reads one setting, then the other, then replaces
\* the connectors by those enabled.
ReadFirst(c) ==
  /\ page = "settings" /\ c.kind = "save" /\ c.st = "stored"
  /\ calls' = (calls \ {c}) \cup
       {[c EXCEPT !.st = "half read", !.seen = Enabled(Stored) \cap {"siem"}]}
  /\ log' = [log EXCEPT !.stale = @ \ {c.i}]
  /\ UNCHANGED <<page, server, ui>>

\* slip: the second setting is read but not used
ReadSecond_slip(c) ==
  /\ page = "settings" /\ c.kind = "save" /\ c.st = "half read"
  /\ Step(c, "read")
  /\ UNCHANGED <<page, server, ui, log>>

ReadSecond(c) ==
  /\ page = "settings" /\ c.kind = "save" /\ c.st = "half read"
  /\ calls' = (calls \ {c}) \cup
       {[c EXCEPT !.st = "read", !.seen = @ \cup (Enabled(Stored) \ {"siem"})]}
  /\ UNCHANGED <<page, server, ui, log>>

SetSources(c) ==
  /\ page = "settings" /\ c.kind = "save" /\ c.st = "read"
  /\ server' = [server EXCEPT !.sources = c.seen]
  /\ Step(c, "ok")
  /\ log' = [log EXCEPT !.outdated = c.i \in log.stale]
  /\ UNCHANGED <<page, ui>>

\* A setting that cannot be read leaves the connectors as they were; the save
\* is answered as done.
CannotRebuild(c) ==
  /\ page = "settings" /\ c.st \in {"stored", "half read"} /\ log.faults < MaxFaults
  /\ Step(c, "ok")
  /\ log' = [log EXCEPT !.faults = @ + 1, !.outdated = TRUE]
  /\ UNCHANGED <<page, server, ui>>

\* The request is lost or refused (a setting enabled without its address), or
\* its answer is lost after all was done.
Refused(c) ==
  /\ page = "settings" /\ c.st \in {"sent", "ok"} /\ log.faults < MaxFaults
  /\ Step(c, "failed")
  /\ log' = [log EXCEPT !.faults = @ + 1]
  /\ UNCHANGED <<page, server, ui>>

Next ==
  \/ \E i \in Integration : \/ SetEnabled(i) \/ Press("test", i) \/ Press("save", i)
                            \/ \E s \in Secrets : TypeSecret(i, s)
  \/ \E c \in calls : \/ SettingsLoad(c) \/ TestAnswered(c) \/ SaveAnswered(c) \/ Reread(c)
                      \/ GetIntegrations(c) \/ ResolveConfig(c) \/ Ping(c) \/ Refused(c)
                      \/ UpsertIntegrationSetting(c) \/ CannotStore(c) \/ ReadFirst(c)
                      \/ ReadSecond(c) \/ SetSources(c) \/ CannotRebuild(c)

Spec == Init /\ [][Next]_vars

-----------------------------------------------------------------------------
\* A stored secret is only ever replaced by one typed for that integration,
\* however often the settings are saved with its field left, or made, empty
\* (integrations.go: "keep whatever is already stored"), and whatever was
\* refused or lost; but a save that could not read the old one stores none.
SecretKept ==
  [][ page = "settings" =>
        \A i \in Integration :
          server'.stored[i].secret # server.stored[i].secret
            => \/ <<i, server'.stored[i].secret>> \in log.typed
               \/ i \in log.unread /\ server'.stored[i].secret = "" ]_vars

\* At rest the connectors in use are those enabled in the settings
\* (integrations.go: "saving a connector from the dashboard takes effect
\* immediately"), whichever saves overlapped and whatever was refused or lost;
\* unless the last rebuild to end failed, or had begun to read before the other
\* setting was stored and overtook the rebuild that knew of it.
SourcesFollow ==
  (page = "settings" /\ calls = {} /\ ~log.outdated) => server.sources = Enabled(Stored)
=============================================================================
