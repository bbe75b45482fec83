--------------------------- MODULE DeploymentsPage ---------------------------
(* The deployments list and its revert buttons.  What the master holds is    *)
(* the undo state of each command: none yet, under way on the machine, done  *)
(* (the entry is gone).  A command undone on its machine takes time; one     *)
(* that is only a record goes at once; the others offer no undo.             *)
EXTENDS Loads

CONSTANTS Machine, RecordOnly, Final,   \* commands by what their undo does
          Filters, MaxMoves,            \* what the operator does, at most
          Slow                      \* whether an answer may take longer than a refresh

Command == Machine \cup RecordOnly \cup Final
NothingUndone == [c \in Command |-> "listed"]
Query(u) == <<u.filter, u.offset>>

Effect(u) ==
  /\ ui' = [u EXCEPT !.loading = TRUE]
  /\ calls' = Cancelled(calls) \cup {Ask(Query(u), NothingUndone)}

Init ==
  /\ page = "deployments"
  /\ server = [v |-> NothingUndone]
  /\ log = [faults |-> 0, moves |-> 0]
  /\ LET f == CHOOSE f \in Filters : TRUE IN
       /\ ui = [filter |-> f, offset |-> 0, q |-> <<f, 0>>, rows |-> NothingUndone,
                loaded |-> FALSE, loading |-> TRUE, error |-> FALSE, busy |-> {}]
       /\ calls = {Ask(<<f, 0>>, NothingUndone)}

\* slip: the refresh goes on only while every entry is being undone
AnyRevertPending_slip == ui.loaded /\ \A c \in Command : ui.rows[c] = "pending"

AnyRevertPending == ui.loaded /\ \E c \in Command : ui.rows[c] = "pending"

\* Every 2 s while an undo is shown under way.
RevertTick ==
  /\ page = "deployments" /\ AnyRevertPending /\ Room
  /\ Slow \/ ~\E c \in Loading(calls) : c.live
  /\ Effect(ui)
  /\ UNCHANGED <<page, server, log>>

Loaded(c) ==
  /\ page = "deployments" /\ c \in Loading(calls) /\ c.st = "ok"
  /\ ui' = IF ~c.live THEN ui
           ELSE [ui EXCEPT !.rows = c.v, !.q = c.q, !.loaded = TRUE, !.error = FALSE, !.loading = FALSE]
  /\ calls' = calls \ {c}
  /\ UNCHANGED <<page, server, log>>

NotLoaded(c) ==
  /\ page = "deployments" /\ c \in Loading(calls) /\ c.st = "failed"
  /\ ui' = IF ~c.live THEN ui ELSE [ui EXCEPT !.error = TRUE, !.loading = FALSE]
  /\ calls' = calls \ {c}
  /\ UNCHANGED <<page, server, log>>

\* a new filter: first with the old offset, given up at once for the first page
SetFilter(f) ==
  /\ page = "deployments" /\ Room /\ f # ui.filter /\ log.moves < MaxMoves
  /\ IF ui.offset = 0 THEN Effect([ui EXCEPT !.filter = f])
     ELSE /\ ui' = [ui EXCEPT !.filter = f, !.offset = 0, !.loading = TRUE]
          /\ calls' = Cancelled(calls \cup {Ask(<<f, ui.offset>>, NothingUndone)})
                        \cup {Ask(<<f, 0>>, NothingUndone)}
  /\ log' = [log EXCEPT !.moves = @ + 1]
  /\ UNCHANGED <<page, server>>

Turn ==
  /\ page = "deployments" /\ Room /\ ui.loaded /\ log.moves < MaxMoves
  /\ Effect([ui EXCEPT !.offset = 1 - @])
  /\ log' = [log EXCEPT !.moves = @ + 1]
  /\ UNCHANGED <<page, server>>

-----------------------------------------------------------------------------
(* RevertButton.  A row shown under way, or gone, has no button.           *)

Offered(c) == ui.loaded /\ ui.rows[c] = "listed" /\ c \notin Final /\ c \notin ui.busy

Undo(c) ==
  /\ page = "deployments" /\ Offered(c) /\ Room /\ log.moves < MaxMoves
  /\ ui' = [ui EXCEPT !.busy = @ \cup {c}]
  /\ calls' = calls \cup {Request("undo", <<c, 0>>, NothingUndone)}
  /\ log' = [log EXCEPT !.moves = @ + 1]
  /\ UNCHANGED <<page, server>>

\* The master starts the undo, drops the record, or refuses: already undone.
TakeUndo(r) ==
  /\ page = "deployments" /\ r \in calls /\ r.kind = "undo" /\ r.st = "sent"
  /\ LET c == r.q[1] IN
       IF server.v[c] = "listed"
         THEN /\ server' = [server EXCEPT !.v[c] = IF c \in Machine THEN "pending" ELSE "gone"]
              /\ calls' = (calls \ {r}) \cup {[r EXCEPT !.st = "ok"]}
         ELSE /\ calls' = (calls \ {r}) \cup {[r EXCEPT !.st = "failed"]}
              /\ UNCHANGED server
  /\ UNCHANGED <<page, ui, log>>

\* onChanged reloads, a failure shows on the button
UndoAnswered(r) ==
  /\ page = "deployments" /\ r \in calls /\ r.kind = "undo" /\ r.st \in {"ok", "failed"}
  /\ LET u == [ui EXCEPT !.busy = @ \ {r.q[1]}] IN
       IF r.st = "failed" THEN ui' = u /\ calls' = calls \ {r}
       ELSE /\ ui' = [u EXCEPT !.loading = TRUE]
            /\ calls' = Cancelled(calls \ {r}) \cup {Ask(Query(ui), NothingUndone)}
  /\ UNCHANGED <<page, server, log>>

\* The agent confirms the undo, and the master drops the entry.
AgentConfirms(c) ==
  /\ page = "deployments" /\ server.v[c] = "pending"
  /\ server' = [server EXCEPT !.v[c] = "gone"]
  /\ UNCHANGED <<page, ui, calls, log>>

\* the undo fails on the machine: the entry can be undone again
AgentRefuses(c) ==
  /\ page = "deployments" /\ server.v[c] = "pending" /\ log.faults < MaxFaults
  /\ server' = [server EXCEPT !.v[c] = "listed"]
  /\ log' = [log EXCEPT !.faults = @ + 1]
  /\ UNCHANGED <<page, ui, calls>>

\* another operator undoes it
OtherUndo(c) ==
  /\ page = "deployments" /\ c \in Machine /\ server.v[c] = "listed"
  /\ server' = [server EXCEPT !.v[c] = "pending"]
  /\ UNCHANGED <<page, ui, calls, log>>

Next ==
  \/ \E c \in calls : \/ Answer("deployments", c) \/ Fail("deployments", c)
                      \/ Loaded(c) \/ NotLoaded(c) \/ TakeUndo(c) \/ UndoAnswered(c)
  \/ \E f \in Filters : SetFilter(f)
  \/ \E c \in Command : Undo(c) \/ AgentConfirms(c) \/ AgentRefuses(c) \/ OtherUndo(c)
  \/ RevertTick \/ Turn

\* The interval fires, the master answers, requests come to an end, and an
\* agent asked for an undo answers.
Reads == \E c \in calls : Answer("deployments", c)
Shows == \E c \in calls : Loaded(c) \/ NotLoaded(c)
Ends == \/ \E c \in calls : TakeUndo(c) \/ UndoAnswered(c)
        \/ \E c \in Command : AgentConfirms(c)
Fairness == WF_vars(RevertTick) /\ WF_vars(Reads) /\ WF_vars(Shows) /\ WF_vars(Ends)

Spec == Init /\ [][Next]_vars
FairSpec == Spec /\ Fairness

-----------------------------------------------------------------------------
\* Rows of this filter and page are not replaced by those of another one, nor
\* does an older answer bring back a command that was shown undone.
DeploymentsNeverGoBack ==
  [][ (page = "deployments" /\ ui.loaded /\ Query(ui') = Query(ui) /\ ui.q = Query(ui))
        => /\ ui'.q = ui.q
           /\ \A c \in Command : ui.rows[c] = "gone" => ui'.rows[c] = "gone" ]_vars

\* An undo shown under way does not stay: once the agent confirmed or refused
\* it the screen says so, whatever the operator looked at meanwhile, as long as
\* the master answers within an interval (Deployments.tsx: "keep refreshing so the entry
\* disappears as soon as the agent confirms it").
UndoneLeaves ==
  \A c \in Command : []<>(page = "deployments" => ui.rows[c] # "pending")
=============================================================================
