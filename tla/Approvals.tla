----------------------------- MODULE Approvals -----------------------------
(***************************************************************************)
(* A policy module that audit2allow suggests, from the operator who asks   *)
(* for it to its installation: RequestModuleSuggestion makes a command for *)
(* the agent and then a row to follow it (server/dispatch.go); the answer  *)
(* completes the row (server/server.go); operators approve it, which       *)
(* installs the module on the machines they picked, or reject it           *)
(* (api/api.go).  The rows are `suggested_modules` and `commands`          *)
(* (store/postgres), one statement per step.                               *)
(*                                                                         *)
(* All of it is about one module name.  What Commands has in small steps   *)
(* is one step here: a command is inserted, handed to the agent if there   *)
(* is one and marked sent, or the mark fails.  A message, an answer or a   *)
(* handler that is lost with its stream is one whose turn never comes.     *)
(* Premises: the update of an acknowledged command and the two reads of    *)
(* moduleAlreadyThere succeed, and nobody deletes a command's entry.       *)
(***************************************************************************)
EXTENDS Integers, FiniteSets

CONSTANTS
  NoMachine,    \* none of the machines
  Machines,     \* agents a suggestion is asked for and installed on
  Requesters,   \* requests for a suggestion that may be under way at a time
  Operators,    \* approvals that may be under way at a time
  MaxCommands,  \* bound: commands ever inserted, and rows of suggestions
  MaxAsked,     \* bound: a suggestion is asked for while there were fewer of them
  Copies        \* bound: times a command is handed to its agent, by kind

ASSUME MachineAssumption == NoMachine \notin Machines
ASSUME ApprovalBounds ==
  /\ MaxCommands \in Nat \ {0} /\ MaxAsked \in 1..MaxCommands
  /\ Copies \in [{"suggest", "install"} -> Nat \ {0}]

Id  == 1..MaxCommands
Row == 1..MaxCommands

VARIABLES
  command,     \* the commands table, in order of created_at
  suggestion,  \* the suggested_modules table, likewise
  ask,         \* a request for a suggestion, between two of its statements
  review,      \* an approval, between two of its statements
  copies,      \* how often a command was handed over
  mail,        \* how many of its messages are on their way to the agent
  answers,     \* how many answers of each kind are on their way back
  completing,  \* likewise, the command updated and the suggestion not yet
  installed,   \* the machines that have the module
  listed,      \* those whose last inventory has it (selinux_state)
  generated,   \* history: successful answers applied to a row
  moot,        \* history: rows approved when every pick had the module
  cut          \* history: rows whose approval was cut short

vars == <<command, suggestion, ask, review, copies, mail, answers, completing,
          installed, listed, generated, moot, cut>>

Command == [kind : {"none", "suggest", "install"}, on : Machines \cup {NoMachine}, of : 0..MaxCommands,
            status : {"none", "pending", "sent", "acked", "failed"}]
Status  == {"none", "generating", "pending", "failed", "approved", "rejected"}
Answer  == [id : Id, ok : BOOLEAN]

TypeOK ==
  /\ command \in [Id -> Command]
  /\ suggestion \in [Row -> [of : 0..MaxCommands, status : Status]]
  /\ \A s \in Row : suggestion[s].status # "none" => suggestion[s].of # 0
  /\ ask \in [Requesters -> [step : {"no", "dispatch", "record"}, on : Machines \cup {NoMachine}, id : 0..MaxCommands]]
  /\ review \in [Operators -> [step : {"no", "claim", "check", "install"}, id : 0..MaxCommands,
                               todo : SUBSET Machines, at : Machines \cup {NoMachine},
                               sent : BOOLEAN, failed : BOOLEAN]]
  /\ copies \in [Id -> Nat] /\ mail \in [Id -> Nat]
  /\ answers \in [Answer -> Nat] /\ completing \in [Answer -> Nat]
  /\ installed \subseteq Machines /\ listed \subseteq Machines
  /\ moot \subseteq Row /\ cut \subseteq Row
  /\ generated \in [Row -> Nat]

NoAsk    == [step |-> "no", on |-> NoMachine, id |-> 0]
NoReview == [step |-> "no", id |-> 0, todo |-> {}, at |-> NoMachine, sent |-> FALSE, failed |-> FALSE]

Init ==
  /\ command = [c \in Id |-> [kind |-> "none", on |-> NoMachine, of |-> 0, status |-> "none"]]
  /\ suggestion = [s \in Row |-> [of |-> 0, status |-> "none"]]
  /\ ask = [q \in Requesters |-> NoAsk] /\ review = [o \in Operators |-> NoReview]
  /\ copies = [c \in Id |-> 0] /\ mail = [c \in Id |-> 0]
  /\ answers = [a \in Answer |-> 0] /\ completing = [a \in Answer |-> 0]
  /\ installed = {} /\ listed = {}
  /\ generated = [s \in Row |-> 0] /\ moot = {} /\ cut = {}

exchange == <<copies, mail, answers, completing>>
machine  == <<installed, listed>>
history  == <<generated, moot, cut>>

-----------------------------------------------------------------------------
(* Handing commands over                                                   *)

Hand(c, kind) ==
  /\ copies[c] < Copies[kind]
  /\ copies' = [copies EXCEPT ![c] = @ + 1]
  /\ mail' = [mail EXCEPT ![c] = @ + 1]

\* DispatchCommand for the next command: the agent is away ("kept"), it got the
\* message ("sent"), or it got it and MarkCommandSent failed ("unmarked").
Dispatch(c, kind, m, s, how) ==
  /\ command[c].status = "none" /\ \A b \in 1..(c - 1) : command[b].status # "none"
  /\ command' = [command EXCEPT ![c] =
                   [kind |-> kind, on |-> m, of |-> s,
                    status |-> IF how = "sent" THEN "sent" ELSE "pending"]]
  /\ IF how = "kept" THEN UNCHANGED <<mail, copies>> ELSE Hand(c, kind)

\* resendPending, for a session that opens or a request that finds the row
\* still generating; it may fail to mark the command too.
Redeliver(c) ==
  /\ command[c].status = "pending" /\ Hand(c, command[c].kind)
  /\ \/ command' = [command EXCEPT ![c].status = "sent"]
     \/ UNCHANGED command
  /\ UNCHANGED <<suggestion, ask, review, answers, completing, machine, history>>

-----------------------------------------------------------------------------
(* Asking for a suggestion                                                 *)

\* FindOpenSuggestion: the newest row for the machine worth reusing.
Open(m) == {s \in Row : /\ suggestion[s].status \in {"generating", "pending", "approved"}
                        /\ command[suggestion[s].of].on = m}
Newest(m) == {s \in Open(m) : \A r \in Open(m) : r <= s}

\* An open row is reused; an approved one only while the module is there.
Looks(q, m) ==
  /\ ask[q].step = "no"
  /\ Cardinality({c \in Id : command[c].kind = "suggest"}) < MaxAsked
  /\ \A s \in Newest(m) : suggestion[s].status = "approved" /\ m \notin listed
  /\ ask' = [ask EXCEPT ![q] = [step |-> "dispatch", on |-> m, id |-> 0]]
  /\ UNCHANGED <<command, suggestion, review, exchange, machine, history>>

\* Without the return when the dispatch fails.
AskDispatches_slip(q) ==
  /\ ask[q].step = "dispatch"
  /\ \E c \in Id, how \in {"kept", "sent", "unmarked"} :
       /\ Dispatch(c, "suggest", ask[q].on, 0, how)
       /\ ask' = [ask EXCEPT ![q].step = "record", ![q].id = IF how = "unmarked" THEN 0 ELSE c]
  /\ UNCHANGED <<suggestion, review, answers, completing, machine, history>>

\* The command goes out first; no row if the dispatch reports a failure.
AskDispatches(q) ==
  /\ ask[q].step = "dispatch"
  /\ \E c \in Id, how \in {"kept", "sent", "unmarked"} :
       /\ Dispatch(c, "suggest", ask[q].on, 0, how)
       /\ ask' = [ask EXCEPT ![q] = IF how = "unmarked" THEN NoAsk
                                    ELSE [step |-> "record", on |-> ask[q].on, id |-> c]]
  /\ UNCHANGED <<suggestion, review, answers, completing, machine, history>>

\* CreateSuggestedModule, perhaps after the answer.
AskRecords(q) ==
  /\ ask[q].step = "record"
  /\ \E s \in Row :
       /\ suggestion[s].status = "none" /\ \A r \in 1..(s - 1) : suggestion[r].status # "none"
       /\ suggestion' = [suggestion EXCEPT ![s] = [of |-> ask[q].id, status |-> "generating"]]
  /\ ask' = [ask EXCEPT ![q] = NoAsk]
  /\ UNCHANGED <<command, review, exchange, machine, history>>

\* A statement fails, the client leaves or the master restarts.
AskFails(q) ==
  /\ ask[q].step # "no"
  /\ ask' = [ask EXCEPT ![q] = NoAsk]
  /\ UNCHANGED <<command, suggestion, review, exchange, machine, history>>

-----------------------------------------------------------------------------
(* The agent and its answers                                               *)

Runs(a) ==
  /\ mail[a.id] > 0
  /\ mail' = [mail EXCEPT ![a.id] = @ - 1]
  /\ answers' = [answers EXCEPT ![a] = @ + 1]
  /\ installed' = IF a.ok /\ command[a.id].kind = "install"
                    THEN installed \cup {command[a.id].on} ELSE installed
  /\ UNCHANGED <<command, suggestion, ask, review, copies, completing, listed, history>>

\* UpdateCommandAck, then completeSuggestionIfApplicable.
Acknowledges(a) ==
  /\ answers[a] > 0
  /\ answers' = [answers EXCEPT ![a] = @ - 1]
  /\ command' = [command EXCEPT ![a.id].status = IF a.ok THEN "acked" ELSE "failed"]
  /\ completing' = IF command[a.id].kind = "suggest"
                     THEN [completing EXCEPT ![a] = @ + 1] ELSE completing
  /\ UNCHANGED <<suggestion, ask, review, mail, copies, machine, history>>

\* CompleteSuggestedModule, whatever the status of the row.
Completes(a) ==
  /\ completing[a] > 0
  /\ completing' = [completing EXCEPT ![a] = @ - 1]
  /\ LET its == {s \in Row : suggestion[s].status # "none" /\ suggestion[s].of = a.id} IN
       /\ suggestion' = [s \in Row |-> IF s \in its
                           THEN [suggestion[s] EXCEPT !.status = IF a.ok THEN "pending" ELSE "failed"]
                           ELSE suggestion[s]]
       /\ generated' = [s \in Row |-> IF s \in its /\ a.ok THEN generated[s] + 1 ELSE generated[s]]
  /\ UNCHANGED <<command, ask, review, mail, copies, answers, machine, moot, cut>>

\* The agent's inventory is stored.
Reports(m) ==
  /\ listed' = (listed \ {m}) \cup (installed \cap {m})
  /\ UNCHANGED <<command, suggestion, ask, review, exchange, installed, history>>

\* The module is removed from the machine, by a command or by hand.
Removes(m) ==
  /\ m \in installed /\ installed' = installed \ {m}
  /\ UNCHANGED <<command, suggestion, ask, review, exchange, listed, history>>

-----------------------------------------------------------------------------
(* Approving and rejecting                                                 *)

\* approveSuggestedModule reads the row as pending.
Approves(o, s, picks) ==
  /\ review[o].step = "no" /\ suggestion[s].status = "pending"
  /\ review' = [review EXCEPT ![o] = [step |-> "claim", id |-> s, todo |-> picks,
                                      at |-> NoMachine, sent |-> FALSE, failed |-> FALSE]]
  /\ UNCHANGED <<command, suggestion, ask, exchange, machine, history>>

\* Trusting what was read before.
Claims_slip(o) ==
  /\ review[o].step = "claim"
  /\ suggestion' = [suggestion EXCEPT ![review[o].id].status = "approved"]
  /\ review' = [review EXCEPT ![o].step = "check"]
  /\ UNCHANGED <<command, ask, exchange, machine, history>>

\* ClaimSuggestionForApproval.
Claims(o) ==
  /\ review[o].step = "claim"
  /\ IF suggestion[review[o].id].status = "pending"
       THEN /\ suggestion' = [suggestion EXCEPT ![review[o].id].status = "approved"]
            /\ review' = [review EXCEPT ![o].step = "check"]
       ELSE review' = [review EXCEPT ![o] = NoReview] /\ UNCHANGED suggestion
  /\ UNCHANGED <<command, ask, exchange, machine, history>>

InstallOf(m, statuses) ==
  \E c \in Id : /\ command[c].kind = "install" /\ command[c].on = m
                /\ command[c].status \in statuses

\* The inventory alone.
AlreadyThere_slip(m) == {m \in listed}

\* moduleAlreadyThere, with ModuleInstallInProgress: an acknowledged install
\* counts for two minutes, and whether they have passed is left open.
AlreadyThere(m) ==
  IF InstallOf(m, {"pending", "sent"}) \/ m \in listed THEN {TRUE}
  ELSE IF InstallOf(m, {"acked"}) THEN BOOLEAN ELSE {FALSE}

\* The machines picked are taken one by one.
Checks(o) ==
  /\ review[o].step = "check"
  /\ \E m \in review[o].todo : \E there \in AlreadyThere(m) :
       review' = [review EXCEPT ![o].todo = @ \ {m},
                                ![o].at   = IF there THEN @ ELSE m,
                                ![o].step = IF there THEN @ ELSE "install"]
  /\ UNCHANGED <<command, suggestion, ask, exchange, machine, history>>

\* The install is dispatched; a mark that fails counts as nothing sent.
Installs(o) ==
  /\ review[o].step = "install"
  /\ \E c \in Id, how \in {"kept", "sent", "unmarked"} :
       /\ Dispatch(c, "install", review[o].at, review[o].id, how)
       /\ review' = [review EXCEPT ![o].step   = "check", ![o].at = NoMachine,
                                   ![o].sent   = @ \/ how # "unmarked",
                                   ![o].failed = @ \/ how = "unmarked"]
  /\ UNCHANGED <<suggestion, ask, answers, completing, machine, history>>

CannotInstall(o) ==
  /\ review[o].step = "install"
  /\ review' = [review EXCEPT ![o].step = "check", ![o].at = NoMachine, ![o].failed = TRUE]
  /\ UNCHANGED <<command, suggestion, ask, exchange, machine, history>>

\* ReleaseSuggestionClaim, whatever became of the row since.
Release_slip(s) == suggestion' = [suggestion EXCEPT ![s].status = "pending"]

Release(s) ==
  suggestion' = IF suggestion[s].status = "approved"
                  THEN [suggestion EXCEPT ![s].status = "pending"] ELSE suggestion

\* Released when every machine picked had the module, and only then.
InVain_slip(r) == ~r.sent /\ ~r.failed

\* Nothing was sent, and not because every machine picked had the module.
InVain(r) == ~r.sent /\ r.failed

Finishes(o) ==
  /\ review[o].step = "check" /\ review[o].todo = {}
  /\ IF InVain(review[o]) THEN Release(review[o].id) ELSE UNCHANGED suggestion
  /\ moot' = IF ~review[o].sent /\ ~review[o].failed THEN moot \cup {review[o].id} ELSE moot
  /\ review' = [review EXCEPT ![o] = NoReview]
  /\ UNCHANGED <<command, ask, exchange, machine, generated, cut>>

\* The client leaves, a statement of the handler fails (the release too, whose
\* error is ignored), or the master restarts.
Breaks(o) ==
  /\ review[o].step # "no"
  /\ cut' = IF review[o].step = "claim" THEN cut ELSE cut \cup {review[o].id}
  /\ review' = [review EXCEPT ![o] = NoReview]
  /\ UNCHANGED <<command, suggestion, ask, exchange, machine, generated, moot>>

\* ReviewSuggestedModule, for an operator whose page showed the row as pending.
Rejects(s) ==
  /\ generated[s] > 0
  /\ suggestion' = [suggestion EXCEPT ![s].status = "rejected"]
  /\ UNCHANGED <<command, ask, review, exchange, machine, history>>

-----------------------------------------------------------------------------
Request(q)  == (\E m \in Machines : Looks(q, m)) \/ AskDispatches(q) \/ AskRecords(q) \/ AskFails(q)
Agent       == (\E a \in Answer : Runs(a))
                 \/ (\E m \in Machines : Reports(m) \/ Removes(m))
Master      == (\E a \in Answer : Acknowledges(a) \/ Completes(a))
                 \/ \E c \in Id : Redeliver(c)
Operator(o) == (\E s \in Row, picks \in SUBSET Machines \ {{}} : Approves(o, s, picks))
                 \/ Claims(o) \/ Checks(o) \/ Installs(o) \/ CannotInstall(o)
                 \/ Finishes(o) \/ Breaks(o)

Next ==
  \/ \E q \in Requesters : Request(q)
  \/ Agent
  \/ Master
  \/ \E o \in Operators : Operator(o)
  \/ \E s \in Row : Rejects(s)

Spec == Init /\ [][Next]_vars

-----------------------------------------------------------------------------
(* Properties                                                              *)

Deciding(o) == review[o].step \in {"check", "install"}

\* Of several approvals of a suggestion, by a double click or by two
\* operators, one gets past the claim: the others do nothing, unless the
\* command was answered a second time in between and its answer put the row
\* back to pending (api.go approveSuggestedModule, ClaimSuggestionForApproval).
OneWinner ==
  \A o, p \in Operators :
    o # p /\ Deciding(o) /\ Deciding(p) /\ review[o].id = review[p].id
      => generated[review[o].id] > 1

\* A suggestion is not installed twice on a machine: while an install of it
\* is on its way there no other is made, whatever failed or was released and
\* approved again, the command being answered once (api.go moduleAlreadyThere).
OneInstallEach ==
  \A c, d \in Id :
    /\ c # d /\ command[c].kind = "install" /\ command[d].kind = "install"
    /\ command[c].of = command[d].of /\ command[c].on = command[d].on
    /\ {command[c].status, command[d].status} \subseteq {"pending", "sent"}
    => generated[command[c].of] > 1

\* A rejection holds against every approval under way: only a late answer of
\* the agent moves the row again (api.go rejectSuggestedModule, the guards of
\* ClaimSuggestionForApproval and ReleaseSuggestionClaim).
RejectionHolds ==
  [][\A s \in Row : suggestion[s].status = "rejected" =>
        \/ suggestion'[s].status \in {"rejected", "failed"}
        \/ generated'[s] > generated[s]]_vars

\* A suggestion that looks approved was sent to some machine, unless every
\* machine picked had the module already or the approval was cut short
\* (api.go: "don't leave it looking approved").
ApprovedWasSent ==
  \A s \in Row :
    /\ suggestion[s].status = "approved" /\ s \notin moot \cup cut
    /\ \A o \in Operators : Deciding(o) => review[o].id # s
    => \E c \in Id : command[c].kind = "install" /\ command[c].of = s

\* Violated.  The status of a suggestion goes from generating to pending or
\* failed, and from pending to approved or rejected, which are final; a
\* failed approval alone takes it back (schema.sql suggested_modules).
LifecycleHolds ==
  [][\A s \in Row : suggestion[s].status # suggestion'[s].status =>
        <<suggestion[s].status, suggestion'[s].status>> \in
          {<<"none", "generating">>, <<"generating", "pending">>, <<"generating", "failed">>,
           <<"pending", "approved">>, <<"pending", "rejected">>, <<"approved", "pending">>}]_vars
=============================================================================
