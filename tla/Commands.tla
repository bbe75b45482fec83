------------------------------ MODULE Commands ------------------------------
(***************************************************************************)
(* The path of a command from the dashboard to one agent and back:         *)
(* a request inserts a row, hands the message to the agent's stream if     *)
(* there is one and marks the row sent (server/dispatch.go); a session     *)
(* registers its channel in the hub, flushes what the agent missed, sends  *)
(* and receives (server/server.go, hub.go); the agent runs what it gets    *)
(* and answers (agent/src/grpc.rs); an operator deletes an entry, undoing  *)
(* it on the machine first if it was applied (server/revert.go).  The rows *)
(* are the `commands` table (store/postgres), one statement per step.      *)
(*                                                                         *)
(* Each command stands for a rule of its own: undoing one does not touch   *)
(* another.  Messages are never lost inside a stream; a stream that ends   *)
(* loses whatever is still in it, in both directions, and the master and   *)
(* the agent notice the end independently.                                 *)
(***************************************************************************)
EXTENDS Integers, Sequences, FiniteSets, SequencesExt

CONSTANTS
  MaxCommands,  \* bound: rows ever inserted
  MaxRules,     \* bound: those of them that are not undo commands
  MaxSessions,  \* bound: streams the agent ever opens
  QueueCap,     \* what a session's channel holds, and LIMIT of a flush (16)
  Operators     \* requests that may be deleting an entry at the same time

ASSUME CommandBounds ==
  /\ MaxCommands \in Nat \ {0}
  /\ MaxRules \in 1..MaxCommands
  /\ MaxSessions \in Nat \ {0}
  /\ QueueCap \in Nat \ {0}

Id      == 1..MaxCommands      \* in order of created_at
Session == 1..MaxSessions      \* in the order the agent opened them

VARIABLES
  row,      \* the commands table
  request,  \* what the request that created the row has still to do
  stream,   \* a session on the master's side
  hub,      \* the session whose channel the hub holds, 0 if none
  queue,    \* on its way to the agent: a session's channel and its stream
  acks,     \* answers of the agent on their way
  acked,    \* the answer whose handler has still completeRevert to do
  flush,    \* the FlushPendingCommands goroutine of a session
  link,     \* the agent's own session, 0 when it has none
  delete,   \* an operator's Delete request, between two of its statements
  ran,      \* the machine: commands that ran there successfully
  handed,   \* history: commands ever put on a channel
  again,    \* history: undo commands put on a channel more than once
  missed    \* history: commands a full channel, the LIMIT or their age left out

vars == <<row, request, stream, hub, queue, acks, acked, flush, link,
          delete, ran, handed, again, missed>>

Statuses == {"none", "pending", "sent", "acked", "failed", "deleted"}
Ack      == [id : Id, ok : BOOLEAN]
Row      == [status : Statuses, reverts : 0..MaxCommands]

NoRow == [status |-> "none", reverts |-> 0]

TypeOK ==
  /\ row \in [Id -> Row]
  /\ request \in [Id -> {"done", "hand", "mark"}]
  /\ stream \in [Session -> {"unused", "enrolled", "open", "closed"}]
  /\ hub \in 0..MaxSessions /\ link \in 0..MaxSessions
  /\ queue \in [Session -> Seq(Id)] /\ \A s \in Session : Len(queue[s]) <= QueueCap
  /\ acks \in [Session -> Seq(Ack)]
  /\ acked \in [Session -> Seq(Ack)]
  /\ flush \in [Session -> [step : {"no", "list", "hand", "mark", "done"},
                            todo : Seq(Id)]]
  /\ delete \in [Operators -> [step : {"no", "drop", "undo"}, id : 0..MaxCommands]]
  /\ ran \subseteq Id /\ handed \subseteq Id /\ again \subseteq Id /\ missed \subseteq Id

Idle    == [step |-> "no", todo |-> <<>>]
NoEntry == [step |-> "no", id |-> 0]

Init ==
  /\ row = [c \in Id |-> NoRow]
  /\ request = [c \in Id |-> "done"]
  /\ stream = [s \in Session |-> "unused"]
  /\ hub = 0 /\ link = 0
  /\ queue = [s \in Session |-> <<>>]
  /\ acks = [s \in Session |-> <<>>] /\ acked = [s \in Session |-> <<>>]
  /\ flush = [s \in Session |-> Idle]
  /\ delete = [o \in Operators |-> NoEntry]
  /\ ran = {} /\ handed = {} /\ again = {} /\ missed = {}

Present(c)  == row[c].status \notin {"none", "deleted"}
InFlight(c) == row[c].status \in {"pending", "sent"}
IsUndo(c)   == row[c].reverts # 0
Undoes(u, c) == row[u].reverts = c /\ Present(u)

Undone == {row[u].reverts : u \in ran} \ {0}

history == <<handed, again, missed>>
streams == <<stream, hub, queue, acks, acked, flush, link>>

-----------------------------------------------------------------------------
(* The rows: one operator per statement of the store                       *)

\* INSERT INTO commands: the next row, the undo of `original` if that is not 0.
Insert(original) ==
  \E c \in Id :
    /\ row[c].status = "none"
    /\ \A b \in 1..(c - 1) : row[b].status # "none"
    /\ row' = [row EXCEPT ![c] = [status |-> "pending", reverts |-> original]]
    /\ request' = [request EXCEPT ![c] = "hand"]

\* MarkCommandSent, without "AND status = 'pending'".
MarkSent_slip(c) ==
  row' = IF Present(c) THEN [row EXCEPT ![c].status = "sent"] ELSE row

MarkSent(c) ==
  row' = IF row[c].status = "pending" THEN [row EXCEPT ![c].status = "sent"] ELSE row

\* UpdateCommandAck.
Answer(a) ==
  row' = IF Present(a.id)
           THEN [row EXCEPT ![a.id].status = IF a.ok THEN "acked" ELSE "failed"]
           ELSE row

\* DeleteCommandAndReverts.
DeleteRows(c) ==
  row' = [b \in Id |-> IF Present(b) /\ (b = c \/ row[b].reverts = c)
                         THEN [row[b] EXCEPT !.status = "deleted"]
                         ELSE row[b]]

\* ExpireStaleReverts; whether two minutes have passed is left open.
Expired(c) ==
  [b \in Id |-> IF Undoes(b, c) /\ InFlight(b)
                  THEN [row[b] EXCEPT !.status = "failed"]
                  ELSE row[b]]

\* PendingCommandsFor, undo commands included.
Pending_slip == {c \in Id : row[c].status = "pending"}

Pending == {c \in Id : row[c].status = "pending" /\ ~IsUndo(c)}

-----------------------------------------------------------------------------
(* Hub.Dispatch, for a request or a flush                                  *)

\* Whatever the channel holds already.
Room_slip == hub # 0

Room == hub # 0 /\ Len(queue[hub]) < QueueCap

Hand(c) ==
  /\ Room
  /\ queue' = [queue EXCEPT ![hub] = Append(@, c)]
  /\ handed' = handed \cup {c}
  /\ again' = IF IsUndo(c) /\ c \in handed THEN again \cup {c} ELSE again
  /\ missed' = missed \ {c}

CannotHand(c) ==
  /\ ~Room
  /\ missed' = IF hub = 0 \/ c \in handed THEN missed ELSE missed \cup {c}
  /\ UNCHANGED <<queue, handed, again>>

-----------------------------------------------------------------------------
(* A request that dispatches a command                                     *)

Create ==
  /\ Cardinality({c \in Id : row[c].status # "none" /\ ~IsUndo(c)}) < MaxRules
  /\ Insert(0)
  /\ UNCHANGED <<streams, delete, ran, history>>

RequestHands(c) ==
  /\ request[c] = "hand"
  /\ \/ Hand(c) /\ request' = [request EXCEPT ![c] = "mark"]
     \/ CannotHand(c) /\ request' = [request EXCEPT ![c] = "done"]
  /\ UNCHANGED <<row, stream, hub, acks, acked, flush, link, delete, ran>>

\* The statement fails when the request's context is gone (its client left).
RequestMarks(c) ==
  /\ request[c] = "mark"
  /\ MarkSent(c) \/ UNCHANGED row
  /\ request' = [request EXCEPT ![c] = "done"]
  /\ UNCHANGED <<streams, delete, ran, history>>

-----------------------------------------------------------------------------
(* A session on the master                                                 *)

\* The agent connects and its EnrollInfo is stored.
Enroll(s) ==
  /\ stream[s] = "unused" /\ link = 0
  /\ \A r \in 1..(s - 1) : stream[r] # "unused"
  /\ stream' = [stream EXCEPT ![s] = "enrolled"]
  /\ link' = s
  /\ UNCHANGED <<row, request, hub, queue, acks, acked, flush, delete, ran, history>>

\* A channel and no flush.
Register_slip(s) ==
  /\ stream[s] = "enrolled"
  /\ stream' = [stream EXCEPT ![s] = "open"]
  /\ hub' = s
  /\ flush' = [flush EXCEPT ![s] = [step |-> "done", todo |-> <<>>]]
  /\ UNCHANGED <<row, request, queue, acks, acked, link, delete, ran, history>>

\* Hub.Register replaces the channel of an earlier session; the flush starts.
Register(s) ==
  /\ stream[s] = "enrolled"
  /\ stream' = [stream EXCEPT ![s] = "open"]
  /\ hub' = s
  /\ flush' = [flush EXCEPT ![s] = [step |-> "list", todo |-> <<>>]]
  /\ UNCHANGED <<row, request, queue, acks, acked, link, delete, ran, history>>

\* The oldest ones in order, without those over ten minutes old: which rows
\* these are is left open as well.
FlushLists(s) ==
  /\ flush[s].step = "list"
  /\ \E some \in BoundedSeq(Pending, QueueCap) :
       /\ \A i, j \in 1..Len(some) : i < j => some[i] < some[j]
       /\ flush' = [flush EXCEPT ![s] = [step |-> IF some = <<>> THEN "done" ELSE "hand",
                                        todo |-> some]]
       /\ missed' = missed \cup ((Pending \ ToSet(some)) \ handed)
  /\ UNCHANGED <<row, request, stream, hub, queue, acks, acked, link, delete,
                 ran, handed, again>>

\* The listing fails, as any statement does once the session's context is gone.
FlushCannotList(s) ==
  /\ flush[s].step = "list" /\ stream[s] = "closed"
  /\ flush' = [flush EXCEPT ![s] = Idle]
  /\ UNCHANGED <<row, request, stream, hub, queue, acks, acked, link, delete,
                 ran, history>>

\* resendPending looks the channel up by agent: it may be a later session's.
FlushHands(s) ==
  /\ flush[s].step = "hand"
  /\ LET c == Head(flush[s].todo) IN
       \/ Hand(c) /\ flush' = [flush EXCEPT ![s].step = "mark"]
       \/ CannotHand(c) /\ flush' = [flush EXCEPT ![s] = Idle]
  /\ UNCHANGED <<row, request, stream, hub, acks, acked, link, delete, ran>>

FlushMarks(s) ==
  /\ flush[s].step = "mark"
  /\ LET rest == Tail(flush[s].todo) IN
       IF stream[s] = "closed"
         THEN /\ flush' = [flush EXCEPT ![s] = Idle]
              /\ UNCHANGED row
         ELSE /\ MarkSent(Head(flush[s].todo))
              /\ flush' = [flush EXCEPT ![s] = [step |-> IF rest = <<>> THEN "done" ELSE "hand",
                                                todo |-> rest]]
  /\ UNCHANGED <<request, stream, hub, queue, acks, acked, link, delete, ran, history>>

\* stream.Send to an agent that is gone: the message leaves the channel.
SendInVain(s) ==
  /\ stream[s] = "open" /\ link # s /\ queue[s] # <<>>
  /\ queue' = [queue EXCEPT ![s] = Tail(@)]
  /\ UNCHANGED <<row, request, stream, hub, acks, acked, flush, link, delete, ran, history>>

\* unregister, whoever holds the hub's entry by now.
Unregister_slip(s) == hub' = 0

Unregister(s) == hub' = IF hub = s THEN 0 ELSE hub

\* The session returns: its channel, what it had received and its context go;
\* what it had put on the stream may still be read.
EndSession(s) ==
  /\ stream[s] \in {"enrolled", "open"}
  /\ stream' = [stream EXCEPT ![s] = "closed"]
  /\ Unregister(s)
  /\ \E n \in 0..Len(queue[s]) :
       queue' = [queue EXCEPT ![s] = IF link = s THEN SubSeq(@, 1, n) ELSE <<>>]
  /\ acks' = [acks EXCEPT ![s] = <<>>]
  /\ acked' = [acked EXCEPT ![s] = <<>>]
  /\ flush' = [flush EXCEPT ![s] = IF @.step = "done" THEN Idle ELSE @]
  /\ UNCHANGED <<row, request, link, delete, ran, history>>

\* The master restarts: every session, goroutine and request of it ends.
MasterRestart ==
  /\ stream' = [s \in Session |-> IF stream[s] = "unused" THEN "unused" ELSE "closed"]
  /\ hub' = 0
  /\ \E n \in 0..QueueCap :
       queue' = [s \in Session |-> IF link = s /\ n <= Len(queue[s]) THEN SubSeq(queue[s], 1, n)
                                                                    ELSE <<>>]
  /\ acks' = [s \in Session |-> <<>>] /\ acked' = [s \in Session |-> <<>>]
  /\ flush' = [s \in Session |-> Idle]
  /\ request' = [c \in Id |-> "done"]
  /\ delete' = [o \in Operators |-> NoEntry]
  /\ UNCHANGED <<row, link, ran, history>>

-----------------------------------------------------------------------------
(* The agent                                                               *)

\* handle_server_message: one command at a time, run and answered.
Run(ok) ==
  /\ link # 0 /\ queue[link] # <<>>
  /\ LET c == Head(queue[link]) IN
         /\ queue' = [queue EXCEPT ![link] = Tail(@)]
         /\ acks' = [acks EXCEPT ![link] = IF stream[link] = "open"
                                             THEN Append(@, [id |-> c, ok |-> ok]) ELSE @]
         /\ ran' = IF ok THEN ran \cup {c} ELSE ran
  /\ UNCHANGED <<row, request, stream, hub, acked, flush, link, delete, history>>

\* The agent gives the stream up (or its process ends): what it had not read is lost.
Disconnect ==
  /\ link # 0
  /\ link' = 0
  /\ queue' = [queue EXCEPT ![link] = IF stream[link] = "open" THEN @ ELSE <<>>]
  /\ UNCHANGED <<row, request, stream, hub, acks, acked, flush, delete, ran, history>>

-----------------------------------------------------------------------------
(* The answer: handleIncoming updates the row, then, if it is an undo's,   *)
(* completes it                                                            *)

HandleAck(s) ==
  /\ stream[s] = "open" /\ acks[s] # <<>> /\ acked[s] = <<>>
  /\ Answer(Head(acks[s]))
  /\ acks' = [acks EXCEPT ![s] = Tail(@)]
  /\ acked' = [acked EXCEPT ![s] = IF IsUndo(Head(acks[s]).id) THEN <<Head(acks[s])>> ELSE <<>>]
  /\ UNCHANGED <<request, stream, hub, queue, flush, link, delete, ran, history>>

\* completeRevertIfApplicable, without looking at the result.
CompleteRevert_slip(s) ==
  /\ acked[s] # <<>>
  /\ LET a == Head(acked[s]) IN
       IF Present(a.id)
         THEN DeleteRows(row[a.id].reverts) ELSE UNCHANGED row
  /\ acked' = [acked EXCEPT ![s] = <<>>]
  /\ UNCHANGED <<request, stream, hub, queue, acks, flush, link, delete, ran, history>>

CompleteRevert(s) ==
  /\ acked[s] # <<>>
  /\ LET a == Head(acked[s]) IN
       IF a.ok /\ Present(a.id)
         THEN DeleteRows(row[a.id].reverts) ELSE UNCHANGED row
  /\ acked' = [acked EXCEPT ![s] = <<>>]
  /\ UNCHANGED <<request, stream, hub, queue, acks, flush, link, delete, ran, history>>

-----------------------------------------------------------------------------
(* RevertCommand                                                           *)

\* What Delete does to an entry in state r: "undo" as soon as it was sent.
Describe_slip(r, c) ==
  CASE r[c].status \in {"acked", "sent"} /\ r[c].reverts = 0 -> "undo"
    [] r[c].status \in {"failed", "pending"} -> "drop"
    [] OTHER -> "no"

\* An undo has no undo plan of its own.
Describe(r, c) ==
  CASE \E u \in Id : r[u].reverts = c /\ r[u].status \in {"pending", "sent"} -> "no"
    [] r[c].status \in {"failed", "pending"} -> "drop"
    [] r[c].status = "acked" /\ r[c].reverts = 0 -> "undo"
    [] OTHER -> "no"

\* Its undo commands that timed out are failed, then the entry is read.
BeginDelete(o, c) ==
  /\ delete[o] = NoEntry /\ Present(c)
  /\ row' = Expired(c)
  /\ delete' = [delete EXCEPT ![o] = LET what == Describe(Expired(c), c) IN
                                       IF what = "no" THEN NoEntry ELSE [step |-> what, id |-> c]]
  /\ UNCHANGED <<request, streams, ran, history>>

DropEntry(o) ==
  /\ delete[o].step = "drop"
  /\ DeleteRows(delete[o].id)
  /\ delete' = [delete EXCEPT ![o] = NoEntry]
  /\ UNCHANGED <<request, streams, ran, history>>

\* The undo is inserted, without the unique index on undos in flight.
DispatchUndo_slip(o) ==
  /\ delete[o].step = "undo" /\ hub # 0
  /\ Present(delete[o].id) /\ Insert(delete[o].id)
  /\ delete' = [delete EXCEPT ![o] = NoEntry]
  /\ UNCHANGED <<streams, ran, history>>

DispatchUndo(o) ==
  /\ delete[o].step = "undo" /\ hub # 0
  /\ Present(delete[o].id) /\ ~\E u \in Id : Undoes(u, delete[o].id) /\ InFlight(u)
  /\ Insert(delete[o].id)
  /\ delete' = [delete EXCEPT ![o] = NoEntry]
  /\ UNCHANGED <<streams, ran, history>>

\* Agent offline, entry gone (foreign key), or an undo in flight (unique index).
RefuseUndo(o) ==
  /\ delete[o].step = "undo"
  /\ \/ hub = 0
     \/ ~Present(delete[o].id)
     \/ \E u \in Id : Undoes(u, delete[o].id) /\ InFlight(u)
  /\ delete' = [delete EXCEPT ![o] = NoEntry]
  /\ UNCHANGED <<row, request, streams, ran, history>>

-----------------------------------------------------------------------------
Request(c)  == RequestHands(c) \/ RequestMarks(c)
Serve(s)    == Enroll(s) \/ Register(s) \/ SendInVain(s) \/ EndSession(s)
                 \/ HandleAck(s) \/ CompleteRevert(s)
Flush(s)    == FlushLists(s) \/ FlushCannotList(s) \/ FlushHands(s) \/ FlushMarks(s)
Agent       == Run(TRUE) \/ Run(FALSE) \/ Disconnect
Operator(o) == (\E c \in Id : BeginDelete(o, c))
                 \/ DropEntry(o) \/ DispatchUndo(o) \/ RefuseUndo(o)

Next ==
  \/ Create
  \/ \E c \in Id : Request(c)
  \/ \E s \in Session : Serve(s) \/ Flush(s)
  \/ MasterRestart
  \/ Agent
  \/ \E o \in Operators : Operator(o)

Spec == Init /\ [][Next]_vars

-----------------------------------------------------------------------------
(* Properties                                                              *)

\* An answer stands until the entry goes or the agent answers again: the
\* request or the flush that handed the message over marks it only afterwards,
\* possibly after the answer, and an undo times out or is completed meanwhile.
\* A second answer, to a message delivered twice, does turn acked into failed
\* or back (dispatch.go dispatch, MarkCommandSent "AND status = 'pending'",
\* UpdateCommandAck).
AnswerStands ==
  [][\A c \in Id :
       row[c].status \in {"acked", "failed"} /\ row'[c].status # row[c].status =>
         \/ row'[c].status = "deleted"
         \/ \E s \in Session :
              /\ acks[s] # <<>> /\ acks'[s] = Tail(acks[s]) /\ Head(acks[s]).id = c
              /\ row'[c].status = IF Head(acks[s]).ok THEN "acked" ELSE "failed"]_vars

\* Two operators, or a double click, never have two undos of one command in
\* flight, though each reads the entry before either inserts its undo
\* (revert.go RevertCommand, idx_commands_one_inflight_revert).
OneUndoInFlight ==
  \A c \in Id : Cardinality({u \in Id : Undoes(u, c) /\ InFlight(u)}) <= 1

\* What is undone was done: the undo of a command reaches the agent only
\* after the command ran there successfully, whatever was resent or timed out
\* in between (revert.go DescribeRevert: sent means the result is unknown).
UndoFollowsOriginal ==
  \A u \in Id : IsUndo(u) /\ u \in handed => row[u].reverts \in ran

\* An undo is given to the agent at most once: it is never among the commands
\* a reconnect delivers again (postgres.go PendingCommandsFor).
UndoHandedOnce == again = {}

\* Nobody is left behind: once the flush of the session the hub holds is
\* through, a command still pending, whose request is over and which is
\* young enough, was put on a channel, unless one was full.  A request that
\* finds no channel inserted its row before the channel was registered, and
\* the flush lists after (server.go Session, dispatch.go FlushPendingCommands).
NotLeftBehind ==
  \A c \in Id :
    /\ row[c].status = "pending" /\ ~IsUndo(c)
    /\ request[c] = "done"
    /\ hub # 0 /\ flush[hub].step = "done"
    => c \in handed \cup missed

\* The hub serves the newest channel: the last session to have registered is
\* the one requests are handed to for as long as it is open, whenever the
\* sessions it replaced get to unregister (hub.go Register).
NewestServes ==
  [][\A s \in Session : hub = s /\ stream'[s] = "open" =>
        hub' = s \/ (hub' # 0 /\ stream[hub'] = "enrolled")]_vars

\* An entry leaves the list because an operator dropped it as never applied
\* or because an undo of it succeeded on the machine, and for no other
\* reason: a failed or late answer never removes one (revert.go
\* completeRevertIfApplicable).
LeavesOnceUndone ==
  [][\A c \in Id : Present(c) /\ ~Present(c)' =>
        \/ {c, row[c].reverts} \cap Undone # {}
        \/ \E o \in Operators : delete[o].step = "drop" /\ delete[o].id \in {c, row[c].reverts}]_vars

\* Violated.  A command whose entry is gone is not in effect on the machine:
\* an entry is dropped only when "nothing applied on the machine", otherwise
\* "the rule is gone from the machine, so it leaves the list" (revert.go).
GoneIsNotApplied ==
  \A c \in Id : row[c].status = "deleted" /\ c \in ran => IsUndo(c) \/ c \in Undone
=============================================================================
