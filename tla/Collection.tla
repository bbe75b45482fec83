----------------------------- MODULE Collection -----------------------------
(***************************************************************************)
(* The master's bookkeeping of "collect every denial" runs                 *)
(* (server/collect.go and the domain_collections table), for one domain of *)
(* one agent.  Operators' requests start a run, stop it and generate its   *)
(* suggestion; a ticker ends runs on schedule, sends a stop again and      *)
(* gives up on a silent agent; the handler of the agent's answers moves a  *)
(* run on.  Each of them is an actor that reads a row, decides, and later  *)
(* executes one statement after another, so that what it read may be stale *)
(* when it writes.  The database itself does not fail.                     *)
(*                                                                         *)
(* A command is the start of a run or one of its stops.  The stream to the *)
(* agent keeps order and loses what is in it when it ends; a command       *)
(* created while there is none is delivered by the next one unless it is   *)
(* too old by then (module Commands says how).  On the agent the window is *)
(* what module PermissiveWindow promises.                                  *)
(***************************************************************************)
EXTENDS Integers, Sequences, FiniteSets

CONSTANTS
  Requests,     \* operators' requests that may be under way at the same time
  MaxRuns,      \* bound: runs ever created
  StopIds,      \* bound: stop commands that exist at the same time
  MaxPending,   \* bound: undelivered commands young enough to be resent
  MaxDrops,     \* bound: ends of the agent's stream
  StopRetry,    \* stopRetryEvery, in units of time
  StopGiveUp,   \* stopGiveUpAfter, in units of time
  Timely        \* does the agent answer later than the master's next statement
                \* and sooner than the next unit of time

ASSUME CollectionBounds ==
  /\ MaxRuns \in Nat \ {0} /\ MaxPending \in Nat /\ MaxDrops \in Nat
  /\ StopRetry \in Nat /\ StopGiveUp \in Nat /\ StopRetry < StopGiveUp
  /\ Timely \in BOOLEAN

Runs   == 1..MaxRuns
Actors == Requests \cup {"ticker", "acks"}

VARIABLES
  status,   \* domain_collections.status, "none" before the row exists
  linked,   \* runs whose start_command_id is set
  stopOf,   \* stop_command_id
  sentAge,  \* time since stop_sent_at
  sug,      \* suggestion_id: the request that had it made, or "none"
  doing,    \* what an actor is about to do, to which run, with which command
  stream,   \* the agent's stream: none, registered, or also flushed
  pending,  \* commands created without one
  queue,    \* commands on their way to the agent
  answers,  \* answers on their way back
  started,  \* history: runs whose start succeeded on the agent
  drops

vars == <<status, linked, stopOf, sentAge, sug, doing, stream, pending, queue,
          answers, started, drops>>

NoStop  == 0
Command == [run : Runs, stop : StopIds \cup {NoStop}]   \* a start, or a stop
Answer  == [cmd : Command, ok : BOOLEAN]
ActiveStatus == {"starting", "collecting", "stopping"}
Steps == {"idle", "start", "link", "stop", "mark", "collect", "fail", "close",
          "generate", "record"}

TypeOK ==
  /\ status \in [Runs -> ActiveStatus \cup {"none", "collected", "done", "failed"}]
  /\ linked \subseteq Runs /\ started \subseteq Runs
  /\ stopOf \in [Runs -> StopIds \cup {NoStop}]
  /\ sentAge \in [Runs -> 0..(StopGiveUp + 1)]
  /\ sug \in [Runs -> Requests \cup {"none"}]
  /\ doing \in [Actors -> [step : Steps, run : 0..MaxRuns, id : StopIds \cup {NoStop}]]
  /\ stream \in {"none", "registered", "flushed"}
  /\ pending \in Seq(Command) /\ queue \in Seq(Command) /\ answers \in Seq(Answer)
  /\ Len(pending) <= MaxPending
  /\ drops \in 0..MaxDrops

Idle == [step |-> "idle", run |-> 0, id |-> NoStop]

Init ==
  /\ status = [r \in Runs |-> "none"]
  /\ linked = {} /\ started = {}
  /\ stopOf = [r \in Runs |-> NoStop]
  /\ sentAge = [r \in Runs |-> 0]
  /\ sug = [r \in Runs |-> "none"]
  /\ doing = [a \in Actors |-> Idle]
  /\ stream = "flushed"
  /\ pending = <<>> /\ queue = <<>> /\ answers = <<>>
  /\ drops = 0

Active(r) == status[r] \in ActiveStatus

rows   == <<status, linked, stopOf, sentAge, sug>>
net    == <<stream, pending, queue, answers, drops>>
online == stream # "none"

\* Actor a is about to do `step`, or is done.
About(a, step, r, id) == doing' = [doing EXCEPT ![a] = [step |-> step, run |-> r, id |-> id]]
Finished(a)           == doing' = [doing EXCEPT ![a] = Idle]
Doing(a, step)        == doing[a].step = step

-----------------------------------------------------------------------------
(* Commands: dispatched, delivered, answered, lost                         *)

\* DispatchCommand that never lets a pending command grow too old.
Dispatch_slip(c) ==
  \/ online  /\ queue' = Append(queue, c) /\ UNCHANGED pending
  \/ ~online /\ pending' = Append(pending, c) /\ UNCHANGED queue

\* DispatchCommand: onto the stream, or left pending.  By the time there is one
\* too many, the oldest is too old to be resent.
Dispatch(c) ==
  \/ online /\ queue' = Append(queue, c) /\ UNCHANGED pending
  \/ /\ ~online
     /\ pending' = IF Len(pending) < MaxPending THEN Append(pending, c)
                   ELSE Tail(Append(pending, c))
     /\ UNCHANGED queue

\* A stop command no row, message or actor holds.
Unused(n) ==
  /\ \A r \in Runs : stopOf[r] # n
  /\ \A a \in Actors : doing[a].step = "mark" => doing[a].id # n
  /\ \A i \in 1..Len(pending) : pending[i].stop # n
  /\ \A i \in 1..Len(queue) : queue[i].stop # n
  /\ \A i \in 1..Len(answers) : answers[i].cmd.stop # n

\* The session ends: what is on the stream is lost.
Drop ==
  /\ online /\ drops < MaxDrops
  /\ stream' = "none" /\ drops' = drops + 1
  /\ queue' = <<>> /\ answers' = <<>>
  /\ UNCHANGED <<rows, doing, pending, started>>

\* The agent is back: requests can reach it, ...
Reconnect ==
  /\ ~online /\ stream' = "registered"
  /\ UNCHANGED <<rows, doing, pending, queue, answers, drops, started>>

\* ... then the pending commands follow; those beyond the limit of one flush are
\* left for the next, ...
Flush ==
  /\ stream = "registered" /\ stream' = "flushed"
  /\ \E n \in 0..Len(pending) :
       /\ queue' = queue \o SubSeq(pending, 1, n)
       /\ pending' = SubSeq(pending, n + 1, Len(pending))
  /\ UNCHANGED <<rows, doing, answers, drops, started>>

\* ... unless they are too old by then.
Age ==
  /\ pending # <<>> /\ pending' = Tail(pending)
  /\ UNCHANGED <<rows, doing, stream, queue, answers, drops, started>>

\* The agent runs a command and answers, a start with success also when its
\* window on the domain was open.
Serve(ok) ==
  /\ online /\ queue # <<>>
  /\ Timely => \A a \in Actors : doing[a].step \notin {"link", "mark"}
  /\ answers' = Append(answers, [cmd |-> Head(queue), ok |-> ok])
  /\ started' = IF ok /\ Head(queue).stop = NoStop
                  THEN started \cup {Head(queue).run} ELSE started
  /\ queue' = Tail(queue)
  /\ UNCHANGED <<rows, doing, stream, pending, drops>>

\* A unit of time passes.
Elapse ==
  /\ Timely /\ online => queue = <<>> /\ answers = <<>>
  /\ sentAge' = [r \in Runs |-> IF status[r] # "stopping" \/ sentAge[r] > StopGiveUp
                                  THEN sentAge[r] ELSE sentAge[r] + 1]
  /\ UNCHANGED <<status, linked, stopOf, sug, doing, net, started>>

-----------------------------------------------------------------------------
(* The statements of the store                                             *)

\* CreateCollection without the unique index on active runs.
Create_slip(r) == status[r] = "none"

Create(r) == status[r] = "none" /\ ~\E o \in Runs : Active(o)

\* MarkCollecting.
MarkCollecting(r) ==
  status' = IF status[r] = "starting" THEN [status EXCEPT ![r] = "collecting"] ELSE status

\* BeginStopping without its condition on the status.
BeginStopping_slip(r, n) ==
  /\ status' = [status EXCEPT ![r] = "stopping"]
  /\ stopOf' = [stopOf EXCEPT ![r] = n]
  /\ sentAge' = [sentAge EXCEPT ![r] = 0]

BeginStopping(r, n) ==
  IF status[r] \in {"collecting", "stopping"}
    THEN /\ status' = [status EXCEPT ![r] = "stopping"]
         /\ stopOf' = [stopOf EXCEPT ![r] = n]
         /\ sentAge' = [sentAge EXCEPT ![r] = 0]
    ELSE UNCHANGED <<status, stopOf, sentAge>>

\* CloseCollectionWindow; of a closed run nothing reads the stop any more.
CloseWindow(r, outcome) ==
  /\ status' = IF Active(r) THEN [status EXCEPT ![r] = outcome] ELSE status
  /\ stopOf' = IF Active(r) THEN [stopOf EXCEPT ![r] = NoStop] ELSE stopOf
  /\ sentAge' = IF Active(r) THEN [sentAge EXCEPT ![r] = 0] ELSE sentAge

\* RecordSuggestion without its condition on the status.
Record_slip(r, outcome, s) ==
  /\ status' = [status EXCEPT ![r] = outcome]
  /\ sug' = [sug EXCEPT ![r] = s]

Record(r, outcome, s) ==
  IF status[r] = "collected"
    THEN /\ status' = [status EXCEPT ![r] = outcome]
         /\ sug' = [sug EXCEPT ![r] = s]
    ELSE UNCHANGED <<status, sug>>

-----------------------------------------------------------------------------
(* Operators' requests                                                     *)

\* startOne: the agent is connected, the row is inserted, ...
Start(a) ==
  /\ doing[a] = Idle /\ online
  /\ \E r \in Runs :
       /\ \A o \in 1..(r - 1) : status[o] # "none"
       /\ Create(r)
       /\ status' = [status EXCEPT ![r] = "starting"]
       /\ About(a, "start", r, NoStop)
  /\ UNCHANGED <<linked, stopOf, sentAge, sug, net, started>>

\* ... the command dispatched (if that fails, before or after the command left,
\* so does the run), ...
StartDispatches(a) ==
  /\ Doing(a, "start")
  /\ LET r == doing[a].run
         c == [run |-> r, stop |-> NoStop]
     IN  \/ /\ Dispatch(c)
            /\ About(a, "link", r, NoStop)
            /\ UNCHANGED <<status, stopOf, sentAge>>
         \/ /\ Dispatch(c) \/ UNCHANGED <<pending, queue>>
            /\ CloseWindow(r, "failed")
            /\ Finished(a)
  /\ UNCHANGED <<linked, sug, stream, answers, drops, started>>

\* ... and its id noted in the row: an answer that came first found no run.
StartLinks(a) ==
  /\ Doing(a, "link")
  /\ linked' = linked \cup {doing[a].run}
  /\ Finished(a)
  /\ UNCHANGED <<status, stopOf, sentAge, sug, net, started>>

\* Stop, for a run that collects; StopScan, also for one that starts.
Stop(a, r) ==
  /\ doing[a] = Idle
  /\ status[r] \in {"starting", "collecting"}
  /\ About(a, "stop", r, NoStop)
  /\ UNCHANGED <<rows, net, started>>

\* GenerateSuggestion reads a closed run, ...
Generate(a, r) ==
  /\ doing[a] = Idle
  /\ status[r] = "collected"
  /\ About(a, "generate", r, NoStop)
  /\ UNCHANGED <<rows, net, started>>

\* ... has the suggestion made (or its lines cannot be read, or none is left, or
\* that fails), ...
GenerateMakes(a) ==
  /\ Doing(a, "generate")
  /\ \/ About(a, "record", doing[a].run, NoStop) /\ UNCHANGED <<status, sug>>
     \/ Finished(a) /\ UNCHANGED <<status, sug>>
     \/ /\ \E outcome \in {"done", "failed"} : Record(doing[a].run, outcome, "none")
        /\ Finished(a)
  /\ UNCHANGED <<linked, stopOf, sentAge, net, started>>

\* ... and records it.
GenerateRecords(a) ==
  /\ Doing(a, "record")
  /\ Record(doing[a].run, "done", a)
  /\ Finished(a)
  /\ UNCHANGED <<linked, stopOf, sentAge, net, started>>

-----------------------------------------------------------------------------
(* sendStop, by a request or the ticker                                    *)

Fresh(n) == Unused(n) /\ \A m \in StopIds : m < n => ~Unused(m)

SendStop(a) ==
  /\ Doing(a, "stop")
  /\ \E n \in StopIds :
       /\ Fresh(n)
       /\ Dispatch([run |-> doing[a].run, stop |-> n])
       /\ About(a, "mark", doing[a].run, n)
  /\ UNCHANGED <<rows, stream, answers, drops, started>>

\* The dispatch fails, before or after the command left: nothing is noted.
SendStopFails(a) ==
  /\ Doing(a, "stop")
  /\ \/ UNCHANGED <<pending, queue>>
     \/ \E n \in StopIds : Fresh(n) /\ Dispatch([run |-> doing[a].run, stop |-> n])
  /\ Finished(a)
  /\ UNCHANGED <<rows, stream, answers, drops, started>>

StopMarks(a) ==
  /\ Doing(a, "mark")
  /\ BeginStopping(doing[a].run, doing[a].id)
  /\ Finished(a)
  /\ UNCHANGED <<linked, sug, net, started>>

-----------------------------------------------------------------------------
(* The ticker and the answers                                              *)

\* tick without a limit to the wait for a start's answer.
Decisions_slip(r) ==
  CASE status[r] = "collecting" -> {"stop"}
    [] status[r] = "stopping" /\ sentAge[r] > StopGiveUp -> {"close"}
    [] status[r] = "stopping" /\ sentAge[r] \in (StopRetry + 1)..StopGiveUp -> {"stop"}
    [] OTHER -> {}

\* What tick does about a run it lists, if the time a start may take, or a
\* window may last, is over: that may be at any moment.
Decisions(r) ==
  CASE status[r] = "starting"   -> {"fail"}
    [] status[r] = "collecting" -> {"stop"}
    [] status[r] = "stopping" /\ sentAge[r] > StopGiveUp -> {"close"}
    [] status[r] = "stopping" /\ sentAge[r] \in (StopRetry + 1)..StopGiveUp -> {"stop"}
    [] OTHER -> {}

TickReads ==
  /\ doing["ticker"] = Idle
  /\ \E r \in Runs : \E what \in Decisions(r) : About("ticker", what, r, NoStop)
  /\ UNCHANGED <<rows, net, started>>

\* Whatever the answer says.
Verdict_slip(c, ok) ==
  CASE c.stop = NoStop /\ c.run \in linked /\ status[c.run] = "starting" -> "collect"
    [] c.stop # NoStop /\ stopOf[c.run] = c.stop /\ status[c.run] = "stopping" -> "close"
    [] OTHER -> "idle"

\* What OnAck does about an answer to command c: nothing unless its run still
\* waits for just that command.
Verdict(c, ok) ==
  CASE c.stop = NoStop /\ c.run \in linked /\ status[c.run] = "starting" ->
         IF ok THEN "collect" ELSE "fail"
    [] c.stop # NoStop /\ stopOf[c.run] = c.stop /\ status[c.run] = "stopping" /\ ok -> "close"
    [] OTHER -> "idle"

AckReads ==
  /\ doing["acks"] = Idle /\ answers # <<>>
  /\ LET a    == Head(answers)
         what == Verdict(a.cmd, a.ok)
     IN  IF what = "idle" THEN UNCHANGED doing ELSE About("acks", what, a.cmd.run, NoStop)
  /\ answers' = Tail(answers)
  /\ UNCHANGED <<rows, stream, pending, queue, drops, started>>

Collects(a) ==
  /\ Doing(a, "collect")
  /\ MarkCollecting(doing[a].run)
  /\ Finished(a)
  /\ UNCHANGED <<linked, stopOf, sentAge, sug, net, started>>

Fails(a) ==
  /\ Doing(a, "fail")
  /\ CloseWindow(doing[a].run, "failed")
  /\ Finished(a)
  /\ UNCHANGED <<linked, sug, net, started>>

\* closeWindow: lines were logged, none were, or they cannot be read.
Closes(a) ==
  /\ Doing(a, "close")
  /\ \E outcome \in {"collected", "done", "failed"} : CloseWindow(doing[a].run, outcome)
  /\ Finished(a)
  /\ UNCHANGED <<linked, sug, net, started>>

-----------------------------------------------------------------------------
Step(a) ==
  \/ StartDispatches(a) \/ StartLinks(a) \/ SendStop(a) \/ StopMarks(a)
  \/ GenerateMakes(a) \/ GenerateRecords(a)
  \/ Collects(a) \/ Fails(a) \/ Closes(a)

Next ==
  \/ \E a \in Requests : Start(a) \/ \E r \in Runs : Stop(a, r) \/ Generate(a, r)
  \/ \E a \in Actors : Step(a) \/ SendStopFails(a)
  \/ TickReads \/ AckReads
  \/ Serve(TRUE) \/ Serve(FALSE)
  \/ Drop \/ Reconnect \/ Flush \/ Age \/ Elapse

Spec == Init /\ [][Next]_vars

\* The master's own part: its goroutines run on, the ticker ticks, time passes,
\* and a dispatch does not fail for ever.
MasterFairness ==
  /\ \A a \in Actors : WF_vars(Step(a)) /\ SF_vars(SendStop(a))
  /\ WF_vars(TickReads) /\ WF_vars(AckReads) /\ WF_vars(Elapse) /\ WF_vars(Age)

\* The agent comes back (grpc.rs run never stops trying), works off its commands,
\* and the stop the master waits for does not fail for ever.
ServeStop(ok) == /\ Serve(ok) /\ Head(queue).stop # NoStop
                 /\ Head(queue).stop = stopOf[Head(queue).run]

AgentFairness ==
  /\ WF_vars(Reconnect) /\ WF_vars(Flush)
  /\ WF_vars(Serve(TRUE) \/ Serve(FALSE)) /\ SF_vars(ServeStop(TRUE))

FairSpec == Spec /\ MasterFairness /\ AgentFairness

\* The agent goes away and does not come back.
SilentSpec == Spec /\ MasterFairness /\ <>[](stream = "none")

-----------------------------------------------------------------------------
(* Properties                                                              *)

\* One run of a domain at a time is active, whoever starts one concurrently
\* (idx_domain_collections_one_active).
OneActiveRun == Cardinality({r \in Runs : Active(r)}) <= 1

\* A closed run stays closed: a ticker or an answer that read it while it was
\* active, and acts on it after another actor closed it, changes nothing
\* (the conditions on status of MarkCollecting, BeginStopping and
\* CloseCollectionWindow).
ClosedStays ==
  [][\A r \in Runs : status[r] \in {"collected", "done", "failed"} => ~Active(r)']_vars

\* A run collects, or is being stopped, only if the agent did carry out the
\* start of that very run, not one of an earlier run answered late (OnAck).
CollectingWasStarted ==
  \A r \in Runs : status[r] \in {"collecting", "stopping"} => r \in started

\* The suggestion a run shows is never replaced, though two requests may each
\* have one made (RecordSuggestion "AND status = 'collected'").
SuggestionStays ==
  [][\A r \in Runs : sug[r] # "none" => sug'[r] = sug[r]]_vars

\* No run stays open forever (collect.go: "closes runs whose agent went silent
\* rather than leaving them open forever").
RunsEnd == \A r \in Runs : Active(r) ~> ~Active(r)
=============================================================================
