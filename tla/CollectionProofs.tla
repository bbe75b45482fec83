-------------------------- MODULE CollectionProofs --------------------------
(***************************************************************************)
(* Proofs about Collection, for every set of requests, every number of     *)
(* runs, stop commands and stream ends, and every retry interval: the type *)
(* invariant, OneActiveRun and CollectingWasStarted, and the action        *)
(* properties ClosedStays and SuggestionStays.                             *)
(***************************************************************************)
EXTENDS Collection, TLAPS, SequenceTheorems, FiniteSetTheorems

\* No two runs are active.
OneActive == \A r, o \in Runs : Active(r) /\ Active(o) => r = o

\* What an actor carries from its reads to its writes: a run, one whose start
\* succeeded when it is about to be marked collecting, and a suggestion only
\* if it is a request.
ActorKnows ==
  \A a \in Actors :
    /\ doing[a].step # "idle" => doing[a].run \in Runs
    /\ doing[a].step = "collect" => doing[a].run \in started
    /\ doing[a].step \in {"generate", "record"} => a \in Requests

\* The answers that may be on their way: success of a start means it happened.
HonestAnswer == {a \in Answer : a.ok /\ a.cmd.stop = NoStop => a.cmd.run \in started}
AnswersTrue  == answers \in Seq(HonestAnswer)

\* Only a finished run has a suggestion.
SuggestedIsDone == \A r \in Runs : sug[r] # "none" => status[r] = "done"

IInv ==
  /\ TypeOK
  /\ OneActive
  /\ ActorKnows
  /\ AnswersTrue
  /\ CollectingWasStarted
  /\ SuggestedIsDone

\* How a statement of the store may move the status of a run.
Moves ==
  { <<"starting", "collecting">>, <<"collecting", "stopping">> }
    \cup (ActiveStatus \X {"collected", "done", "failed"})
    \cup ({"collected"} \X {"done", "failed"})

StatusMoves ==
  \A r \in Runs : status'[r] = status[r] \/ <<status[r], status'[r]>> \in Moves

\* Likewise its suggestion.
SuggestionMoves ==
  \A r \in Runs : \/ sug'[r] = sug[r]
                  \/ status[r] = "collected" /\ (sug'[r] = "none" \/ status'[r] = "done")

LEMMA InitIInv == Init => IInv
<1> SUFFICES ASSUME Init PROVE IInv
  OBVIOUS
<1> USE CollectionBounds DEF Init
<1>1. TypeOK
  <2>1. <<>> \in Seq(Command) /\ <<>> \in Seq(Answer) /\ Len(<<>>) = 0
    BY EmptySeq
  <2> QED BY <2>1 DEF TypeOK, ActiveStatus, Idle, Steps
<1>2. OneActive /\ ActorKnows /\ CollectingWasStarted /\ SuggestedIsDone
  BY DEF OneActive, ActorKnows, CollectingWasStarted, SuggestedIsDone, Active,
         ActiveStatus, Idle
<1>3. AnswersTrue
  BY EmptySeq DEF AnswersTrue
<1> QED BY <1>1, <1>2, <1>3 DEF IInv

-----------------------------------------------------------------------------
(* The parts steps are made of                                             *)

\* Answers stay true as more starts succeed.
LEMMA TruthGrows ==
  ASSUME AnswersTrue, started \subseteq started'
  PROVE  answers \in Seq(HonestAnswer)'
<1>1. HonestAnswer \subseteq HonestAnswer'
  BY DEF HonestAnswer
<1> QED BY <1>1, SeqMonotonic DEF AnswersTrue

\* A dispatch keeps the types of what is pending and on the stream.
LEMMA DispatchTyped ==
  ASSUME TypeOK, NEW c \in Command, Dispatch(c)
  PROVE  /\ pending' \in Seq(Command) /\ Len(pending') <= MaxPending
         /\ queue' \in Seq(Command)
<1> USE CollectionBounds DEF TypeOK
<1>1. /\ Append(queue, c) \in Seq(Command)
      /\ Append(pending, c) \in Seq(Command) /\ Append(pending, c) # <<>>
      /\ Len(Append(pending, c)) = Len(pending) + 1 /\ Len(pending) \in Nat
  <2>1. queue \in Seq(Command) /\ pending \in Seq(Command)
    BY DEF TypeOK
  <2> HIDE DEF TypeOK
  <2>2. Append(queue, c) \in Seq(Command)
    BY <2>1, AppendProperties
  <2>3. /\ Append(pending, c) \in Seq(Command) /\ Append(pending, c) # <<>>
        /\ Len(Append(pending, c)) = Len(pending) + 1
    BY <2>1, AppendProperties
  <2>4. Len(pending) \in Nat
    BY <2>1, LenProperties
  <2> QED BY <2>2, <2>3, <2>4
<1>2. /\ Tail(Append(pending, c)) \in Seq(Command)
      /\ Len(Tail(Append(pending, c))) = Len(pending)
  BY <1>1, HeadTailProperties
<1>3. CASE online
  BY <1>1, <1>3 DEF Dispatch
<1>4. CASE ~online /\ Len(pending) < MaxPending
  <2>1. pending' = Append(pending, c) /\ queue' = queue
    BY <1>4 DEF Dispatch
  <2>2. Len(pending') <= MaxPending
    BY <1>1, <1>4, <2>1
  <2> QED BY <1>1, <2>1, <2>2
<1>5. CASE ~online /\ ~(Len(pending) < MaxPending)
  BY <1>1, <1>2, <1>5 DEF Dispatch
<1> QED BY <1>3, <1>4, <1>5

\* A statement that moves statuses as Moves says, and nothing into "done" that
\* was suggested, keeps what depends on the status alone.
LEMMA MovesKeep ==
  ASSUME OneActive, CollectingWasStarted,
         StatusMoves, started \subseteq started',
         \A r \in Runs : status[r] = "starting" /\ status'[r] = "collecting" => r \in started
  PROVE  OneActive' /\ CollectingWasStarted'
<1>1. \A r \in Runs : Active(r)' => Active(r)
  BY DEF StatusMoves, Moves, Active, ActiveStatus
<1>2. OneActive'
  BY <1>1 DEF OneActive
<1>3. \A r \in Runs : status'[r] \in {"collecting", "stopping"} =>
         status[r] \in {"collecting", "stopping"} \/ r \in started
  BY DEF StatusMoves, Moves, ActiveStatus
<1> QED BY <1>2, <1>3 DEF CollectingWasStarted

DoingType == [Actors -> [step : Steps, run : 0..MaxRuns, id : StopIds \cup {NoStop}]]

\* An actor takes up a step it is allowed, on a run.
LEMMA AboutKeeps ==
  ASSUME TypeOK, ActorKnows, NEW a \in Actors, NEW step \in Steps, NEW r \in Runs,
         NEW id \in StopIds \cup {NoStop}, About(a, step, r, id), started \subseteq started',
         step = "collect" => r \in started,
         step \in {"generate", "record"} => a \in Requests
  PROVE  doing' \in DoingType /\ ActorKnows'
<1> USE CollectionBounds DEF TypeOK, DoingType
<1>1. r \in 0..MaxRuns
  BY DEF Runs
<1>2. doing' = [doing EXCEPT ![a] = [step |-> step, run |-> r, id |-> id]]
  BY DEF About
<1>3. doing' \in DoingType
  BY <1>1, <1>2
<1>4. /\ doing'[a].step = step /\ doing'[a].run = r
      /\ \A b \in Actors \ {a} : doing'[b] = doing[b]
  BY <1>2
<1>5. ActorKnows'
  BY <1>4 DEF ActorKnows
<1> QED BY <1>3, <1>5

\* An actor is through with what it was about to do.
LEMMA FinishedKeeps ==
  ASSUME TypeOK, ActorKnows, NEW a \in Actors, Finished(a), started \subseteq started'
  PROVE  doing' \in DoingType /\ ActorKnows'
<1> USE CollectionBounds DEF TypeOK, DoingType
<1>1. doing' = [doing EXCEPT ![a] = Idle] /\ Idle.step = "idle"
  BY DEF Finished, Idle
<1>2. doing' \in DoingType
  BY <1>1 DEF Idle, Steps
<1>3. \A b \in Actors : doing'[b] = IF b = a THEN Idle ELSE doing[b]
  BY <1>1
<1>4. ActorKnows'
  BY <1>1, <1>3 DEF ActorKnows
<1> QED BY <1>2, <1>4

\* Nobody's plans change, and what started stays started.
LEMMA PlansKept ==
  ASSUME TypeOK, ActorKnows, UNCHANGED doing, started \subseteq started'
  PROVE  doing' \in DoingType /\ ActorKnows'
  BY DEF TypeOK, DoingType, ActorKnows

\* The rows are left alone.
LEMMA RowsKept ==
  ASSUME IInv, UNCHANGED rows, started \subseteq started'
  PROVE  OneActive' /\ CollectingWasStarted' /\ SuggestedIsDone'
  BY DEF IInv, rows, OneActive, Active, CollectingWasStarted, SuggestedIsDone

-----------------------------------------------------------------------------
(* The network, the agent and time                                         *)

\* The messages on the stream and back stay commands and true answers.
LEMMA NetTyped ==
  ASSUME IInv, Drop \/ Reconnect \/ Flush \/ Age
  PROVE  /\ pending' \in Seq(Command) /\ Len(pending') <= MaxPending
         /\ queue' \in Seq(Command)
         /\ answers' \in Seq(Answer) /\ AnswersTrue'
         /\ stream' \in {"none", "registered", "flushed"} /\ drops' \in 0..MaxDrops
<1> USE CollectionBounds DEF IInv, TypeOK
<1>1. started' = started
  BY DEF Drop, Reconnect, Flush, Age
<1>2. answers' \in {answers, <<>>}
  BY DEF Drop, Reconnect, Flush, Age
<1>3. answers' \in Seq(Answer) /\ AnswersTrue'
  <2>1. answers \in Seq(HonestAnswer)'
    BY <1>1, TruthGrows
  <2>2. <<>> \in Seq(HonestAnswer)' /\ <<>> \in Seq(Answer)
    BY EmptySeq
  <2> QED BY <1>2, <2>1, <2>2 DEF AnswersTrue
<1>4. CASE Drop
  BY <1>3, <1>4, EmptySeq DEF Drop
<1>5. CASE Reconnect
  BY <1>3, <1>5 DEF Reconnect
<1>6. CASE Flush
  <2>1. PICK n \in 0..Len(pending) :
          /\ queue' = queue \o SubSeq(pending, 1, n)
          /\ pending' = SubSeq(pending, n + 1, Len(pending))
    BY <1>6 DEF Flush
  <2>2. Len(pending) \in Nat /\ \A i \in 1..Len(pending) : pending[i] \in Command
    BY LenProperties, ElementOfSeq
  <2>3. SubSeq(pending, 1, n) \in Seq(Command)
    BY <2>1, <2>2, SubSeqProperties
  <2>4. queue' \in Seq(Command)
    BY <2>1, <2>3, ConcatProperties
  <2>5. n + 1 \in Int /\ \A i \in (n + 1)..Len(pending) : pending[i] \in Command
    BY <2>1, <2>2
  <2>6. pending' \in Seq(Command) /\ Len(pending') <= Len(pending)
    BY <2>1, <2>2, <2>5, SubSeqProperties
  <2>7. Len(pending') \in Nat
    BY <2>6, LenProperties
  <2> QED BY <1>3, <1>6, <2>2, <2>4, <2>6, <2>7 DEF Flush
<1>7. CASE Age
  <2>1. /\ Tail(pending) \in Seq(Command) /\ Len(Tail(pending)) = Len(pending) - 1
        /\ Len(pending) \in Nat
    BY <1>7, HeadTailProperties, LenProperties DEF Age
  <2> QED BY <1>3, <1>7, <2>1 DEF Age
<1> QED BY <1>4, <1>5, <1>6, <1>7

LEMMA NetSteps ==
  ASSUME IInv, Drop \/ Reconnect \/ Flush \/ Age
  PROVE  IInv'
<1>1. UNCHANGED <<rows, doing, started>>
  BY DEF Drop, Reconnect, Flush, Age
<1>2. doing' \in DoingType /\ ActorKnows'
  BY <1>1, PlansKept DEF IInv
<1>3. OneActive' /\ CollectingWasStarted' /\ SuggestedIsDone'
  BY <1>1, RowsKept
<1>4. TypeOK'
  BY <1>1, <1>2, NetTyped DEF IInv, TypeOK, rows, DoingType
<1> QED BY <1>2, <1>3, <1>4, NetTyped DEF IInv

\* The agent answers truly: this is what CollectingWasStarted rests on.
LEMMA ServeSteps ==
  ASSUME IInv, NEW ok \in BOOLEAN, Serve(ok)
  PROVE  IInv'
<1> DEFINE c == Head(queue)
           a == [cmd |-> c, ok |-> ok]
<1>1. /\ UNCHANGED <<rows, doing, stream, pending, drops>>
      /\ started \subseteq started'
  BY DEF Serve
<1>2. queue \in Seq(Command) /\ queue # <<>>
  BY DEF Serve, IInv, TypeOK
<1>3. c \in Command /\ queue' \in Seq(Command)
  BY <1>2, HeadTailProperties DEF Serve
<1>4. c.run \in Runs /\ started' \subseteq Runs
  BY <1>3 DEF Serve, Command, IInv, TypeOK
<1>5. a \in Answer /\ (ok /\ c.stop = NoStop => c.run \in started')
  BY <1>3 DEF Answer, Serve
<1>6. a \in HonestAnswer'
  BY <1>5 DEF HonestAnswer
<1>7. answers' = Append(answers, a)
  BY DEF Serve
<1>8. answers' \in Seq(Answer)
  BY <1>5, <1>7, AppendProperties DEF IInv, TypeOK
<1>9. AnswersTrue'
  BY <1>1, <1>6, <1>7, TruthGrows, AppendProperties DEF AnswersTrue, IInv
<1>10. doing' \in DoingType /\ ActorKnows'
  BY <1>1, PlansKept DEF IInv
<1>11. OneActive' /\ CollectingWasStarted' /\ SuggestedIsDone'
  BY <1>1, RowsKept
<1>12. TypeOK'
  BY <1>1, <1>3, <1>4, <1>8, <1>10 DEF IInv, TypeOK, rows, DoingType
<1> QED BY <1>9, <1>10, <1>11, <1>12 DEF IInv

LEMMA ElapseSteps ==
  ASSUME IInv, Elapse
  PROVE  IInv'
<1> USE CollectionBounds
<1>1. UNCHANGED <<status, linked, stopOf, sug, doing, stream, pending, queue, answers,
                  drops, started>>
  BY DEF Elapse, net
<1>2. sentAge' \in [Runs -> 0..(StopGiveUp + 1)]
  BY DEF Elapse, IInv, TypeOK
<1>3. TypeOK'
  BY <1>1, <1>2 DEF IInv, TypeOK
<1> QED BY <1>1, <1>3 DEF IInv, OneActive, Active, ActorKnows, AnswersTrue, HonestAnswer,
                          CollectingWasStarted, SuggestedIsDone

-----------------------------------------------------------------------------
(* The statements of the store                                             *)

Outcome == {"collected", "done", "failed"}

\* The types of the rows, as TypeOK states them.
RowsTyped ==
  /\ status \in [Runs -> ActiveStatus \cup {"none", "collected", "done", "failed"}]
  /\ stopOf \in [Runs -> StopIds \cup {NoStop}]
  /\ sentAge \in [Runs -> 0..(StopGiveUp + 1)]
  /\ sug \in [Runs -> Requests \cup {"none"}]

LEMMA MarkCollectingMoves ==
  ASSUME RowsTyped, NEW r \in Runs, MarkCollecting(r), UNCHANGED <<stopOf, sentAge, sug>>
  PROVE  RowsTyped' /\ StatusMoves
         /\ \A o \in Runs : status'[o] = status[o] \/ (o = r /\ status[r] = "starting")
<1>1. CASE status[r] = "starting"
  <2>1. status' = [status EXCEPT ![r] = "collecting"]
    BY <1>1 DEF MarkCollecting
  <2>2. RowsTyped'
    BY <2>1 DEF RowsTyped, ActiveStatus
  <2>3. \A o \in Runs : status'[o] = IF o = r THEN "collecting" ELSE status[o]
    BY <2>1 DEF RowsTyped
  <2> QED BY <1>1, <2>2, <2>3 DEF StatusMoves, Moves
<1>2. CASE status[r] # "starting"
  BY <1>2 DEF MarkCollecting, RowsTyped, StatusMoves
<1> QED BY <1>1, <1>2

LEMMA BeginStoppingMoves ==
  ASSUME RowsTyped, NEW r \in Runs, NEW n \in StopIds \cup {NoStop}, BeginStopping(r, n),
         UNCHANGED sug
  PROVE  RowsTyped' /\ StatusMoves
         /\ \A o \in Runs : status'[o] = status[o] \/ status'[o] = "stopping"
  BY CollectionBounds DEF RowsTyped, BeginStopping, StatusMoves, Moves, ActiveStatus

LEMMA CloseWindowMoves ==
  ASSUME RowsTyped, NEW r \in Runs, NEW outcome \in Outcome, CloseWindow(r, outcome),
         UNCHANGED sug
  PROVE  RowsTyped' /\ StatusMoves
         /\ \A o \in Runs : status'[o] = status[o] \/ (Active(o) /\ status'[o] = outcome)
<1>1. status' \in [Runs -> ActiveStatus \cup {"none", "collected", "done", "failed"}]
  BY DEF RowsTyped, CloseWindow, Outcome
<1>2. stopOf' \in [Runs -> StopIds \cup {NoStop}]
  BY DEF RowsTyped, CloseWindow
<1>3. sentAge' \in [Runs -> 0..(StopGiveUp + 1)]
  BY CollectionBounds DEF RowsTyped, CloseWindow
<1>4. \A o \in Runs : status'[o] = status[o] \/ (Active(o) /\ status'[o] = outcome)
  BY DEF RowsTyped, CloseWindow, Active
<1>5. StatusMoves
  BY <1>4 DEF StatusMoves, Moves, Active, Outcome
<1> QED BY <1>1, <1>2, <1>3, <1>4, <1>5 DEF RowsTyped

LEMMA RecordMoves ==
  ASSUME RowsTyped, NEW r \in Runs, NEW outcome \in {"done", "failed"},
         NEW s \in Requests \cup {"none"}, s # "none" => outcome = "done",
         Record(r, outcome, s), UNCHANGED <<stopOf, sentAge>>
  PROVE  /\ RowsTyped' /\ StatusMoves
         /\ \A o \in Runs : \/ status'[o] = status[o] /\ sug'[o] = sug[o]
                           \/ /\ status[o] = "collected" /\ status'[o] = outcome
                              /\ sug'[o] = s
  BY DEF RowsTyped, Record, StatusMoves, Moves, ActiveStatus

\* What all of them keep, but for the run that starts to collect.
LEMMA StatementKeeps ==
  ASSUME IInv, StatusMoves, UNCHANGED started,
         \A r \in Runs : status[r] = "starting" /\ status'[r] = "collecting" => r \in started,
         \A r \in Runs : status[r] = "done" => status'[r] = "done",
         SuggestionMoves
  PROVE  OneActive' /\ CollectingWasStarted' /\ SuggestedIsDone'
<1>1. OneActive' /\ CollectingWasStarted'
  BY MovesKeep DEF IInv, TypeOK
<1>2. SuggestedIsDone'
  BY DEF IInv, SuggestedIsDone, SuggestionMoves
<1> QED BY <1>1, <1>2

-----------------------------------------------------------------------------
(* The actors                                                              *)

\* Where an actor that does something stands.
LEMMA ActorAt ==
  ASSUME IInv, NEW a \in Actors
  PROVE  /\ doing[a].step # "idle" => doing[a].run \in Runs
         /\ doing[a].id \in StopIds \cup {NoStop}
         /\ doing[a].step \in Steps
         /\ doing[a].step = "collect" => doing[a].run \in started
         /\ doing[a].step \in {"generate", "record"} => a \in Requests
         /\ a \in Requests \/ a \in {"ticker", "acks"}
  BY DEF IInv, TypeOK, ActorKnows, Actors

\* A step that only reads: nothing but the plan of its actor changes.
LEMMA ReadKeeps ==
  ASSUME IInv, UNCHANGED <<rows, stream, pending, queue, drops, started>>,
         doing' \in DoingType, ActorKnows', answers' \in Seq(Answer), AnswersTrue'
  PROVE  IInv'
<1>1. OneActive' /\ CollectingWasStarted' /\ SuggestedIsDone'
  BY RowsKept
<1>2. TypeOK'
  BY DEF IInv, TypeOK, rows, DoingType
<1> QED BY <1>1, <1>2 DEF IInv

\* A start inserts a row when no run is active.
LEMMA StartStep ==
  ASSUME IInv, NEW a \in Requests, Start(a)
  PROVE  IInv'
<1>1. PICK r \in Runs : /\ Create(r)
                       /\ status' = [status EXCEPT ![r] = "starting"]
                       /\ About(a, "start", r, NoStop)
  BY DEF Start
<1>2. UNCHANGED <<linked, stopOf, sentAge, sug, net, started>>
  BY DEF Start
<1>3. a \in Actors /\ "start" \in Steps
  BY DEF Actors, Steps
<1>4. doing' \in DoingType /\ ActorKnows'
  BY <1>1, <1>2, <1>3, AboutKeeps DEF IInv
<1>5. status' \in [Runs -> ActiveStatus \cup {"none", "collected", "done", "failed"}]
  BY <1>1 DEF IInv, TypeOK, ActiveStatus
<1>6. \A o \in Runs : status'[o] = IF o = r THEN "starting" ELSE status[o]
  BY <1>1 DEF IInv, TypeOK
<1>7. status[r] = "none" /\ \A o \in Runs : ~Active(o)
  BY <1>1 DEF Create
<1>8. OneActive'
  BY <1>6, <1>7 DEF OneActive, Active
<1>9. CollectingWasStarted' /\ SuggestedIsDone'
  BY <1>2, <1>6, <1>7 DEF IInv, CollectingWasStarted, SuggestedIsDone
<1>10. AnswersTrue'
  BY <1>2 DEF IInv, AnswersTrue, HonestAnswer, net
<1>11. TypeOK'
  BY <1>2, <1>4, <1>5 DEF IInv, TypeOK, net, DoingType
<1> QED BY <1>4, <1>8, <1>9, <1>10, <1>11 DEF IInv

\* What is left to show of a step that executes a statement of the store.
LEMMA StatementStep ==
  ASSUME IInv, RowsTyped', StatusMoves, linked' \subseteq Runs,
         UNCHANGED <<stream, answers, drops, started>>,
         pending' \in Seq(Command), Len(pending') <= MaxPending, queue' \in Seq(Command),
         doing' \in DoingType, ActorKnows',
         \A r \in Runs : status[r] = "starting" /\ status'[r] = "collecting" => r \in started,
         \A r \in Runs : status[r] = "done" => status'[r] = "done",
         SuggestionMoves
  PROVE  IInv'
<1>1. OneActive' /\ CollectingWasStarted' /\ SuggestedIsDone'
  BY StatementKeeps
<1>2. AnswersTrue'
  BY DEF IInv, AnswersTrue, HonestAnswer
<1>3. TypeOK'
  BY DEF IInv, TypeOK, RowsTyped, DoingType
<1> QED BY <1>1, <1>2, <1>3 DEF IInv

LEMMA StartDispatchesStep ==
  ASSUME IInv, NEW a \in Actors, StartDispatches(a)
  PROVE  IInv' /\ StatusMoves /\ SuggestionMoves
<1> DEFINE r == doing[a].run
           c == [run |-> r, stop |-> NoStop]
<1>1. r \in Runs /\ c \in Command
  BY ActorAt DEF StartDispatches, Doing, Command
<1>2. UNCHANGED <<linked, sug, stream, answers, drops, started>>
  BY DEF StartDispatches
<1>3. TypeOK /\ ActorKnows /\ RowsTyped /\ "link" \in Steps
  BY DEF IInv, TypeOK, RowsTyped, Steps
<1>4. Dispatch(c) \/ UNCHANGED <<pending, queue>>
  BY DEF StartDispatches
<1>5. pending' \in Seq(Command) /\ Len(pending') <= MaxPending /\ queue' \in Seq(Command)
  BY <1>1, <1>3, <1>4, DispatchTyped DEF TypeOK
<1>6. CASE About(a, "link", r, NoStop) /\ UNCHANGED <<status, stopOf, sentAge>>
  <2>1. doing' \in DoingType /\ ActorKnows'
    BY <1>1, <1>2, <1>3, <1>6, AboutKeeps
  <2>2. RowsTyped' /\ StatusMoves
    BY <1>2, <1>3, <1>6 DEF RowsTyped, StatusMoves
  <2> QED BY <1>2, <1>3, <1>5, <1>6, <2>1, <2>2, StatementStep DEF TypeOK, SuggestionMoves
<1>7. CASE CloseWindow(r, "failed") /\ Finished(a)
  <2>1. doing' \in DoingType /\ ActorKnows'
    BY <1>2, <1>3, <1>7, FinishedKeeps
  <2>2. RowsTyped' /\ StatusMoves
        /\ \A o \in Runs : status'[o] = status[o] \/ (Active(o) /\ status'[o] = "failed")
    BY <1>1, <1>2, <1>3, <1>7, CloseWindowMoves DEF Outcome
  <2> QED BY <1>2, <1>3, <1>5, <2>1, <2>2, StatementStep DEF TypeOK, Active, ActiveStatus, SuggestionMoves
<1> QED BY <1>6, <1>7 DEF StartDispatches

LEMMA RequestReads ==
  ASSUME IInv, NEW a \in Requests, NEW r \in Runs, Stop(a, r) \/ Generate(a, r)
  PROVE  IInv'
<1>1. a \in Actors /\ {"stop", "generate"} \subseteq Steps
  BY DEF Actors, Steps
<1>2. UNCHANGED <<rows, net, started>>
  BY DEF Stop, Generate
<1>3. doing' \in DoingType /\ ActorKnows'
  BY <1>1, <1>2, AboutKeeps DEF IInv, Stop, Generate
<1> QED BY <1>2, <1>3, ReadKeeps DEF IInv, TypeOK, AnswersTrue, HonestAnswer, net

\* The statements that leave the network alone.
LEMMA RowSteps ==
  ASSUME IInv, NEW a \in Actors,
         \/ StartLinks(a) \/ GenerateMakes(a) \/ GenerateRecords(a) \/ StopMarks(a)
         \/ Collects(a) \/ Fails(a) \/ Closes(a)
  PROVE  IInv' /\ StatusMoves /\ SuggestionMoves
<1> DEFINE r == doing[a].run
<1>1. r \in Runs
  BY ActorAt DEF StartLinks, GenerateMakes, GenerateRecords, StopMarks, Collects, Fails,
                 Closes, Doing
<1>2. UNCHANGED <<stream, pending, queue, answers, drops, started>>
  BY DEF StartLinks, GenerateMakes, GenerateRecords, StopMarks, Collects, Fails, Closes, net
<1>3. TypeOK /\ ActorKnows /\ RowsTyped
  BY DEF IInv, TypeOK, RowsTyped
<1>4. linked' \subseteq Runs
  BY <1>1, <1>3 DEF TypeOK, StartLinks, GenerateMakes, GenerateRecords, StopMarks, Collects,
                    Fails, Closes
<1>5. doing' \in DoingType /\ ActorKnows'
  <2>1. CASE Finished(a)
    BY <1>2, <1>3, <2>1, FinishedKeeps
  <2>2. CASE About(a, "record", r, NoStop) /\ Doing(a, "generate")
    <3>1. a \in Requests /\ "record" \in Steps
      BY <2>2, ActorAt DEF Doing, Steps
    <3> QED BY <1>1, <1>2, <1>3, <2>2, <3>1, AboutKeeps
  <2> QED BY <2>1, <2>2 DEF StartLinks, GenerateMakes, GenerateRecords, StopMarks, Collects,
                            Fails, Closes
<1>6. /\ RowsTyped' /\ StatusMoves
      /\ \A o \in Runs : status[o] = "starting" /\ status'[o] = "collecting" => o \in started
      /\ \A o \in Runs : status[o] = "done" => status'[o] = "done"
      /\ SuggestionMoves
  <2> USE DEF SuggestionMoves
  <2>1. CASE UNCHANGED <<status, stopOf, sentAge, sug>>
    BY <1>3, <2>1 DEF RowsTyped, StatusMoves
  <2>2. CASE /\ \E outcome \in {"done", "failed"} : Record(r, outcome, "none")
             /\ UNCHANGED <<stopOf, sentAge>>
    <3>1. PICK outcome \in {"done", "failed"} : Record(r, outcome, "none")
      BY <2>2
    <3> QED BY <1>1, <1>3, <2>2, <3>1, RecordMoves
  <2>3. CASE GenerateRecords(a)
    <3>1. a \in Requests /\ Record(r, "done", a) /\ UNCHANGED <<stopOf, sentAge>>
      BY <2>3, ActorAt DEF GenerateRecords, Doing
    <3> QED BY <1>1, <1>3, <3>1, RecordMoves
  <2>4. CASE StopMarks(a)
    <3>1. doing[a].id \in StopIds \cup {NoStop}
      BY ActorAt
    <3>2. BeginStopping(r, doing[a].id) /\ UNCHANGED sug
      BY <2>4 DEF StopMarks
    <3>3. /\ RowsTyped' /\ StatusMoves
          /\ \A o \in Runs : status'[o] = status[o] \/ status'[o] = "stopping"
      BY <1>1, <1>3, <3>1, <3>2, BeginStoppingMoves
    <3> QED BY <3>2, <3>3 DEF StatusMoves, Moves, ActiveStatus
  <2>5. CASE Collects(a)
    <3>1. r \in started
      BY <2>5, ActorAt DEF Collects, Doing
    <3>2. MarkCollecting(r) /\ UNCHANGED <<stopOf, sentAge, sug>>
      BY <2>5 DEF Collects
    <3> QED BY <1>1, <1>3, <3>1, <3>2, MarkCollectingMoves
  <2>6. CASE Fails(a) \/ Closes(a)
    <3>1. PICK outcome \in Outcome : CloseWindow(r, outcome)
      BY <2>6 DEF Fails, Closes, Outcome
    <3>2. UNCHANGED sug
      BY <2>6 DEF Fails, Closes
    <3>3. /\ RowsTyped' /\ StatusMoves
          /\ \A o \in Runs : status'[o] = status[o] \/ (Active(o) /\ status'[o] = outcome)
      BY <1>1, <1>3, <3>1, <3>2, CloseWindowMoves
    <3> QED BY <3>2, <3>3 DEF Active, ActiveStatus, Outcome
  <2> QED BY <2>1, <2>2, <2>3, <2>4, <2>5, <2>6 DEF StartLinks, GenerateMakes
<1> QED BY <1>2, <1>3, <1>4, <1>5, <1>6, StatementStep DEF TypeOK

LEMMA SendSteps ==
  ASSUME IInv, NEW a \in Actors, SendStop(a) \/ SendStopFails(a)
  PROVE  IInv' /\ StatusMoves /\ SuggestionMoves
<1> DEFINE r == doing[a].run
<1>1. r \in Runs /\ "mark" \in Steps
  BY ActorAt DEF SendStop, SendStopFails, Doing, Steps
<1>2. UNCHANGED <<rows, stream, answers, drops, started>>
  BY DEF SendStop, SendStopFails
<1>3. TypeOK /\ ActorKnows /\ RowsTyped
  BY DEF IInv, TypeOK, RowsTyped
<1>4. \/ UNCHANGED <<pending, queue>> /\ Finished(a)
      \/ \E n \in StopIds :
           Dispatch([run |-> r, stop |-> n]) /\ (About(a, "mark", r, n) \/ Finished(a))
  BY DEF SendStop, SendStopFails
<1>5. \A n \in StopIds : [run |-> r, stop |-> n] \in Command
  BY <1>1 DEF Command
<1>6. pending' \in Seq(Command) /\ Len(pending') <= MaxPending /\ queue' \in Seq(Command)
  BY <1>3, <1>4, <1>5, DispatchTyped DEF TypeOK
<1>7. doing' \in DoingType /\ ActorKnows'
  BY <1>1, <1>2, <1>3, <1>4, FinishedKeeps, AboutKeeps
<1>8. RowsTyped' /\ StatusMoves
  BY <1>2, <1>3 DEF RowsTyped, StatusMoves, rows
<1> QED BY <1>2, <1>3, <1>6, <1>7, <1>8, StatementStep DEF TypeOK, rows, SuggestionMoves

\* The ticker decides on what it reads; so does the handler of an answer, for
\* which alone "collect" is an option: the answer says the run started.
LEMMA DecisionSteps ==
  ASSUME IInv, TickReads \/ AckReads
  PROVE  IInv'
<1>1. TypeOK /\ ActorKnows /\ AnswersTrue /\ {"ticker", "acks"} \subseteq Actors
  BY DEF IInv, Actors
<1>2. CASE TickReads
  <2>1. PICK r \in Runs, what \in {"fail", "stop", "close"} : About("ticker", what, r, NoStop)
    BY <1>2 DEF TickReads, Decisions
  <2>2. what \in Steps /\ UNCHANGED <<rows, net, started>>
    BY <1>2 DEF Steps, TickReads
  <2>3. doing' \in DoingType /\ ActorKnows'
    BY <1>1, <2>1, <2>2, AboutKeeps
  <2> QED BY <1>1, <2>2, <2>3, ReadKeeps DEF TypeOK, AnswersTrue, HonestAnswer, net
<1>3. CASE AckReads
  <2> DEFINE a == Head(answers)
             what == Verdict(a.cmd, a.ok)
  <2>1. /\ a \in HonestAnswer /\ Tail(answers) \in Seq(HonestAnswer)
        /\ Tail(answers) \in Seq(Answer)
    BY <1>1, <1>3, HeadTailProperties DEF AckReads, AnswersTrue, TypeOK
  <2>2. a.cmd.run \in Runs /\ (a.ok /\ a.cmd.stop = NoStop => a.cmd.run \in started)
    BY <2>1 DEF HonestAnswer, Answer, Command
  <2>3. /\ what \in {"collect", "fail", "close", "idle"}
        /\ what = "collect" => a.ok /\ a.cmd.stop = NoStop
    BY DEF Verdict
  <2>4. UNCHANGED <<rows, stream, pending, queue, drops, started>> /\ answers' = Tail(answers)
    BY <1>3 DEF AckReads
  <2>5. answers' \in Seq(Answer) /\ AnswersTrue'
    BY <2>1, <2>4 DEF AnswersTrue, HonestAnswer
  <2>6. doing' \in DoingType /\ ActorKnows'
    <3>1. CASE what = "idle"
      BY <1>1, <1>3, <2>4, <3>1, PlansKept DEF AckReads
    <3>2. CASE what # "idle"
      <4>1. About("acks", what, a.cmd.run, NoStop) /\ what \in Steps
        BY <1>3, <2>3, <3>2 DEF AckReads, Steps
      <4> QED BY <1>1, <2>2, <2>3, <2>4, <4>1, AboutKeeps
    <3> QED BY <3>1, <3>2
  <2> QED BY <2>4, <2>5, <2>6, ReadKeeps
<1> QED BY <1>2, <1>3

LEMMA NextIInv == IInv /\ [Next]_vars => IInv'
<1> SUFFICES ASSUME IInv, [Next]_vars PROVE IInv'
  OBVIOUS
<1>1. CASE Next
  <2>1. CASE \E a \in Requests : Start(a) \/ \E r \in Runs : Stop(a, r) \/ Generate(a, r)
    BY <2>1, StartStep, RequestReads
  <2>2. CASE \E a \in Actors : Step(a) \/ SendStopFails(a)
    BY <2>2, StartDispatchesStep, RowSteps, SendSteps DEF Step
  <2> QED BY <1>1, <2>1, <2>2, DecisionSteps, ServeSteps, NetSteps, ElapseSteps DEF Next
<1>2. CASE UNCHANGED vars
  BY <1>2 DEF vars, IInv, TypeOK, OneActive, Active, ActorKnows, AnswersTrue, HonestAnswer,
              CollectingWasStarted, SuggestedIsDone
<1> QED BY <1>1, <1>2

-----------------------------------------------------------------------------
(* What follows                                                            *)

\* The conjunction above is an invariant.
THEOREM InductiveInvariant == Spec => []IInv
  BY InitIInv, NextIInv, PTL DEF Spec

\* Every variable keeps its type.
THEOREM TypeCorrect == Spec => []TypeOK
  BY InductiveInvariant, PTL DEF IInv

\* One run of a domain at a time is active, however many requests start one.
THEOREM OneActiveRunAlways == Spec => []OneActiveRun
<1>1. IInv => OneActiveRun
  <2> SUFFICES ASSUME IInv PROVE OneActiveRun
    OBVIOUS
  <2> DEFINE S == {r \in Runs : Active(r)}
  <2>1. CASE S = {}
    BY <2>1, FS_EmptySet DEF OneActiveRun
  <2>2. CASE S # {}
    <3>1. PICK r \in S : TRUE
      BY <2>2
    <3>2. S = {r}
      BY <3>1 DEF IInv, OneActive
    <3> QED BY <3>2, FS_Singleton DEF OneActiveRun
  <2> QED BY <2>1, <2>2
<1> QED BY <1>1, InductiveInvariant, PTL

\* A run collects, or is being stopped, only if its own start succeeded on the
\* agent, whatever is lost, late or answered for an earlier run.
THEOREM CollectingWasStartedAlways == Spec => []CollectingWasStarted
  BY InductiveInvariant, PTL DEF IInv

\* Every step moves statuses and suggestions as the statements do, but for the
\* insertion of a run.
LEMMA StepMoves ==
  ASSUME IInv, [Next]_vars
  PROVE  /\ SuggestionMoves
         /\ \A r \in Runs : \/ status'[r] = status[r]
                           \/ <<status[r], status'[r]>> \in Moves \cup {<<"none", "starting">>}
<1>1. CASE UNCHANGED <<status, sug>>
  BY <1>1 DEF SuggestionMoves
<1>2. CASE \E a \in Actors : Step(a) \/ SendStopFails(a)
  BY <1>2, StartDispatchesStep, RowSteps, SendSteps DEF Step, StatusMoves
<1>3. CASE \E a \in Requests : Start(a)
  BY <1>3 DEF Start, Create, SuggestionMoves, IInv, TypeOK
<1> QED
  BY <1>1, <1>2, <1>3 DEF Next, vars, Stop, Generate, TickReads, AckReads, Serve, Drop,
                          Reconnect, Flush, Age, Elapse, rows

\* A closed run stays closed, whoever read it while it was active.
THEOREM ClosedStaysAlways == Spec => ClosedStays
<1>1. IInv /\ [Next]_vars =>
        [\A r \in Runs : status[r] \in {"collected", "done", "failed"} => ~Active(r)']_vars
  BY StepMoves DEF Moves, Active, ActiveStatus
<1> QED BY <1>1, InductiveInvariant, PTL DEF Spec, ClosedStays

\* The suggestion a run shows is never replaced.
THEOREM SuggestionStaysAlways == Spec => SuggestionStays
<1>1. IInv /\ [Next]_vars => [\A r \in Runs : sug[r] # "none" => sug'[r] = sug[r]]_vars
  BY StepMoves DEF SuggestionMoves, IInv, SuggestedIsDone
<1> QED BY <1>1, InductiveInvariant, PTL DEF Spec, SuggestionStays

=============================================================================
