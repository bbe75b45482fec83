--------------------------- MODULE CommandsProofs ---------------------------
(***************************************************************************)
(* Proofs about Commands, for every number of commands, rules, sessions    *)
(* and operators and every capacity of a channel: the type invariant, the  *)
(* invariants OneUndoInFlight, UndoFollowsOriginal, UndoHandedOnce and     *)
(* NotLeftBehind, and the action properties AnswerStands, NewestServes and *)
(* LeavesOnceUndone.                                                       *)
(***************************************************************************)
EXTENDS Commands, TLAPS, SequenceTheorems, FiniteSetTheorems

\* A number no row has yet stands for nothing.
NoneIsBlank ==
  \A c \in Id : row[c].status = "none" =>
    row[c].reverts = 0 /\ c \notin handed /\ request[c] = "done"

\* What the rows say of the machine: an acknowledged command ran there, and so
\* did whatever an undo is for.
RowsTellTruth ==
  \A c \in Id :
    /\ row[c].status = "acked" => c \in ran
    /\ IsUndo(c) => row[c].reverts \in ran

\* No two undos of one command are in flight.
OneUndo ==
  \A u, v \in Id :
    InFlight(u) /\ InFlight(v) /\ IsUndo(u) /\ row[u].reverts = row[v].reverts => u = v

\* An undo still to be handed over by its request was not handed over yet, and
\* a command still to be marked was.
RequestKnows ==
  \A c \in Id :
    /\ request[c] = "hand" /\ IsUndo(c) => c \notin handed
    /\ request[c] = "mark" => c \in handed

\* Answers say of success what is true; those kept to be completed are undos'.
TrueAck  == {a \in Ack : a.ok => a.id \in ran}
UndoAck  == {a \in TrueAck : IsUndo(a.id)}
AcksTrue == \A s \in Session : acks[s] \in Seq(TrueAck) /\ acked[s] \in Seq(UndoAck)

\* An operator's Delete is about a command, one that ran if it is to be undone.
DeleteKnows ==
  \A o \in Operators :
    /\ delete[o].step # "no" => delete[o].id \in Id
    /\ delete[o].step = "undo" => delete[o].id \in ran

\* A flush works off rows that are no undos; what it is to mark it has handed.
Listed == {c \in Id : row[c].status # "none" /\ ~IsUndo(c)}
FlushKnows ==
  \A s \in Session :
    /\ flush[s].todo \in Seq(Listed)
    /\ flush[s].step \in {"hand", "mark"} => flush[s].todo # <<>>
    /\ flush[s].step = "mark" => Head(flush[s].todo) \in handed

\* A command nobody has handed over, nor left out, is still before the flush of
\* the session that the hub holds: listed, or about to be.
Awaited(c, s) ==
  \/ flush[s].step \in {"no", "list"}
  \/ /\ flush[s].step \in {"hand", "mark"}
     /\ \E i \in 1..Len(flush[s].todo) : flush[s].todo[i] = c

NobodyForgotten ==
  \A c \in Id :
    /\ row[c].status = "pending" /\ ~IsUndo(c) /\ request[c] = "done" /\ hub # 0
    /\ c \notin handed \cup missed
    => Awaited(c, hub)

IInv ==
  /\ TypeOK
  /\ NoneIsBlank
  /\ RowsTellTruth
  /\ OneUndo
  /\ RequestKnows
  /\ AcksTrue
  /\ DeleteKnows
  /\ FlushKnows
  /\ NobodyForgotten
  /\ UndoHandedOnce

LEMMA InitIInv == Init => IInv
<1> SUFFICES ASSUME Init PROVE IInv
  OBVIOUS
<1> USE CommandBounds DEF Init
<1>1. TypeOK
  <2>1. /\ <<>> \in Seq(Id) /\ <<>> \in Seq(Ack) /\ Len(<<>>) = 0
        /\ 0 \in 0..MaxCommands /\ 0 \in 0..MaxSessions
    BY EmptySeq
  <2>2. NoRow \in Row
    BY <2>1 DEF NoRow, Row, Statuses
  <2> QED BY <2>1, <2>2 DEF TypeOK, Idle, NoEntry
<1>2. NoneIsBlank /\ RowsTellTruth /\ OneUndo /\ RequestKnows /\ DeleteKnows
  BY DEF NoneIsBlank, RowsTellTruth, OneUndo, RequestKnows, DeleteKnows, NoRow, NoEntry,
         IsUndo, InFlight
<1>3. AcksTrue
  BY EmptySeq DEF AcksTrue
<1>4. FlushKnows
  BY EmptySeq DEF FlushKnows, Idle
<1>5. NobodyForgotten /\ UndoHandedOnce
  BY DEF NobodyForgotten, UndoHandedOnce
<1> QED BY <1>1, <1>2, <1>3, <1>4, <1>5 DEF IInv

-----------------------------------------------------------------------------
(* The statements of the store                                             *)

\* How a statement other than an insertion may move a row.
StatusStep(c) ==
  \/ row'[c].status = row[c].status
  \/ row[c].status = "pending" /\ row'[c].status = "sent"
  \/ Present(c) /\ row'[c].status \in {"acked", "failed", "deleted"}

RowStep ==
  /\ row' \in [Id -> Row]
  /\ \A c \in Id : row'[c].reverts = row[c].reverts /\ StatusStep(c)

\* A row with another status.
LEMMA WithStatus ==
  ASSUME NEW r \in Row, NEW st \in Statuses
  PROVE  /\ [r EXCEPT !.status = st] \in Row
         /\ [r EXCEPT !.status = st].status = st
         /\ [r EXCEPT !.status = st].reverts = r.reverts
  BY DEF Row

LEMMA NoRowStep ==
  ASSUME TypeOK, UNCHANGED row
  PROVE  RowStep
  BY DEF TypeOK, RowStep, StatusStep

LEMMA MarkSentStep ==
  ASSUME TypeOK, NEW c \in Id, MarkSent(c)
  PROVE  /\ RowStep
         /\ \A b \in Id : row'[b].status \in {row[b].status, "sent"}
<1>1. CASE row[c].status = "pending"
  <2>1. row' = [row EXCEPT ![c] = [row[c] EXCEPT !.status = "sent"]] /\ "sent" \in Statuses
    BY <1>1 DEF MarkSent, Statuses
  <2>2. \A b \in Id : /\ row'[b].reverts = row[b].reverts
                    /\ row'[b].status = (IF b = c THEN "sent" ELSE row[b].status)
    BY <2>1 DEF TypeOK, Row
  <2>3. row' \in [Id -> Row]
    BY <2>1, WithStatus DEF TypeOK
  <2> QED BY <1>1, <2>2, <2>3 DEF RowStep, StatusStep
<1>2. CASE row[c].status # "pending"
  BY <1>2, NoRowStep DEF MarkSent
<1> QED BY <1>1, <1>2

LEMMA AnswerStep ==
  ASSUME TypeOK, NEW a \in Ack, Answer(a)
  PROVE  /\ RowStep
         /\ \A b \in Id : \/ row'[b].status = row[b].status
                          \/ /\ b = a.id
                             /\ row'[b].status = (IF a.ok THEN "acked" ELSE "failed")
<1>1. a.id \in Id /\ a.ok \in BOOLEAN
  BY DEF Ack
<1>2. CASE Present(a.id)
  <2> DEFINE st == IF a.ok THEN "acked" ELSE "failed"
  <2>1. /\ row' = [row EXCEPT ![a.id] = [row[a.id] EXCEPT !.status = st]]
        /\ st \in {"acked", "failed"} /\ st \in Statuses
    BY <1>1, <1>2 DEF Answer, Statuses
  <2>2. \A b \in Id : /\ row'[b].reverts = row[b].reverts
                    /\ row'[b].status = (IF b = a.id THEN st ELSE row[b].status)
    BY <2>1 DEF TypeOK, Row
  <2>3. row' \in [Id -> Row]
    BY <1>1, <2>1, WithStatus DEF TypeOK
  <2> QED BY <1>2, <2>1, <2>2, <2>3 DEF RowStep, StatusStep
<1>3. CASE ~Present(a.id)
  BY <1>3, NoRowStep DEF Answer
<1> QED BY <1>2, <1>3

LEMMA DeleteRowsStep ==
  ASSUME TypeOK, NEW c, DeleteRows(c)
  PROVE  /\ RowStep
         /\ \A b \in Id : \/ row'[b].status = row[b].status
                          \/ row'[b].status = "deleted" /\ (b = c \/ row[b].reverts = c)
<1>1. ASSUME NEW b \in Id
      PROVE  /\ row'[b] \in Row
             /\ row'[b].reverts = row[b].reverts
             /\ \/ row'[b].status = row[b].status
                \/ /\ Present(b) /\ row'[b].status = "deleted"
                   /\ b = c \/ row[b].reverts = c
  <2>1. CASE Present(b) /\ (b = c \/ row[b].reverts = c)
    <3>1. row'[b] = [row[b] EXCEPT !.status = "deleted"]
      BY <2>1 DEF DeleteRows
    <3>2. row[b] \in Row /\ "deleted" \in Statuses
      BY DEF TypeOK, Statuses
    <3> QED BY <2>1, <3>1, <3>2, WithStatus
  <2>2. CASE ~(Present(b) /\ (b = c \/ row[b].reverts = c))
    <3>1. row'[b] = row[b]
      BY <2>2 DEF DeleteRows
    <3> QED BY <3>1 DEF TypeOK
  <2> QED BY <2>1, <2>2
<1>2. row' \in [Id -> Row]
  BY <1>1 DEF DeleteRows
<1> QED BY <1>1, <1>2 DEF RowStep, StatusStep

LEMMA ExpiredStep ==
  ASSUME TypeOK, NEW c \in Id, row' = Expired(c)
  PROVE  /\ RowStep
         /\ \A b \in Id : row'[b].status \in {row[b].status, "failed"}
<1>1. ASSUME NEW b \in Id
      PROVE  /\ row'[b] \in Row
             /\ row'[b].reverts = row[b].reverts
             /\ \/ row'[b].status = row[b].status
                \/ Present(b) /\ row'[b].status = "failed"
  <2>1. CASE Undoes(b, c) /\ InFlight(b)
    <3>1. row'[b] = [row[b] EXCEPT !.status = "failed"]
      BY <2>1 DEF Expired
    <3>2. row[b] \in Row /\ "failed" \in Statuses
      BY DEF TypeOK, Statuses
    <3> QED BY <2>1, <3>1, <3>2, WithStatus DEF Undoes
  <2>2. CASE ~(Undoes(b, c) /\ InFlight(b))
    <3>1. row'[b] = row[b]
      BY <2>2 DEF Expired
    <3> QED BY <3>1 DEF TypeOK
  <2> QED BY <2>1, <2>2
<1>2. row' \in [Id -> Row]
  BY <1>1 DEF Expired
<1> QED BY <1>1, <1>2 DEF RowStep, StatusStep

-----------------------------------------------------------------------------
(* What the parts of the invariant depend on                               *)

\* A statement that acknowledges only what ran.
Truthful == \A c \in Id : row'[c].status = "acked" => row[c].status = "acked" \/ c \in ran

\* A statement moves no row out of "none", into flight or from a rule to an undo.
LEMMA RowStepMeans ==
  ASSUME TypeOK, RowStep
  PROVE  /\ \A c \in Id : IsUndo(c)' <=> IsUndo(c)
         /\ \A c \in Id : row'[c].status = "none" <=> row[c].status = "none"
         /\ \A c \in Id : InFlight(c)' => InFlight(c)
         /\ \A c \in Id : row'[c].status = "pending" => row[c].status = "pending"
         /\ Listed \subseteq Listed'
<1>1. \A c \in Id : /\ IsUndo(c)' <=> IsUndo(c)
                    /\ row'[c].status = "none" <=> row[c].status = "none"
                    /\ InFlight(c)' => InFlight(c)
                    /\ row'[c].status = "pending" => row[c].status = "pending"
  BY DEF RowStep, StatusStep, IsUndo, Present, InFlight
<1> QED BY <1>1 DEF Listed

LEMMA RowsKept ==
  ASSUME IInv, RowStep, Truthful, ran \subseteq ran'
  PROVE  /\ RowsTellTruth' /\ OneUndo'
         /\ TrueAck \subseteq TrueAck' /\ UndoAck \subseteq UndoAck'
<1>1. RowsTellTruth'
  BY DEF IInv, RowStep, Truthful, RowsTellTruth, IsUndo
<1>2. OneUndo'
  BY RowStepMeans DEF IInv, RowStep, OneUndo
<1>3. TrueAck \subseteq TrueAck'
  BY DEF TrueAck
<1>4. UndoAck \subseteq UndoAck'
  <2>1. \A a \in TrueAck : a.id \in Id
    BY DEF TrueAck, Ack
  <2> QED BY <1>3, <2>1, RowStepMeans DEF IInv, UndoAck
<1> QED BY <1>1, <1>2, <1>3, <1>4

\* Answers on their way and to be completed stay true.
LEMMA AcksKept ==
  ASSUME IInv, TrueAck \subseteq TrueAck', UndoAck \subseteq UndoAck', NEW s \in Session
  PROVE  acks[s] \in Seq(TrueAck') /\ acked[s] \in Seq(UndoAck')
  BY SeqMonotonic DEF IInv, AcksTrue

LEMMA NoneKept ==
  ASSUME IInv, RowStep,
         \A c \in Id : c \in handed' => c \in handed \/ row[c].status # "none",
         \A c \in Id : request'[c] # "done" => row[c].status # "none"
  PROVE  NoneIsBlank'
  BY RowStepMeans DEF IInv, RowStep, NoneIsBlank

LEMMA DeleteKept ==
  ASSUME IInv, UNCHANGED delete, ran \subseteq ran'
  PROVE  DeleteKnows'
  BY DEF IInv, DeleteKnows

\* A flush that is not touched, or is over, or only begins.
LEMMA FlushKept ==
  ASSUME IInv, Listed \subseteq Listed', handed \subseteq handed',
         \A s \in Session :
           \/ flush'[s] = flush[s]
           \/ flush'[s].step \in {"no", "list", "done"} /\ flush'[s].todo = <<>>
  PROVE  FlushKnows'
<1> SUFFICES ASSUME NEW s \in Session
             PROVE  /\ flush'[s].todo \in Seq(Listed')
                    /\ flush'[s].step \in {"hand", "mark"} => flush'[s].todo # <<>>
                    /\ flush'[s].step = "mark" => Head(flush'[s].todo) \in handed'
  BY DEF FlushKnows
<1>1. flush[s].todo \in Seq(Listed') /\ <<>> \in Seq(Listed')
  BY SeqMonotonic, EmptySeq DEF IInv, FlushKnows
<1> QED BY <1>1 DEF IInv, FlushKnows

\* Nobody is forgotten as long as the flushes stand and only requests that
\* handed their command over, or left it out, end.
LEMMA ForgottenKept ==
  ASSUME IInv, RowStep, UNCHANGED <<hub, flush>>, handed \cup missed \subseteq handed' \cup missed',
         \A c \in Id : request'[c] = "done" =>
           request[c] = "done" \/ c \in handed' \cup missed' \/ hub = 0
  PROVE  NobodyForgotten'
<1>1. \A c \in Id : Awaited(c, hub) => Awaited(c, hub)'
  BY DEF Awaited
<1> QED BY <1>1, RowStepMeans DEF IInv, NobodyForgotten

\* What the types of delete and acknowledgements are.
DeleteType == [Operators -> [step : {"no", "drop", "undo"}, id : 0..MaxCommands]]
AcksTyped  == acks \in [Session -> Seq(Ack)] /\ acked \in [Session -> Seq(Ack)]

-----------------------------------------------------------------------------
(* Steps that execute one statement on rows that are there                 *)

\* Everything but the row, the request, the answers and the operators stays.
LEMMA StatementKeeps ==
  ASSUME IInv, RowStep, Truthful, UNCHANGED <<stream, hub, queue, flush, link, ran, history>>,
         request' \in [Id -> {"done", "hand", "mark"}],
         \A c \in Id : request'[c] = request[c] \/ (request[c] = "mark" /\ request'[c] = "done"),
         AcksTyped', AcksTrue', delete' \in DeleteType, DeleteKnows'
  PROVE  IInv'
<1>1. TypeOK'
  BY DEF IInv, TypeOK, RowStep, history, AcksTyped, DeleteType
<1>2. RowsTellTruth' /\ OneUndo'
  BY RowsKept
<1>3. NoneIsBlank'
  BY NoneKept DEF IInv, NoneIsBlank, history
<1>4. RequestKnows'
  BY RowStepMeans DEF IInv, RequestKnows, history
<1>5. FlushKnows'
  BY RowStepMeans, FlushKept DEF IInv, history
<1>6. NobodyForgotten'
  BY ForgottenKept DEF IInv, RequestKnows, history
<1>7. UndoHandedOnce'
  BY DEF IInv, UndoHandedOnce, history
<1> QED BY <1>1, <1>2, <1>3, <1>4, <1>5, <1>6, <1>7 DEF IInv

\* Answers that stay where they are stay true.
LEMMA AnswersStay ==
  ASSUME IInv, RowStep, Truthful, UNCHANGED <<acks, acked, ran>>
  PROVE  AcksTyped' /\ AcksTrue'
<1>1. AcksTyped'
  BY DEF IInv, TypeOK, AcksTyped
<1>2. AcksTrue'
  BY RowsKept, AcksKept DEF AcksTrue
<1> QED BY <1>1, <1>2

LEMMA RequestMarksStep ==
  ASSUME IInv, NEW c \in Id, RequestMarks(c)
  PROVE  IInv'
<1>1. TypeOK
  BY DEF IInv
<1>2. RowStep /\ Truthful
  <2>1. CASE MarkSent(c)
    BY <1>1, <2>1, MarkSentStep DEF Truthful
  <2>2. CASE UNCHANGED row
    BY <1>1, <2>2, NoRowStep DEF Truthful
  <2> QED BY <2>1, <2>2 DEF RequestMarks
<1>3. UNCHANGED <<stream, hub, queue, acks, acked, flush, link, delete, ran, history>>
  BY DEF RequestMarks, streams
<1>4. /\ request' \in [Id -> {"done", "hand", "mark"}]
      /\ \A b \in Id : request'[b] = request[b] \/ (request[b] = "mark" /\ request'[b] = "done")
  BY <1>1 DEF RequestMarks, TypeOK
<1>5. delete' \in DeleteType /\ DeleteKnows'
  BY <1>1, <1>3, DeleteKept DEF TypeOK, DeleteType
<1> QED BY <1>2, <1>3, <1>4, <1>5, AnswersStay, StatementKeeps

\* The answer of an undo is kept to be completed.
LEMMA HandleAckStep ==
  ASSUME IInv, NEW s \in Session, HandleAck(s)
  PROVE  IInv'
<1> DEFINE a == Head(acks[s])
<1>1. TypeOK /\ AcksTrue
  BY DEF IInv
<1>2. acks[s] \in Seq(TrueAck) /\ acks[s] # <<>>
  BY <1>1 DEF AcksTrue, HandleAck
<1>3. a \in TrueAck /\ Tail(acks[s]) \in Seq(TrueAck)
  BY <1>2, HeadTailProperties
<1>4. a \in Ack /\ (a.ok => a.id \in ran)
  BY <1>3 DEF TrueAck
<1>5. UNCHANGED <<request, stream, hub, queue, flush, link, delete, ran, history>>
  BY DEF HandleAck
<1>6. RowStep /\ Truthful
  BY <1>1, <1>4, AnswerStep DEF HandleAck, Truthful
<1>7. TrueAck \subseteq TrueAck' /\ UndoAck \subseteq UndoAck'
  BY <1>5, <1>6, RowsKept
<1>8. /\ acks' = [acks EXCEPT ![s] = Tail(acks[s])]
      /\ acked' = [acked EXCEPT ![s] = IF IsUndo(a.id) THEN <<a>> ELSE <<>>]
  BY DEF HandleAck
<1>9. (IF IsUndo(a.id) THEN <<a>> ELSE <<>>) \in Seq(UndoAck)
  <2>1. CASE IsUndo(a.id)
    <3>1. a \in UndoAck
      BY <1>3, <2>1 DEF UndoAck
    <3> QED BY <2>1, <3>1
  <2>2. CASE ~IsUndo(a.id)
    BY <2>2, EmptySeq
  <2> QED BY <2>1, <2>2
<1>10. Seq(TrueAck) \subseteq Seq(Ack) /\ Seq(UndoAck) \subseteq Seq(Ack)
  BY SeqMonotonic DEF TrueAck, UndoAck
<1>11. AcksTyped'
  BY <1>1, <1>3, <1>8, <1>9, <1>10 DEF AcksTyped, TypeOK
<1>12. AcksTrue'
  <2> SUFFICES ASSUME NEW t \in Session
               PROVE  acks'[t] \in Seq(TrueAck') /\ acked'[t] \in Seq(UndoAck')
    BY DEF AcksTrue
  <2>1. acks'[t] \in Seq(TrueAck) /\ acked'[t] \in Seq(UndoAck)
    BY <1>1, <1>3, <1>8, <1>9 DEF AcksTrue, TypeOK
  <2> QED BY <1>7, <2>1, SeqMonotonic
<1>13. delete' \in DeleteType /\ DeleteKnows'
  BY <1>1, <1>5, DeleteKept DEF TypeOK, DeleteType
<1>14. request' \in [Id -> {"done", "hand", "mark"}]
  BY <1>1, <1>5 DEF TypeOK
<1> QED BY <1>5, <1>6, <1>11, <1>12, <1>13, <1>14, StatementKeeps

LEMMA CompleteRevertStep ==
  ASSUME IInv, NEW s \in Session, CompleteRevert(s)
  PROVE  IInv'
<1> DEFINE a == Head(acked[s])
<1>1. TypeOK
  BY DEF IInv
<1>2. UNCHANGED <<request, stream, hub, queue, acks, flush, link, delete, ran, history>>
  BY DEF CompleteRevert
<1>3. RowStep /\ Truthful
  <2>1. CASE DeleteRows(row[a.id].reverts)
    BY <1>1, <2>1, DeleteRowsStep DEF Truthful
  <2>2. CASE UNCHANGED row
    BY <1>1, <2>2, NoRowStep DEF Truthful
  <2> QED BY <2>1, <2>2 DEF CompleteRevert
<1>4. acked' = [acked EXCEPT ![s] = <<>>]
  BY DEF CompleteRevert
<1>5. AcksTyped'
  BY <1>1, <1>2, <1>4, EmptySeq DEF AcksTyped, TypeOK
<1>6. AcksTrue'
  <2> SUFFICES ASSUME NEW t \in Session
               PROVE  acks'[t] \in Seq(TrueAck') /\ acked'[t] \in Seq(UndoAck')
    BY DEF AcksTrue
  <2>1. acks[t] \in Seq(TrueAck') /\ acked[t] \in Seq(UndoAck') /\ <<>> \in Seq(UndoAck')
    BY <1>2, <1>3, RowsKept, AcksKept, EmptySeq
  <2> QED BY <1>1, <1>2, <1>4, <2>1 DEF TypeOK
<1>7. delete' \in DeleteType /\ DeleteKnows'
  BY <1>1, <1>2, DeleteKept DEF TypeOK, DeleteType
<1>8. request' \in [Id -> {"done", "hand", "mark"}]
  BY <1>1, <1>2 DEF TypeOK
<1> QED BY <1>2, <1>3, <1>5, <1>6, <1>7, <1>8, StatementKeeps

\* A Delete takes up only what ran if it is to undo it.
LEMMA DeleteSteps ==
  ASSUME IInv, NEW o \in Operators,
         \/ \E c \in Id : BeginDelete(o, c)
         \/ DropEntry(o) \/ RefuseUndo(o)
  PROVE  IInv'
<1>1. TypeOK /\ DeleteKnows /\ NoEntry \in [step : {"no", "drop", "undo"}, id : 0..MaxCommands]
  BY CommandBounds DEF IInv, NoEntry
<1>2. UNCHANGED <<request, stream, hub, queue, acks, acked, flush, link, ran, history>>
  BY DEF BeginDelete, DropEntry, RefuseUndo, streams
<1>3. request' \in [Id -> {"done", "hand", "mark"}]
  BY <1>1, <1>2 DEF TypeOK
<1>4. CASE \E c \in Id : BeginDelete(o, c)
  <2>1. PICK c \in Id : BeginDelete(o, c)
    BY <1>4
  <2> DEFINE what == Describe(Expired(c), c)
  <2>2. RowStep /\ Truthful
    BY <1>1, <2>1, ExpiredStep DEF BeginDelete, Truthful
  <2>3. what \in {"no", "drop", "undo"}
    BY DEF Describe
  <2>4. what = "undo" => c \in ran
    <3>1. what = "undo" => Expired(c)[c].status = "acked"
      BY DEF Describe
    <3>2. Expired(c)[c].status = "acked" => row[c].status = "acked"
      BY <2>1, <2>2, ExpiredStep, <1>1 DEF BeginDelete, Truthful
    <3> QED BY <3>1, <3>2 DEF IInv, RowsTellTruth
  <2>5. delete' = [delete EXCEPT ![o] = IF what = "no" THEN NoEntry ELSE [step |-> what, id |-> c]]
    BY <2>1 DEF BeginDelete
  <2>6. c \in 0..MaxCommands
    BY DEF Id
  <2>7. delete' \in DeleteType
    BY <1>1, <2>3, <2>5, <2>6 DEF TypeOK, DeleteType
  <2>8. DeleteKnows'
    BY <1>1, <1>2, <2>3, <2>4, <2>5 DEF TypeOK, DeleteKnows, NoEntry
  <2> QED BY <1>2, <1>3, <2>2, <2>7, <2>8, AnswersStay, StatementKeeps
<1>5. CASE DropEntry(o) \/ RefuseUndo(o)
  <2>1. RowStep /\ Truthful
    <3>1. CASE DeleteRows(delete[o].id)
      BY <1>1, <3>1, DeleteRowsStep DEF Truthful
    <3>2. CASE UNCHANGED row
      BY <1>1, <3>2, NoRowStep DEF Truthful
    <3> QED BY <1>5, <3>1, <3>2 DEF DropEntry, RefuseUndo
  <2>2. delete' = [delete EXCEPT ![o] = NoEntry]
    BY <1>5 DEF DropEntry, RefuseUndo
  <2>3. delete' \in DeleteType /\ DeleteKnows'
    BY <1>1, <1>2, <2>2 DEF TypeOK, DeleteType, DeleteKnows, NoEntry
  <2> QED BY <1>2, <1>3, <2>1, <2>3, AnswersStay, StatementKeeps
<1> QED BY <1>4, <1>5

-----------------------------------------------------------------------------
(* Insertions                                                              *)

\* A row is inserted: a rule, or the undo of what ran and has none in flight.
LEMMA InsertKeeps ==
  ASSUME IInv, NEW original \in 0..MaxCommands, Insert(original),
         original # 0 => original \in ran /\ ~\E u \in Id : Undoes(u, original) /\ InFlight(u),
         UNCHANGED <<streams, ran, history>>, delete' \in DeleteType, DeleteKnows'
  PROVE  IInv'
<1> DEFINE new == [status |-> "pending", reverts |-> original]
<1>1. PICK c \in Id : /\ row[c].status = "none"
                      /\ row' = [row EXCEPT ![c] = new]
                      /\ request' = [request EXCEPT ![c] = "hand"]
  BY DEF Insert
<1>2. /\ row' \in [Id -> Row]
      /\ row'[c] = new
      /\ \A b \in Id \ {c} : row'[b] = row[b]
      /\ request' \in [Id -> {"done", "hand", "mark"}]
      /\ request'[c] = "hand"
      /\ \A b \in Id \ {c} : request'[b] = request[b]
  <2>1. new \in Row
    BY DEF Row, Statuses
  <2> QED BY <1>1, <2>1 DEF IInv, TypeOK
<1>3. row[c].reverts = 0 /\ c \notin handed
  BY <1>1 DEF IInv, NoneIsBlank
<1>4. UNCHANGED <<stream, hub, queue, acks, acked, flush, link, ran, handed, again, missed>>
  BY DEF streams, history
<1>5. TypeOK'
  BY <1>2, <1>4 DEF IInv, TypeOK, DeleteType
<1>6. NoneIsBlank' /\ RequestKnows'
  BY <1>2, <1>3, <1>4 DEF IInv, NoneIsBlank, RequestKnows, IsUndo
<1>7. RowsTellTruth'
  BY <1>2, <1>4 DEF IInv, RowsTellTruth, IsUndo
<1>8. OneUndo'
  <2> SUFFICES ASSUME NEW u \in Id, NEW v \in Id, InFlight(u)', InFlight(v)', IsUndo(u)',
                      row'[u].reverts = row'[v].reverts, u # v
               PROVE  FALSE
    BY DEF OneUndo
  <2>1. CASE u # c /\ v # c
    BY <1>2, <2>1 DEF IInv, OneUndo, InFlight, IsUndo
  <2>2. ASSUME NEW w \in Id, w # c, InFlight(w)', row'[w].reverts = original, original # 0
        PROVE  FALSE
    BY <1>2, <2>2 DEF InFlight, Undoes, Present
  <2> QED BY <1>2, <2>1, <2>2 DEF IsUndo
<1>9. AcksTrue'
  <2>1. TrueAck \subseteq TrueAck' /\ UndoAck \subseteq UndoAck'
    BY <1>2, <1>3, <1>4 DEF TrueAck, UndoAck, IsUndo, Ack
  <2> QED BY <1>4, <2>1, AcksKept DEF AcksTrue
<1>10. FlushKnows'
  <2>1. Listed \subseteq Listed'
    BY <1>1, <1>2 DEF Listed, IsUndo
  <2> QED BY <1>4, <2>1, FlushKept
<1>11. NobodyForgotten'
  BY <1>2, <1>4 DEF IInv, NobodyForgotten, Awaited, IsUndo
<1>12. UndoHandedOnce'
  BY <1>4 DEF IInv, UndoHandedOnce
<1> QED BY <1>5, <1>6, <1>7, <1>8, <1>9, <1>10, <1>11, <1>12 DEF IInv

LEMMA InsertSteps ==
  ASSUME IInv, Create \/ \E o \in Operators : DispatchUndo(o)
  PROVE  IInv'
<1>1. TypeOK /\ DeleteKnows
  BY DEF IInv
<1>2. CASE Create
  <2>1. 0 \in 0..MaxCommands /\ Insert(0) /\ UNCHANGED <<streams, delete, ran, history>>
    BY <1>2, CommandBounds DEF Create
  <2>2. delete' \in DeleteType /\ DeleteKnows'
    BY <1>1, <2>1, DeleteKept DEF TypeOK, DeleteType
  <2> QED BY <2>1, <2>2, InsertKeeps
<1>3. CASE \E o \in Operators : DispatchUndo(o)
  <2>1. PICK o \in Operators : DispatchUndo(o)
    BY <1>3
  <2> DEFINE original == delete[o].id
  <2>2. original \in ran /\ original \in 0..MaxCommands
    BY <1>1, <2>1 DEF DispatchUndo, DeleteKnows, TypeOK
  <2>3. /\ Insert(original) /\ UNCHANGED <<streams, ran, history>>
        /\ ~\E u \in Id : Undoes(u, original) /\ InFlight(u)
        /\ delete' = [delete EXCEPT ![o] = NoEntry]
    BY <2>1 DEF DispatchUndo
  <2>4. NoEntry \in [step : {"no", "drop", "undo"}, id : 0..MaxCommands]
    BY CommandBounds DEF NoEntry
  <2>5. ran' = ran
    BY <2>3
  <2>6. delete' \in DeleteType /\ DeleteKnows'
    BY <1>1, <2>3, <2>4, <2>5 DEF TypeOK, DeleteType, DeleteKnows, NoEntry
  <2> QED BY <2>2, <2>3, <2>6, InsertKeeps
<1> QED BY <1>2, <1>3

-----------------------------------------------------------------------------
(* Handing over                                                            *)

QueueTyped == queue \in [Session -> Seq(Id)] /\ \A s \in Session : Len(queue[s]) <= QueueCap

\* A command that is not an undo handed over before goes onto the channel the
\* hub holds, or is left out.
LEMMA HandKeeps ==
  ASSUME IInv, NEW c \in Id, row[c].status # "none", ~(IsUndo(c) /\ c \in handed),
         Hand(c) \/ CannotHand(c), UNCHANGED <<row, hub>>
  PROVE  /\ QueueTyped' /\ UndoHandedOnce'
         /\ handed' \subseteq Id /\ again' \subseteq Id /\ missed' \subseteq Id
         /\ handed \subseteq handed' /\ handed' \subseteq handed \cup {c}
         /\ handed \cup missed \subseteq handed' \cup missed'
         /\ c \in handed' \cup missed' \/ hub = 0
         /\ Hand(c) => c \in handed'
<1> USE CommandBounds
<1>1. TypeOK /\ again = {}
  BY DEF IInv, UndoHandedOnce
<1>2. CASE Hand(c)
  <2>1. hub \in Session /\ Len(queue[hub]) < QueueCap
    BY <1>1, <1>2 DEF Hand, Room, TypeOK, Session
  <2>2. queue[hub] \in Seq(Id) /\ Len(queue[hub]) \in Nat
    BY <1>1, <2>1, LenProperties DEF TypeOK
  <2>3. Append(queue[hub], c) \in Seq(Id) /\ Len(Append(queue[hub], c)) = Len(queue[hub]) + 1
    BY <2>2, AppendProperties
  <2>4. queue' = [queue EXCEPT ![hub] = Append(queue[hub], c)]
    BY <1>2 DEF Hand
  <2>5. queue' \in [Session -> Seq(Id)]
    BY <1>1, <2>3, <2>4 DEF TypeOK
  <2>6. ASSUME NEW s \in Session
        PROVE  Len(queue'[s]) <= QueueCap
    <3>1. CASE s = hub
      <4>1. queue'[s] = Append(queue[hub], c)
        BY <1>1, <2>1, <2>4, <3>1 DEF TypeOK
      <4>2. Len(queue'[s]) = Len(queue[hub]) + 1
        BY <2>3, <4>1
      <4> QED BY <2>1, <2>2, <4>2
    <3>2. CASE s # hub
      BY <1>1, <2>4, <3>2 DEF TypeOK
    <3> QED BY <3>1, <3>2
  <2> QED BY <1>1, <1>2, <2>5, <2>6 DEF Hand, TypeOK, QueueTyped, UndoHandedOnce
<1>3. CASE CannotHand(c)
  <2>1. /\ queue' = queue /\ handed' = handed /\ again' = again
        /\ missed' = (IF hub = 0 \/ c \in handed THEN missed ELSE missed \cup {c})
        /\ ~Room
    BY <1>3 DEF CannotHand
  <2>2. ~Hand(c)
    BY <2>1 DEF Hand
  <2> QED BY <1>1, <2>1, <2>2 DEF TypeOK, QueueTyped, UndoHandedOnce
<1> QED BY <1>2, <1>3

LEMMA RequestHandsStep ==
  ASSUME IInv, NEW c \in Id, RequestHands(c)
  PROVE  IInv'
<1>1. TypeOK /\ request[c] = "hand"
  BY DEF IInv, RequestHands
<1>2. UNCHANGED <<row, stream, hub, acks, acked, flush, link, delete, ran>>
  BY DEF RequestHands
<1>3. row[c].status # "none" /\ ~(IsUndo(c) /\ c \in handed)
  BY <1>1 DEF IInv, NoneIsBlank, RequestKnows
<1>4. \/ Hand(c) /\ request' = [request EXCEPT ![c] = "mark"]
      \/ CannotHand(c) /\ request' = [request EXCEPT ![c] = "done"]
  BY DEF RequestHands
<1>5. /\ QueueTyped' /\ UndoHandedOnce'
      /\ handed' \subseteq Id /\ again' \subseteq Id /\ missed' \subseteq Id
      /\ handed \subseteq handed' /\ handed' \subseteq handed \cup {c}
      /\ handed \cup missed \subseteq handed' \cup missed'
      /\ c \in handed' \cup missed' \/ hub = 0
      /\ Hand(c) => c \in handed'
  BY <1>2, <1>3, <1>4, HandKeeps
<1>6. /\ request' \in [Id -> {"done", "hand", "mark"}]
      /\ request'[c] \in {"done", "mark"} /\ (request'[c] = "mark" => c \in handed')
      /\ \A b \in Id \ {c} : request'[b] = request[b]
  BY <1>1, <1>4, <1>5 DEF TypeOK
<1>7. RowStep /\ Truthful
  BY <1>1, <1>2, NoRowStep DEF Truthful
<1>8. TypeOK'
  BY <1>1, <1>2, <1>5, <1>6 DEF TypeOK, QueueTyped
<1>9. NoneIsBlank'
  BY <1>3, <1>5, <1>6, <1>7, NoneKept DEF IInv, NoneIsBlank
<1>10. RowsTellTruth' /\ OneUndo' /\ AcksTrue'
  BY <1>2, <1>7, RowsKept, AnswersStay
<1>11. RequestKnows'
  BY <1>2, <1>5, <1>6 DEF IInv, RequestKnows, IsUndo
<1>12. DeleteKnows' /\ FlushKnows'
  BY <1>1, <1>2, <1>5, <1>7, DeleteKept, FlushKept, RowStepMeans
<1>13. NobodyForgotten'
  BY <1>2, <1>5, <1>6, <1>7, ForgottenKept
<1> QED BY <1>5, <1>8, <1>9, <1>10, <1>11, <1>12, <1>13 DEF IInv

-----------------------------------------------------------------------------
(* Sessions and their flushes                                              *)

FlushType == [step : {"no", "list", "hand", "mark", "done"}, todo : Seq(Id)]

StreamsTyped ==
  /\ stream \in [Session -> {"unused", "enrolled", "open", "closed"}]
  /\ hub \in 0..MaxSessions /\ link \in 0..MaxSessions
  /\ QueueTyped /\ AcksTyped
  /\ flush \in [Session -> FlushType]

LEMMA TypesOfStreams ==
  ASSUME IInv
  PROVE  TypeOK /\ StreamsTyped
  BY DEF IInv, TypeOK, StreamsTyped, QueueTyped, AcksTyped, FlushType

\* Nothing is inserted, handed over or deleted.
LEMMA StreamKeeps ==
  ASSUME IInv, RowStep, Truthful, UNCHANGED <<request, delete, handed, again>>,
         ran \subseteq ran', ran' \subseteq Id, missed' \subseteq Id,
         StreamsTyped', AcksTrue', FlushKnows', NobodyForgotten'
  PROVE  IInv'
<1>1. TypeOK'
  BY DEF IInv, TypeOK, RowStep, StreamsTyped, QueueTyped, AcksTyped, FlushType
<1>2. RowsTellTruth' /\ OneUndo'
  BY RowsKept
<1>3. NoneIsBlank'
  BY NoneKept DEF IInv, NoneIsBlank
<1>4. RequestKnows'
  BY RowStepMeans DEF IInv, RequestKnows
<1>5. DeleteKnows' /\ UndoHandedOnce'
  BY DeleteKept DEF IInv, UndoHandedOnce
<1> QED BY <1>1, <1>2, <1>3, <1>4, <1>5 DEF IInv

\* A flush is not a step of any other session's.
LEMMA FlushOf ==
  ASSUME TypeOK, NEW s \in Session, NEW f \in FlushType, flush' = [flush EXCEPT ![s] = f]
  PROVE  /\ flush' \in [Session -> FlushType]
         /\ flush'[s] = f
         /\ \A t \in Session \ {s} : flush'[t] = flush[t]
  BY DEF TypeOK, FlushType

LEMMA FlushHandsStep ==
  ASSUME IInv, NEW s \in Session, FlushHands(s)
  PROVE  IInv'
<1> DEFINE todo == flush[s].todo
           c    == Head(todo)
<1>1. TypeOK /\ flush[s].step = "hand" /\ todo \in Seq(Listed) /\ todo # <<>> /\ todo \in Seq(Id)
  BY DEF IInv, FlushHands, FlushKnows, TypeOK
<1>2. c \in Listed
  BY <1>1, HeadTailProperties
<1>3. c \in Id /\ row[c].status # "none" /\ ~IsUndo(c)
  BY <1>2 DEF Listed
<1>4. UNCHANGED <<row, request, stream, hub, acks, acked, link, delete, ran>>
  BY DEF FlushHands
<1>5. Hand(c) \/ CannotHand(c)
  BY DEF FlushHands
<1>6. /\ QueueTyped' /\ UndoHandedOnce'
      /\ handed' \subseteq Id /\ again' \subseteq Id /\ missed' \subseteq Id
      /\ handed \subseteq handed' /\ handed' \subseteq handed \cup {c}
      /\ handed \cup missed \subseteq handed' \cup missed'
      /\ Hand(c) => c \in handed'
  BY <1>3, <1>4, <1>5, HandKeeps
<1> DEFINE f == IF Hand(c) /\ flush' = [flush EXCEPT ![s].step = "mark"]
                  THEN [step |-> "mark", todo |-> todo] ELSE Idle
<1>7. f \in FlushType
  BY <1>1, EmptySeq DEF FlushType, Idle
<1>8. flush' = [flush EXCEPT ![s] = f]
  <2>1. [flush[s] EXCEPT !.step = "mark"] = [step |-> "mark", todo |-> todo]
    BY <1>1 DEF TypeOK
  <2> QED BY <2>1 DEF FlushHands
<1>9. /\ flush' \in [Session -> FlushType] /\ flush'[s] = f
      /\ \A t \in Session \ {s} : flush'[t] = flush[t]
  BY <1>1, <1>7, <1>8, FlushOf
<1>10. RowStep /\ Truthful
  BY <1>1, <1>4, NoRowStep DEF Truthful
<1>11. TypeOK'
  BY <1>1, <1>4, <1>6, <1>9 DEF TypeOK, QueueTyped, FlushType
<1>12. NoneIsBlank'
  BY <1>3, <1>4, <1>6, <1>10, NoneKept DEF IInv, NoneIsBlank
<1>13. RowsTellTruth' /\ OneUndo' /\ AcksTrue' /\ DeleteKnows'
  BY <1>4, <1>10, RowsKept, AnswersStay, DeleteKept
<1>14. RequestKnows'
  BY <1>3, <1>4, <1>6 DEF IInv, RequestKnows, IsUndo
<1>15. FlushKnows'
  <2>1. Listed' = Listed
    BY <1>4 DEF Listed, IsUndo
  <2> SUFFICES ASSUME NEW t \in Session
               PROVE  /\ flush'[t].todo \in Seq(Listed)
                      /\ flush'[t].step \in {"hand", "mark"} => flush'[t].todo # <<>>
                      /\ flush'[t].step = "mark" => Head(flush'[t].todo) \in handed'
    BY <2>1 DEF FlushKnows
  <2>2. CASE t # s
    BY <1>6, <1>9, <2>2 DEF IInv, FlushKnows
  <2>3. CASE t = s /\ f = Idle
    <3>1. flush'[t].todo = <<>> /\ flush'[t].step = "no"
      BY <1>9, <2>3 DEF Idle
    <3> QED BY <3>1, EmptySeq
  <2>4. CASE t = s /\ f # Idle
    <3>1. flush'[t].todo = todo /\ c \in handed'
      BY <1>6, <1>9, <2>4
    <3> QED BY <1>1, <3>1
  <2> QED BY <2>2, <2>3, <2>4
<1>16. NobodyForgotten'
  <2>1. ASSUME NEW b \in Id, hub # 0, Awaited(b, hub)
        PROVE  Awaited(b, hub)'
    <3>1. hub \in Session
      BY <1>1, <2>1 DEF TypeOK, Session
    <3>2. CASE hub # s
      BY <1>4, <1>9, <2>1, <3>1, <3>2 DEF Awaited
    <3>3. CASE hub = s
      BY <1>1, <1>4, <1>9, <2>1, <3>3 DEF Awaited, Idle
    <3> QED BY <3>2, <3>3
  <2> QED BY <1>4, <1>6, <2>1 DEF IInv, NobodyForgotten, IsUndo
<1> QED BY <1>6, <1>11, <1>12, <1>13, <1>14, <1>15, <1>16 DEF IInv

LEMMA FlushMarksStep ==
  ASSUME IInv, NEW s \in Session, FlushMarks(s)
  PROVE  IInv'
<1> DEFINE todo == flush[s].todo
           rest == Tail(todo)
           f    == IF stream[s] = "closed" THEN Idle
                   ELSE [step |-> IF rest = <<>> THEN "done" ELSE "hand", todo |-> rest]
<1>1. /\ TypeOK /\ StreamsTyped
      /\ flush[s].step = "mark" /\ todo \in Seq(Listed) /\ todo # <<>> /\ todo \in Seq(Id)
      /\ Head(todo) \in handed
  BY TypesOfStreams DEF IInv, FlushMarks, FlushKnows, TypeOK
<1>2. /\ Head(todo) \in Id /\ rest \in Seq(Listed) /\ rest \in Seq(Id)
      /\ Len(rest) = Len(todo) - 1
      /\ \A i \in 1..Len(rest) : rest[i] = todo[i + 1]
      /\ Head(todo) = todo[1]
  BY <1>1, HeadTailProperties
<1>3. UNCHANGED <<request, stream, hub, queue, acks, acked, link, delete, ran, handed, again, missed>>
  BY DEF FlushMarks, history
<1>4. RowStep /\ Truthful
  <2>1. CASE MarkSent(Head(todo))
    BY <1>1, <1>2, <2>1, MarkSentStep DEF Truthful
  <2>2. CASE UNCHANGED row
    BY <1>1, <2>2, NoRowStep DEF Truthful
  <2> QED BY <2>1, <2>2 DEF FlushMarks
<1>5. f \in FlushType /\ flush' = [flush EXCEPT ![s] = f]
  BY <1>2, EmptySeq DEF FlushType, Idle, FlushMarks
<1>6. /\ flush' \in [Session -> FlushType] /\ flush'[s] = f
      /\ \A t \in Session \ {s} : flush'[t] = flush[t]
  BY <1>1, <1>5, FlushOf
<1>7. StreamsTyped'
  BY <1>1, <1>3, <1>6 DEF StreamsTyped, QueueTyped, AcksTyped
<1>8. AcksTrue'
  BY <1>3, <1>4, AnswersStay
<1>9. FlushKnows'
  <2>1. Listed \subseteq Listed'
    BY <1>1, <1>4, RowStepMeans
  <2> SUFFICES ASSUME NEW t \in Session
               PROVE  /\ flush'[t].todo \in Seq(Listed')
                      /\ flush'[t].step \in {"hand", "mark"} => flush'[t].todo # <<>>
                      /\ flush'[t].step = "mark" => Head(flush'[t].todo) \in handed'
    BY DEF FlushKnows
  <2>2. CASE t # s
    <3>1. flush'[t] = flush[t] /\ flush[t].todo \in Seq(Listed')
      BY <1>6, <2>1, <2>2, SeqMonotonic DEF IInv, FlushKnows
    <3> QED BY <1>3, <3>1 DEF IInv, FlushKnows
  <2>3. CASE t = s
    <3>1. rest \in Seq(Listed') /\ <<>> \in Seq(Listed')
      BY <1>2, <2>1, SeqMonotonic, EmptySeq
    <3>2. /\ flush'[t].step \in {"no", "done"} \/ (flush'[t].step = "hand" /\ flush'[t].todo # <<>>)
          /\ flush'[t].todo \in {rest, <<>>}
      BY <1>6, <2>3 DEF Idle
    <3> QED BY <3>1, <3>2
  <2> QED BY <2>2, <2>3
<1>10. NobodyForgotten'
  <2>1. ASSUME NEW b \in Id, b \notin handed, hub # 0, Awaited(b, hub)
        PROVE  Awaited(b, hub)'
    <3>1. hub \in Session
      BY <1>1, <2>1 DEF TypeOK, Session
    <3>2. CASE hub # s
      BY <1>3, <1>6, <2>1, <3>1, <3>2 DEF Awaited
    <3>3. CASE hub = s /\ stream[s] = "closed"
      BY <1>3, <1>6, <3>3 DEF Awaited, Idle
    <3>4. CASE hub = s /\ stream[s] # "closed"
      <4>1. PICK i \in 1..Len(todo) : todo[i] = b
        BY <1>1, <2>1, <3>4 DEF Awaited
      <4>2. i # 1
        BY <1>1, <1>2, <2>1, <4>1
      <4>3. Len(todo) \in Nat /\ i - 1 \in 1..Len(rest)
        BY <1>1, <1>2, <4>1, <4>2, LenProperties
      <4>4. rest[i - 1] = b
        BY <1>2, <4>1, <4>3
      <4>5. rest # <<>>
        <5> HIDE DEF rest
        <5>1. rest = <<>> => Len(rest) = 0
          OBVIOUS
        <5> QED BY <1>1, <4>1, <4>3, <5>1, LenProperties
      <4>6. flush'[hub].step = "hand" /\ flush'[hub].todo = rest
        BY <1>6, <3>4, <4>5
      <4> QED BY <1>3, <4>3, <4>4, <4>6 DEF Awaited
    <3> QED BY <3>2, <3>3, <3>4
  <2> QED BY <1>1, <1>3, <1>4, <2>1, RowStepMeans DEF IInv, NobodyForgotten
<1> QED BY <1>1, <1>3, <1>4, <1>7, <1>8, <1>9, <1>10, StreamKeeps DEF TypeOK

LEMMA FlushListsStep ==
  ASSUME IInv, NEW s \in Session, FlushLists(s)
  PROVE  IInv'
<1>1. TypeOK /\ StreamsTyped
  BY TypesOfStreams
<1>2. PICK some \in BoundedSeq(Pending, QueueCap) :
        /\ flush' = [flush EXCEPT ![s] = [step |-> IF some = <<>> THEN "done" ELSE "hand",
                                          todo |-> some]]
        /\ missed' = missed \cup ((Pending \ ToSet(some)) \ handed)
  BY DEF FlushLists
<1>3. some \in Seq(Pending)
  BY DEF BoundedSeq, SeqOf
<1>4. UNCHANGED <<row, request, stream, hub, queue, acks, acked, link, delete, ran, handed, again>>
  BY DEF FlushLists
<1>5. Pending \subseteq Listed /\ Pending \subseteq Id /\ Listed' = Listed
  BY <1>4 DEF Pending, Listed, IsUndo
<1>6. some \in Seq(Listed) /\ some \in Seq(Id)
  BY <1>3, <1>5, SeqMonotonic
<1> DEFINE f == [step |-> IF some = <<>> THEN "done" ELSE "hand", todo |-> some]
<1>7. f \in FlushType /\ flush' = [flush EXCEPT ![s] = f]
  BY <1>2, <1>6 DEF FlushType
<1>8. /\ flush' \in [Session -> FlushType] /\ flush'[s] = f
      /\ \A t \in Session \ {s} : flush'[t] = flush[t]
  BY <1>1, <1>7, FlushOf
<1>9. StreamsTyped' /\ missed' \subseteq Id
  BY <1>1, <1>2, <1>4, <1>5, <1>8 DEF StreamsTyped, QueueTyped, AcksTyped, TypeOK
<1>10. RowStep /\ Truthful /\ AcksTrue'
  BY <1>1, <1>4, NoRowStep, AnswersStay DEF Truthful
<1>11. FlushKnows'
  <2> SUFFICES ASSUME NEW t \in Session
               PROVE  /\ flush'[t].todo \in Seq(Listed)
                      /\ flush'[t].step \in {"hand", "mark"} => flush'[t].todo # <<>>
                      /\ flush'[t].step = "mark" => Head(flush'[t].todo) \in handed'
    BY <1>5 DEF FlushKnows
  <2>1. CASE t # s
    BY <1>4, <1>8, <2>1 DEF IInv, FlushKnows
  <2>2. CASE t = s
    BY <1>6, <1>8, <2>2
  <2> QED BY <2>1, <2>2
<1>12. NobodyForgotten'
  <2>1. ASSUME NEW b \in Id, row[b].status = "pending", ~IsUndo(b), b \notin handed, b \notin missed',
               hub # 0, Awaited(b, hub)
        PROVE  Awaited(b, hub)'
    <3>1. hub \in Session
      BY <1>1, <2>1 DEF TypeOK, Session
    <3>2. CASE hub # s
      BY <1>4, <1>8, <2>1, <3>1, <3>2 DEF Awaited
    <3>3. CASE hub = s
      <4>1. b \in ToSet(some)
        BY <1>2, <2>1 DEF Pending
      <4>2. PICK i \in 1..Len(some) : some[i] = b
        BY <1>3, <4>1, LenProperties DEF ToSet
      <4>3. some # <<>>
        BY <4>2, EmptySeq
      <4>4. flush'[hub].step = "hand" /\ flush'[hub].todo = some
        BY <1>8, <3>3, <4>3
      <4> QED BY <1>4, <4>2, <4>4 DEF Awaited
    <3> QED BY <3>2, <3>3
  <2> QED BY <1>2, <1>4, <2>1 DEF IInv, NobodyForgotten, IsUndo
<1> QED BY <1>1, <1>4, <1>9, <1>10, <1>11, <1>12, StreamKeeps DEF TypeOK

\* A session begins, ends or carries a message; the rows, the requests and
\* the operators stay.
LEMMA SessionKeeps ==
  ASSUME IInv, UNCHANGED <<row, request, delete, handed, again, missed>>,
         ran \subseteq ran', ran' \subseteq Id, StreamsTyped', AcksTrue',
         \A s \in Session :
           \/ flush'[s] = flush[s]
           \/ flush'[s].step \in {"no", "list"} /\ flush'[s].todo = <<>>,
         hub' \in {0, hub} \/ flush'[hub'].step = "list"
  PROVE  IInv'
<1>1. TypeOK
  BY DEF IInv
<1>2. RowStep /\ Truthful
  BY <1>1, NoRowStep DEF Truthful
<1>3. FlushKnows'
  BY <1>1, <1>2, RowStepMeans, FlushKept
<1>4. NobodyForgotten'
  <2>1. ASSUME NEW b \in Id, hub' # 0, hub # 0 => Awaited(b, hub)
        PROVE  Awaited(b, hub)'
    <3>1. CASE hub' = hub
      <4>1. hub \in Session
        BY <1>1, <2>1, <3>1 DEF TypeOK, Session
      <4> QED BY <2>1, <3>1, <4>1 DEF Awaited
    <3>2. CASE hub' # hub
      BY <2>1, <3>2 DEF Awaited
    <3> QED BY <3>1, <3>2
  <2>2. CASE hub' = hub
    BY <2>1, <2>2 DEF IInv, NobodyForgotten, IsUndo
  <2>3. CASE hub' # hub /\ hub' # 0
    BY <2>3 DEF NobodyForgotten, Awaited
  <2> QED BY <2>2, <2>3 DEF NobodyForgotten
<1> QED BY <1>1, <1>2, <1>3, <1>4, StreamKeeps DEF TypeOK

\* What is left of a channel fits, whichever part of it is left.
LEMMA ChannelParts ==
  ASSUME TypeOK, NEW s \in Session
  PROVE  /\ queue[s] \in Seq(Id) /\ <<>> \in Seq(Id) /\ Len(<<>>) <= QueueCap
         /\ Len(queue[s]) \in Nat
         /\ queue[s] # <<>> =>
              /\ Head(queue[s]) \in Id
              /\ Tail(queue[s]) \in Seq(Id) /\ Len(Tail(queue[s])) <= QueueCap
         /\ \A n \in 0..Len(queue[s]) :
              SubSeq(queue[s], 1, n) \in Seq(Id) /\ Len(SubSeq(queue[s], 1, n)) <= QueueCap
<1>1. queue[s] \in Seq(Id) /\ Len(queue[s]) <= QueueCap
  BY DEF TypeOK
<1>2. Len(queue[s]) \in Nat /\ QueueCap \in Nat
  BY <1>1, LenProperties, CommandBounds
<1>3. <<>> \in Seq(Id) /\ Len(<<>>) <= QueueCap
  BY <1>2, EmptySeq
<1>4. queue[s] # <<>> =>
        /\ Head(queue[s]) \in Id
        /\ Tail(queue[s]) \in Seq(Id) /\ Len(Tail(queue[s])) <= QueueCap
  BY <1>1, <1>2, HeadTailProperties
<1>5. ASSUME NEW n \in 0..Len(queue[s])
      PROVE  SubSeq(queue[s], 1, n) \in Seq(Id) /\ Len(SubSeq(queue[s], 1, n)) <= QueueCap
  <2>1. \A i \in 1..n : queue[s][i] \in Id
    BY <1>1, <1>2, ElementOfSeq
  <2> QED BY <1>1, <1>2, <2>1, SubSeqProperties
<1> QED BY <1>1, <1>2, <1>3, <1>4, <1>5

LEMMA SessionSteps ==
  ASSUME IInv, NEW s \in Session,
         Enroll(s) \/ Register(s) \/ SendInVain(s) \/ FlushCannotList(s)
  PROVE  IInv'
<1>1. TypeOK /\ StreamsTyped
  BY TypesOfStreams
<1>2. UNCHANGED <<row, request, acks, acked, delete, ran, handed, again, missed>>
  BY DEF Enroll, Register, SendInVain, FlushCannotList, history
<1>3. AcksTrue' /\ AcksTyped'
  BY <1>1, <1>2, NoRowStep, AnswersStay DEF Truthful
<1>4. ran' \subseteq Id
  BY <1>1, <1>2 DEF TypeOK
<1>5. s \in 0..MaxSessions
  BY DEF Session
<1>6. CASE Enroll(s)
  <2>1. UNCHANGED <<hub, queue, flush>>
    BY <1>6 DEF Enroll
  <2>2. StreamsTyped'
    BY <1>1, <1>3, <1>5, <1>6, <2>1 DEF Enroll, StreamsTyped, QueueTyped
  <2> QED BY <1>2, <1>3, <1>4, <2>1, <2>2, SessionKeeps
<1>7. CASE Register(s)
  <2> DEFINE f == [step |-> "list", todo |-> <<>>]
  <2>1. f \in FlushType /\ flush' = [flush EXCEPT ![s] = f]
    BY <1>7, EmptySeq DEF FlushType, Register
  <2>2. /\ flush' \in [Session -> FlushType] /\ flush'[s] = f
        /\ \A t \in Session \ {s} : flush'[t] = flush[t]
    BY <1>1, <2>1, FlushOf
  <2>3. StreamsTyped' /\ hub' = s
    BY <1>1, <1>3, <1>5, <1>7, <2>2 DEF Register, StreamsTyped, QueueTyped
  <2> QED BY <1>2, <1>3, <1>4, <2>2, <2>3, SessionKeeps
<1>8. CASE SendInVain(s)
  <2>1. UNCHANGED <<stream, hub, flush, link>> /\ queue' = [queue EXCEPT ![s] = Tail(queue[s])]
    BY <1>8 DEF SendInVain
  <2>2. Tail(queue[s]) \in Seq(Id) /\ Len(Tail(queue[s])) <= QueueCap
    BY <1>1, <1>8, ChannelParts DEF SendInVain
  <2>3. StreamsTyped'
    BY <1>1, <1>3, <2>1, <2>2 DEF StreamsTyped, QueueTyped
  <2> QED BY <1>2, <1>3, <1>4, <2>1, <2>3, SessionKeeps
<1>9. CASE FlushCannotList(s)
  <2>1. Idle \in FlushType /\ flush' = [flush EXCEPT ![s] = Idle]
    BY <1>9, EmptySeq DEF FlushType, FlushCannotList, Idle
  <2>2. /\ flush' \in [Session -> FlushType] /\ flush'[s] = Idle
        /\ \A t \in Session \ {s} : flush'[t] = flush[t]
    BY <1>1, <2>1, FlushOf
  <2>3. UNCHANGED <<stream, hub, queue, link>>
    BY <1>9 DEF FlushCannotList
  <2>4. StreamsTyped'
    BY <1>1, <1>3, <2>2, <2>3 DEF StreamsTyped, QueueTyped
  <2>5. \A t \in Session : \/ flush'[t] = flush[t]
                           \/ flush'[t].step \in {"no", "list"} /\ flush'[t].todo = <<>>
    BY <2>2 DEF Idle
  <2> QED BY <1>2, <1>3, <1>4, <2>3, <2>4, <2>5, SessionKeeps
<1> QED BY <1>6, <1>7, <1>8, <1>9

LEMMA EndSessionStep ==
  ASSUME IInv, NEW s \in Session, EndSession(s)
  PROVE  IInv'
<1> DEFINE f == IF flush[s].step = "done" THEN Idle ELSE flush[s]
<1>1. TypeOK /\ StreamsTyped
  BY TypesOfStreams
<1>2. UNCHANGED <<row, request, link, delete, ran, handed, again, missed>>
  BY DEF EndSession, history
<1>3. /\ stream' = [stream EXCEPT ![s] = "closed"]
      /\ hub' \in {0, hub}
      /\ acks' = [acks EXCEPT ![s] = <<>>]
      /\ acked' = [acked EXCEPT ![s] = <<>>]
  BY DEF EndSession, Unregister
<1>4. f \in FlushType /\ flush' = [flush EXCEPT ![s] = f]
  BY <1>1, EmptySeq DEF StreamsTyped, FlushType, Idle, EndSession
<1>5. /\ flush' \in [Session -> FlushType] /\ flush'[s] = f
      /\ \A t \in Session \ {s} : flush'[t] = flush[t]
  BY <1>1, <1>4, FlushOf
<1>6. QueueTyped'
  <2>1. PICK n \in 0..Len(queue[s]) :
          queue' = [queue EXCEPT ![s] = IF link = s THEN SubSeq(queue[s], 1, n) ELSE <<>>]
    BY DEF EndSession
  <2> DEFINE left == IF link = s THEN SubSeq(queue[s], 1, n) ELSE <<>>
  <2>2. left \in Seq(Id) /\ Len(left) <= QueueCap
    BY <1>1, ChannelParts
  <2> HIDE DEF left
  <2>3. queue' = [queue EXCEPT ![s] = left]
    BY <2>1 DEF left
  <2> QED BY <1>1, <2>2, <2>3 DEF StreamsTyped, QueueTyped
<1>7. AcksTyped'
  BY <1>1, <1>3, EmptySeq DEF StreamsTyped, AcksTyped
<1>8. StreamsTyped'
  <2>1. hub' \in 0..MaxSessions /\ link' \in 0..MaxSessions
    BY <1>1, <1>2, <1>3, CommandBounds DEF StreamsTyped
  <2>2. stream' \in [Session -> {"unused", "enrolled", "open", "closed"}]
    BY <1>1, <1>3 DEF StreamsTyped
  <2> QED BY <1>5, <1>6, <1>7, <2>1, <2>2 DEF StreamsTyped
<1>9. AcksTrue'
  <2> SUFFICES ASSUME NEW t \in Session
               PROVE  acks'[t] \in Seq(TrueAck') /\ acked'[t] \in Seq(UndoAck')
    BY DEF AcksTrue
  <2>1. RowStep /\ Truthful
    BY <1>1, <1>2, NoRowStep DEF Truthful
  <2>2. acks[t] \in Seq(TrueAck') /\ acked[t] \in Seq(UndoAck')
    BY <1>2, <2>1, RowsKept, AcksKept
  <2> QED BY <1>1, <1>3, <2>2, EmptySeq DEF StreamsTyped, AcksTyped
<1>10. \A t \in Session : \/ flush'[t] = flush[t]
                          \/ flush'[t].step \in {"no", "list"} /\ flush'[t].todo = <<>>
  BY <1>5 DEF Idle
<1>11. ran \subseteq ran' /\ ran' \subseteq Id
  BY <1>1, <1>2 DEF TypeOK
<1> QED BY <1>2, <1>3, <1>8, <1>9, <1>10, <1>11, SessionKeeps

LEMMA DisconnectStep ==
  ASSUME IInv, Disconnect
  PROVE  IInv'
<1>1. TypeOK /\ StreamsTyped /\ link \in Session
  BY TypesOfStreams DEF TypeOK, Disconnect, Session
<1>2. UNCHANGED <<row, request, stream, hub, acks, acked, flush, delete, ran, handed, again, missed>>
  BY DEF Disconnect, history
<1>3. QueueTyped'
  <2>1. queue' = [queue EXCEPT ![link] = IF stream[link] = "open" THEN queue[link] ELSE <<>>]
    BY DEF Disconnect
  <2> QED BY <1>1, <2>1, ChannelParts DEF StreamsTyped, QueueTyped
<1>4. AcksTyped' /\ AcksTrue'
  BY <1>1, <1>2, NoRowStep, AnswersStay DEF Truthful
<1>5. StreamsTyped' /\ ran' \subseteq Id
  BY <1>1, <1>2, <1>3, <1>4, CommandBounds DEF StreamsTyped, TypeOK, Disconnect
<1> QED BY <1>2, <1>4, <1>5, SessionKeeps

\* The agent answers for success only once the command ran.
LEMMA RunStep ==
  ASSUME IInv, NEW ok \in BOOLEAN, Run(ok)
  PROVE  IInv'
<1> DEFINE c == Head(queue[link])
           a == [id |-> c, ok |-> ok]
<1>1. TypeOK /\ StreamsTyped /\ link \in Session /\ queue[link] # <<>>
  BY TypesOfStreams DEF TypeOK, Run, Session
<1>2. UNCHANGED <<row, request, stream, hub, acked, flush, link, delete, handed, again, missed>>
  BY DEF Run, history
<1>3. /\ queue' = [queue EXCEPT ![link] = Tail(queue[link])]
      /\ acks' = [acks EXCEPT ![link] = IF stream[link] = "open" THEN Append(acks[link], a)
                                                               ELSE acks[link]]
      /\ ran' = IF ok THEN ran \cup {c} ELSE ran
  BY DEF Run
<1>4. c \in Id /\ Tail(queue[link]) \in Seq(Id) /\ Len(Tail(queue[link])) <= QueueCap
  BY <1>1, ChannelParts
<1>5. QueueTyped'
  BY <1>1, <1>3, <1>4 DEF StreamsTyped, QueueTyped
<1>6. ran \subseteq ran' /\ ran' \subseteq Id
  BY <1>1, <1>3, <1>4 DEF TypeOK
<1>7. a \in TrueAck'
  BY <1>3, <1>4 DEF TrueAck, Ack
<1>8. AcksTrue'
  <2> SUFFICES ASSUME NEW t \in Session
               PROVE  acks'[t] \in Seq(TrueAck') /\ acked'[t] \in Seq(UndoAck')
    BY DEF AcksTrue
  <2>1. RowStep /\ Truthful
    BY <1>1, <1>2, NoRowStep DEF Truthful
  <2>2. acks[t] \in Seq(TrueAck') /\ acked[t] \in Seq(UndoAck')
    BY <1>6, <2>1, RowsKept, AcksKept
  <2>3. Append(acks[t], a) \in Seq(TrueAck')
    BY <1>7, <2>2, AppendProperties
  <2>4. acks'[t] \in {acks[t], Append(acks[t], a)}
    BY <1>1, <1>3 DEF StreamsTyped, AcksTyped
  <2> QED BY <1>2, <2>2, <2>3, <2>4
<1>9. AcksTyped'
  <2>1. acks' \in [Session -> Seq(Ack)]
    <3>1. a \in Ack
      BY <1>7 DEF TrueAck
    <3>2. Append(acks[link], a) \in Seq(Ack) /\ acks[link] \in Seq(Ack)
      BY <1>1, <3>1, AppendProperties DEF StreamsTyped, AcksTyped
    <3> QED BY <1>1, <1>3, <3>2 DEF StreamsTyped, AcksTyped
  <2> QED BY <1>1, <1>2, <2>1 DEF StreamsTyped, AcksTyped
<1>10. StreamsTyped'
  BY <1>1, <1>2, <1>5, <1>9 DEF StreamsTyped
<1> QED BY <1>2, <1>6, <1>8, <1>10, SessionKeeps

LEMMA MasterRestartStep ==
  ASSUME IInv, MasterRestart
  PROVE  IInv'
<1>1. TypeOK /\ StreamsTyped
  BY TypesOfStreams
<1>2. UNCHANGED <<row, link, ran, handed, again, missed>>
  BY DEF MasterRestart, history
<1>3. /\ hub' = 0
      /\ acks' = [s \in Session |-> <<>>] /\ acked' = [s \in Session |-> <<>>]
      /\ flush' = [s \in Session |-> Idle]
      /\ request' = [c \in Id |-> "done"]
      /\ delete' = [o \in Operators |-> NoEntry]
  BY DEF MasterRestart
<1>4. QueueTyped'
  <2>1. PICK n \in 0..QueueCap :
          queue' = [s \in Session |-> IF link = s /\ n <= Len(queue[s]) THEN SubSeq(queue[s], 1, n)
                                                                       ELSE <<>>]
    BY DEF MasterRestart
  <2>2. ASSUME NEW s \in Session
        PROVE  queue'[s] \in Seq(Id) /\ Len(queue'[s]) <= QueueCap
    <3>1. CASE link = s /\ n <= Len(queue[s])
      <4>1. n \in 0..Len(queue[s])
        BY <1>1, <3>1, ChannelParts, CommandBounds
      <4> QED BY <1>1, <2>1, <3>1, <4>1, ChannelParts
    <3>2. CASE ~(link = s /\ n <= Len(queue[s]))
      BY <1>1, <2>1, <3>2, ChannelParts
    <3> QED BY <3>1, <3>2
  <2> QED BY <2>1, <2>2 DEF QueueTyped
<1>5. /\ Idle \in FlushType
      /\ NoEntry \in [step : {"no", "drop", "undo"}, id : 0..MaxCommands]
  BY EmptySeq, CommandBounds DEF FlushType, Idle, NoEntry
<1>6. TypeOK'
  <2>1. stream' \in [Session -> {"unused", "enrolled", "open", "closed"}]
    BY DEF MasterRestart
  <2>2. AcksTyped' /\ hub' \in 0..MaxSessions
    BY <1>3, EmptySeq, CommandBounds DEF AcksTyped
  <2> QED BY <1>1, <1>2, <1>3, <1>4, <1>5, <2>1, <2>2 DEF TypeOK, QueueTyped, AcksTyped, FlushType
<1>7. RowStep /\ Truthful
  BY <1>1, <1>2, NoRowStep DEF Truthful
<1>8. NoneIsBlank' /\ RequestKnows' /\ DeleteKnows' /\ NobodyForgotten' /\ UndoHandedOnce'
  BY <1>2, <1>3 DEF IInv, NoneIsBlank, RequestKnows, DeleteKnows, NobodyForgotten,
                    UndoHandedOnce, NoEntry
<1>9. RowsTellTruth' /\ OneUndo'
  BY <1>2, <1>7, RowsKept
<1>10. AcksTrue' /\ FlushKnows'
  BY <1>3, EmptySeq DEF AcksTrue, FlushKnows, Idle
<1> QED BY <1>6, <1>8, <1>9, <1>10 DEF IInv

LEMMA NextIInv == IInv /\ [Next]_vars => IInv'
<1> SUFFICES ASSUME IInv, [Next]_vars PROVE IInv'
  OBVIOUS
<1>1. CASE Create
  BY <1>1, InsertSteps
<1>2. ASSUME NEW c \in Id, Request(c) PROVE IInv'
  BY <1>2, RequestHandsStep, RequestMarksStep DEF Request
<1>3. ASSUME NEW s \in Session, Serve(s) PROVE IInv'
  BY <1>3, SessionSteps, EndSessionStep, HandleAckStep, CompleteRevertStep DEF Serve
<1>4. ASSUME NEW s \in Session, Flush(s) PROVE IInv'
  BY <1>4, SessionSteps, FlushListsStep, FlushHandsStep, FlushMarksStep DEF Flush
<1>5. CASE MasterRestart
  BY <1>5, MasterRestartStep
<1>6. CASE Agent
  BY <1>6, RunStep, DisconnectStep DEF Agent
<1>7. ASSUME NEW o \in Operators, Operator(o) PROVE IInv'
  BY <1>7, DeleteSteps, InsertSteps DEF Operator
<1>8. CASE UNCHANGED vars
  <2>1. UNCHANGED <<row, request, stream, hub, queue, acks, acked, flush, link,
                    delete, ran, handed, again, missed>>
    BY <1>8 DEF vars
  <2>2. StreamsTyped' /\ AcksTrue' /\ ran' \subseteq Id
    BY <2>1, NoRowStep, AnswersStay, TypesOfStreams
       DEF Truthful, StreamsTyped, QueueTyped, AcksTyped, TypeOK
  <2> QED BY <2>1, <2>2, SessionKeeps
<1> QED BY <1>1, <1>2, <1>3, <1>4, <1>5, <1>6, <1>7, <1>8 DEF Next

\* The steps that write rows.
LEMMA RowSteps ==
  ASSUME Next
  PROVE  \/ UNCHANGED row
         \/ \E original : Insert(original)
         \/ \E c \in Id : RequestMarks(c)
         \/ \E s \in Session : FlushMarks(s) \/ HandleAck(s) \/ CompleteRevert(s)
         \/ \E o \in Operators : DropEntry(o) \/ \E c \in Id : BeginDelete(o, c)
<1>1. Create \/ (\E o \in Operators : DispatchUndo(o)) => \E original : Insert(original)
  BY DEF Create, DispatchUndo
<1>2. ASSUME NEW c \in Id, RequestHands(c) PROVE UNCHANGED row
  BY <1>2 DEF RequestHands
<1>3. ASSUME NEW s \in Session,
             \/ Enroll(s) \/ Register(s) \/ SendInVain(s) \/ EndSession(s)
             \/ FlushLists(s) \/ FlushCannotList(s) \/ FlushHands(s)
      PROVE  UNCHANGED row
  BY <1>3 DEF Enroll, Register, SendInVain, EndSession, FlushLists, FlushCannotList, FlushHands
<1>4. Agent \/ MasterRestart => UNCHANGED row
  BY DEF Agent, Run, Disconnect, MasterRestart
<1>5. ASSUME NEW o \in Operators, RefuseUndo(o) PROVE UNCHANGED row
  BY <1>5 DEF RefuseUndo
<1> QED BY <1>1, <1>2, <1>3, <1>4, <1>5 DEF Next, Request, Serve, Flush, Operator

\* What each statement, other than an insertion, may do to the rows.
LEMMA RowsMove ==
  ASSUME IInv, Next
  PROVE  (\E original : Insert(original)) \/ RowStep
<1>1. TypeOK /\ AcksTrue
  BY DEF IInv
<1>2. CASE UNCHANGED row
  BY <1>1, <1>2, NoRowStep
<1>3. ASSUME NEW c \in Id, RequestMarks(c) PROVE RowStep
  BY <1>1, <1>3, MarkSentStep, NoRowStep DEF RequestMarks
<1>4. ASSUME NEW s \in Session, FlushMarks(s) PROVE RowStep
  <2>1. flush[s].todo \in Seq(Id) /\ flush[s].todo # <<>>
    BY <1>1, <1>4 DEF FlushMarks, IInv, FlushKnows, TypeOK
  <2>2. Head(flush[s].todo) \in Id
    BY <2>1, HeadTailProperties
  <2> QED BY <1>1, <1>4, <2>2, MarkSentStep, NoRowStep DEF FlushMarks
<1>5. ASSUME NEW s \in Session, HandleAck(s) PROVE RowStep
  <2>1. acks[s] \in Seq(Ack) /\ acks[s] # <<>>
    BY <1>1, <1>5 DEF TypeOK, HandleAck
  <2>2. Head(acks[s]) \in Ack
    BY <2>1, HeadTailProperties
  <2> QED BY <1>1, <1>5, <2>2, AnswerStep DEF HandleAck
<1>6. ASSUME NEW s \in Session, CompleteRevert(s) PROVE RowStep
  BY <1>1, <1>6, DeleteRowsStep, NoRowStep DEF CompleteRevert
<1>7. ASSUME NEW o \in Operators, NEW c \in Id, BeginDelete(o, c) PROVE RowStep
  BY <1>1, <1>7, ExpiredStep DEF BeginDelete
<1>8. ASSUME NEW o \in Operators, DropEntry(o) PROVE RowStep
  BY <1>1, <1>8, DeleteRowsStep DEF DropEntry
<1> QED BY <1>2, <1>3, <1>4, <1>5, <1>6, <1>7, <1>8, RowSteps

-----------------------------------------------------------------------------
(* The theorems                                                            *)

\* Every state the master, the streams and the agent can reach satisfies the
\* inductive invariant: rows that tell what the machine did, requests and
\* flushes that know what they handed over, and answers that are true.
THEOREM InductiveInvariant == Spec => []IInv
  BY InitIInv, NextIInv, PTL DEF Spec

\* The commands table, the channels, the streams and the operators' requests
\* keep their types; no channel ever holds more than its capacity (hub.go).
THEOREM TypeCorrect == Spec => []TypeOK
<1>1. IInv => TypeOK
  BY DEF IInv
<1> QED BY <1>1, InductiveInvariant, PTL

\* At most one undo of a command is in flight, for any number of operators
\* whose requests read the entry before either inserts (revert.go
\* RevertCommand).
THEOREM OneUndoInFlightAlways == Spec => []OneUndoInFlight
<1>1. IInv => OneUndoInFlight
  <2> SUFFICES ASSUME IInv, NEW c \in Id
               PROVE  Cardinality({u \in Id : Undoes(u, c) /\ InFlight(u)}) <= 1
    BY DEF OneUndoInFlight
  <2> DEFINE U == {u \in Id : Undoes(u, c) /\ InFlight(u)}
  <2>1. \A u, v \in U : u = v
    <3>1. c # 0
      BY DEF Id
    <3> QED BY <3>1 DEF IInv, OneUndo, Undoes, IsUndo
  <2>2. CASE U = {}
    BY <2>2, FS_EmptySet
  <2>3. CASE U # {}
    <3>1. PICK u \in U : U = {u}
      BY <2>1, <2>3
    <3>2. Cardinality({u}) = 1
      BY FS_Singleton
    <3> HIDE DEF U
    <3>3. Cardinality(U) = 1
      BY <3>1, <3>2
    <3> QED BY <3>3 DEF U
  <2> QED BY <2>2, <2>3
<1> QED BY <1>1, InductiveInvariant, PTL

\* The undo of a command is given to the agent only after the command ran there
\* successfully, whatever was resent, answered late or timed out in between
\* (revert.go DescribeRevert).
THEOREM UndoFollowsOriginalAlways == Spec => []UndoFollowsOriginal
<1>1. IInv => UndoFollowsOriginal
  BY DEF IInv, RowsTellTruth, UndoFollowsOriginal
<1> QED BY <1>1, InductiveInvariant, PTL

\* No reconnect, flush or request gives the agent an undo twice (postgres.go
\* PendingCommandsFor).
THEOREM UndoHandedOnceAlways == Spec => []UndoHandedOnce
<1>1. IInv => UndoHandedOnce
  BY DEF IInv
<1> QED BY <1>1, InductiveInvariant, PTL

\* Whenever the flush of the session the hub holds is through, every pending
\* command whose request is over was handed over, or left out by a full
\* channel, the LIMIT or its age, however requests, flushes, reconnects and a
\* restart interleave (dispatch.go dispatch, FlushPendingCommands).
THEOREM NotLeftBehindAlways == Spec => []NotLeftBehind
<1>1. IInv => NotLeftBehind
  BY DEF IInv, NobodyForgotten, Awaited, NotLeftBehind
<1> QED BY <1>1, InductiveInvariant, PTL

\* An answered row changes only as its entry goes or as a further answer says,
\* however late the request or the flush that handed it over marks it
\* (postgres.go MarkCommandSent, UpdateCommandAck).
THEOREM AnswerStandsAlways == Spec => AnswerStands
<1>1. IInv /\ [Next]_vars =>
        [\A c \in Id :
           row[c].status \in {"acked", "failed"} /\ row'[c].status # row[c].status =>
             \/ row'[c].status = "deleted"
             \/ \E s \in Session :
                  /\ acks[s] # <<>> /\ acks'[s] = Tail(acks[s]) /\ Head(acks[s]).id = c
                  /\ row'[c].status = IF Head(acks[s]).ok THEN "acked" ELSE "failed"]_vars
  <2> SUFFICES ASSUME IInv, Next, NEW c \in Id, row[c].status \in {"acked", "failed"},
                      row'[c].status # row[c].status
               PROVE  \/ row'[c].status = "deleted"
                      \/ \E s \in Session :
                           /\ acks[s] # <<>> /\ acks'[s] = Tail(acks[s]) /\ Head(acks[s]).id = c
                           /\ row'[c].status = IF Head(acks[s]).ok THEN "acked" ELSE "failed"
    OBVIOUS
  <2>1. row \in [Id -> Row]
    BY DEF IInv, TypeOK
  <2>2. ~\E original : Insert(original)
    BY <2>1 DEF Insert
  <2>3. ASSUME NEW d, MarkSent(d) PROVE FALSE
    BY <2>1, <2>3 DEF MarkSent
  <2>4. ~(\E d \in Id : RequestMarks(d)) /\ ~(\E s \in Session : FlushMarks(s))
    BY <2>3 DEF RequestMarks, FlushMarks
  <2>5. ASSUME NEW d, DeleteRows(d) PROVE row'[c].status = "deleted"
    BY <2>1, <2>5 DEF DeleteRows, Row
  <2>6. ASSUME NEW o \in Operators, NEW d \in Id, BeginDelete(o, d) PROVE FALSE
    BY <2>1, <2>6 DEF BeginDelete, Expired, InFlight
  <2>7. ASSUME NEW s \in Session, HandleAck(s)
        PROVE  /\ acks[s] # <<>> /\ acks'[s] = Tail(acks[s]) /\ Head(acks[s]).id = c
               /\ row'[c].status = IF Head(acks[s]).ok THEN "acked" ELSE "failed"
    <3>1. acks[s] # <<>> /\ acks'[s] = Tail(acks[s]) /\ Answer(Head(acks[s]))
      BY <2>7 DEF HandleAck, IInv, TypeOK
    <3>2. Head(acks[s]).id = c
      BY <2>1, <3>1 DEF Answer
    <3> QED BY <2>1, <3>1, <3>2 DEF Answer, Row
  <2>8. ASSUME NEW s \in Session, CompleteRevert(s) PROVE row'[c].status = "deleted"
    BY <2>5, <2>8 DEF CompleteRevert
  <2>9. ASSUME NEW o \in Operators, DropEntry(o) PROVE row'[c].status = "deleted"
    BY <2>5, <2>9 DEF DropEntry
  <2> QED BY <2>2, <2>4, <2>6, <2>7, <2>8, <2>9, RowSteps
<1> QED BY <1>1, InductiveInvariant, PTL DEF Spec, AnswerStands

\* The last session to have registered keeps the hub's entry while it is open,
\* whenever the sessions it replaced return (hub.go Register).
THEOREM NewestServesAlways == Spec => NewestServes
<1>1. IInv /\ [Next]_vars =>
        [\A s \in Session : hub = s /\ stream'[s] = "open" =>
            hub' = s \/ (hub' # 0 /\ stream[hub'] = "enrolled")]_vars
  <2> SUFFICES ASSUME IInv, Next, NEW s \in Session, hub = s, stream'[s] = "open"
               PROVE  hub' = s \/ (hub' # 0 /\ stream[hub'] = "enrolled")
    OBVIOUS
  <2>1. CASE UNCHANGED hub
    BY <2>1
  <2>2. ASSUME NEW r \in Session, Register(r)
        PROVE  hub' # 0 /\ stream[hub'] = "enrolled"
    BY <2>2 DEF Register, Session
  <2>3. ASSUME NEW r \in Session, EndSession(r)
        PROVE  hub' = s
    <3>1. r # s
      BY <2>3 DEF EndSession, IInv, TypeOK
    <3> QED BY <2>3, <3>1 DEF EndSession, Unregister
  <2>4. ~MasterRestart
    BY DEF MasterRestart
  <2>5. ASSUME NEW c \in Id, Request(c) PROVE UNCHANGED hub
    BY <2>5 DEF Request, RequestHands, RequestMarks, streams
  <2>6. ASSUME NEW r \in Session, Enroll(r) \/ SendInVain(r) \/ HandleAck(r) \/ CompleteRevert(r)
        PROVE  UNCHANGED hub
    BY <2>6 DEF Enroll, SendInVain, HandleAck, CompleteRevert
  <2>7. ASSUME NEW r \in Session, Flush(r) PROVE UNCHANGED hub
    BY <2>7 DEF Flush, FlushLists, FlushCannotList, FlushHands, FlushMarks
  <2>8. ASSUME NEW o \in Operators, Operator(o) PROVE UNCHANGED hub
    BY <2>8 DEF Operator, BeginDelete, DropEntry, DispatchUndo, RefuseUndo, streams
  <2>9. Create \/ Agent => UNCHANGED hub
    BY DEF Create, Agent, Run, Disconnect, streams
  <2> QED BY <2>1, <2>2, <2>3, <2>4, <2>5, <2>6, <2>7, <2>8, <2>9 DEF Next, Serve
<1> QED BY <1>1, InductiveInvariant, PTL DEF Spec, NewestServes

\* An entry leaves the list only because its undo, or it as an undo, succeeded
\* on the machine, or because an operator drops what was never applied
\* (revert.go completeRevertIfApplicable, RevertCommand).
THEOREM LeavesOnceUndoneAlways == Spec => LeavesOnceUndone
<1> DEFINE Why(c) ==
             \/ {c, row[c].reverts} \cap Undone # {}
             \/ \E o \in Operators : delete[o].step = "drop" /\ delete[o].id \in {c, row[c].reverts}
<1>1. IInv /\ [Next]_vars => [\A c \in Id : Present(c) /\ ~Present(c)' => Why(c)]_vars
  <2> SUFFICES ASSUME IInv, Next, NEW c \in Id, Present(c), ~Present(c)'
               PROVE  Why(c)
    OBVIOUS
  <2>1. TypeOK /\ AcksTrue
    BY DEF IInv
  <2>2. ~UNCHANGED row
    BY DEF Present
  <2>3. ~\E original : Insert(original)
    BY <2>1 DEF Insert, TypeOK, Present
  <2>4. ~\E b \in Id : RequestMarks(b)
    BY <2>1, <2>2, MarkSentStep DEF RequestMarks, Present
  <2>5. ~\E s \in Session : FlushMarks(s)
    <3> SUFFICES ASSUME NEW s \in Session, FlushMarks(s) PROVE FALSE
      OBVIOUS
    <3>1. flush[s].todo \in Seq(Id) /\ flush[s].todo # <<>>
      BY <2>1 DEF FlushMarks, IInv, FlushKnows, TypeOK
    <3>2. Head(flush[s].todo) \in Id
      BY <3>1, HeadTailProperties
    <3> QED BY <2>1, <2>2, <3>2, MarkSentStep DEF FlushMarks, Present
  <2>6. ~\E s \in Session : HandleAck(s)
    <3> SUFFICES ASSUME NEW s \in Session, HandleAck(s) PROVE FALSE
      OBVIOUS
    <3>1. acks[s] \in Seq(Ack) /\ acks[s] # <<>>
      BY <2>1 DEF TypeOK, HandleAck
    <3>2. Head(acks[s]) \in Ack
      BY <3>1, HeadTailProperties
    <3> QED BY <2>1, <3>2, AnswerStep DEF HandleAck, Present
  <2>7. ASSUME NEW s \in Session, CompleteRevert(s)
        PROVE  Why(c)
    <3> DEFINE a == Head(acked[s])
    <3>1. acked[s] \in Seq(UndoAck) /\ acked[s] # <<>>
      BY <2>1, <2>7 DEF AcksTrue, CompleteRevert
    <3>2. a \in UndoAck
      BY <3>1, HeadTailProperties
    <3>3. a.ok /\ DeleteRows(row[a.id].reverts)
      BY <2>2, <2>7 DEF CompleteRevert
    <3>4. row[a.id].reverts \in Undone
      BY <3>2, <3>3 DEF UndoAck, TrueAck, IsUndo, Undone
    <3>5. row[a.id].reverts \in {c, row[c].reverts}
      BY <2>1, <3>3, DeleteRowsStep DEF Present
    <3> QED BY <3>4, <3>5
  <2>8. ASSUME NEW o \in Operators, DropEntry(o)
        PROVE  Why(c)
    BY <2>1, <2>8, DeleteRowsStep DEF DropEntry, Present
  <2>9. ~\E o \in Operators, b \in Id : BeginDelete(o, b)
    BY <2>1, ExpiredStep DEF BeginDelete, Present
  <2> QED BY <2>2, <2>3, <2>4, <2>5, <2>6, <2>7, <2>8, <2>9, RowSteps
<1> QED BY <1>1, InductiveInvariant, PTL DEF Spec, LeavesOnceUndone

=============================================================================
