-------------------------- MODULE ApprovalsProofs --------------------------
(***************************************************************************)
(* Proofs about Approvals, for every number of machines, requests,         *)
(* operators, commands and redeliveries: the type invariant, the           *)
(* invariants OneWinner, OneInstallEach and ApprovedWasSent, and the       *)
(* action property RejectionHolds.                                         *)
(***************************************************************************)
EXTENDS Approvals, TLAPS

\* The install of suggestion s on machine m, made and not yet answered.
OnItsWay(c, s, m) ==
  /\ command[c].kind = "install" /\ command[c].of = s /\ command[c].on = m
  /\ command[c].status \in {"pending", "sent"}

\* A request about to record a suggestion has the command that it follows, an
\* approval the row that it is about and the machine it is at, an install the
\* suggestion that it is of and its machine.
HandlersKnow ==
  /\ \A q \in Requesters : ask[q].step = "record" => ask[q].id \in Id
  /\ \A o \in Operators : /\ review[o].step # "no" => review[o].id \in Row
                          /\ review[o].step = "install" => review[o].at \in Machines
  /\ \A c \in Id : command[c].kind = "install" =>
       command[c].of \in Row /\ command[c].on \in Machines /\ command[c].status # "none"

\* What was generated is recorded, and what is to be reviewed was generated.
ReviewedWasGenerated ==
  \A s \in Row :
    /\ generated[s] > 0 => suggestion[s].status # "none"
    /\ suggestion[s].status \in {"pending", "approved", "rejected"} => generated[s] > 0

\* A row whose approval is past the claim is pending only if it was generated
\* again since.
ClaimStands ==
  \A o \in Operators : Deciding(o) =>
    /\ generated[review[o].id] > 0
    /\ suggestion[review[o].id].status = "pending" => generated[review[o].id] > 1

\* An approval about to install on a machine looked, and nothing has been sent
\* there since.
ChecksHold ==
  \A o \in Operators, c \in Id :
    /\ review[o].step = "install"
    /\ OnItsWay(c, review[o].id, review[o].at)
    => generated[review[o].id] > 1

\* What an approval counts as sent was made.
SentWasMade ==
  \A o \in Operators : review[o].sent =>
    \E c \in Id : command[c].kind = "install" /\ command[c].of = review[o].id

IInv ==
  /\ TypeOK
  /\ HandlersKnow
  /\ ReviewedWasGenerated
  /\ ClaimStands
  /\ OneWinner
  /\ ChecksHold
  /\ OneInstallEach
  /\ SentWasMade
  /\ ApprovedWasSent

-----------------------------------------------------------------------------
(* Types                                                                   *)

SuggestionType == [of : 0..MaxCommands, status : Status]
AskType        == [step : {"no", "dispatch", "record"}, on : Machines \cup {NoMachine},
                   id : 0..MaxCommands]
ReviewType     == [step : {"no", "claim", "check", "install"}, id : 0..MaxCommands,
                   todo : SUBSET Machines, at : Machines \cup {NoMachine},
                   sent : BOOLEAN, failed : BOOLEAN]

CommandsTyped == command \in [Id -> Command]
RowsTyped ==
  /\ suggestion \in [Row -> SuggestionType]
  /\ \A s \in Row : suggestion[s].status # "none" => suggestion[s].of # 0
HandlersTyped == ask \in [Requesters -> AskType] /\ review \in [Operators -> ReviewType]
ExchangeTyped ==
  /\ copies \in [Id -> Nat] /\ mail \in [Id -> Nat]
  /\ answers \in [Answer -> Nat] /\ completing \in [Answer -> Nat]
MachineTyped == installed \subseteq Machines /\ listed \subseteq Machines
HistoryTyped == moot \subseteq Row /\ cut \subseteq Row /\ generated \in [Row -> Nat]

LEMMA Types ==
  TypeOK <=> /\ CommandsTyped /\ RowsTyped /\ HandlersTyped
             /\ ExchangeTyped /\ MachineTyped /\ HistoryTyped
  BY DEF TypeOK, CommandsTyped, RowsTyped, SuggestionType, HandlersTyped, AskType, ReviewType,
         ExchangeTyped, MachineTyped, HistoryTyped

LEMMA TypesThen ==
  TypeOK' <=> /\ CommandsTyped' /\ RowsTyped' /\ HandlersTyped'
              /\ ExchangeTyped' /\ MachineTyped' /\ HistoryTyped'
  BY DEF TypeOK, CommandsTyped, RowsTyped, SuggestionType, HandlersTyped, AskType, ReviewType,
         ExchangeTyped, MachineTyped, HistoryTyped

\* What a step does not touch keeps its type.
LEMMA TypesStay ==
  ASSUME TypeOK
  PROVE  /\ UNCHANGED command => CommandsTyped'
         /\ UNCHANGED suggestion => RowsTyped'
         /\ UNCHANGED <<ask, review>> => HandlersTyped'
         /\ UNCHANGED exchange => ExchangeTyped'
         /\ UNCHANGED machine => MachineTyped'
         /\ UNCHANGED history => HistoryTyped'
  BY Types DEF CommandsTyped, RowsTyped, HandlersTyped, ExchangeTyped, MachineTyped,
               HistoryTyped, exchange, machine, history

LEMMA InitIInv == Init => IInv
<1> SUFFICES ASSUME Init PROVE IInv
  OBVIOUS
<1> USE ApprovalBounds DEF Init
<1>1. TypeOK
  <2>1. 0 \in 0..MaxCommands /\ {} \in SUBSET Machines
    OBVIOUS
  <2>2. CommandsTyped
    BY <2>1 DEF CommandsTyped, Command
  <2>3. RowsTyped
    BY <2>1 DEF RowsTyped, SuggestionType, Status
  <2>4. HandlersTyped
    BY <2>1 DEF HandlersTyped, AskType, ReviewType, NoAsk, NoReview
  <2>5. ExchangeTyped /\ MachineTyped /\ HistoryTyped
    BY DEF ExchangeTyped, MachineTyped, HistoryTyped
  <2> QED BY <2>2, <2>3, <2>4, <2>5, Types
<1>2. HandlersKnow /\ ReviewedWasGenerated /\ ClaimStands /\ ChecksHold /\ SentWasMade
  BY DEF HandlersKnow, ReviewedWasGenerated, ClaimStands, ChecksHold, SentWasMade, Deciding,
         NoAsk, NoReview
<1>3. OneWinner /\ OneInstallEach /\ ApprovedWasSent
  BY DEF OneWinner, OneInstallEach, ApprovedWasSent, Deciding, NoReview
<1> QED BY <1>1, <1>2, <1>3 DEF IInv

\* One review changes.
LEMMA ReviewOf ==
  ASSUME TypeOK, NEW o \in Operators, NEW r \in ReviewType, review' = [review EXCEPT ![o] = r]
  PROVE  /\ review' \in [Operators -> ReviewType]
         /\ review'[o] = r
         /\ \A p \in Operators \ {o} : review'[p] = review[p]
  BY Types DEF HandlersTyped

LEMMA AskOf ==
  ASSUME TypeOK, NEW q \in Requesters, NEW k \in AskType, ask' = [ask EXCEPT ![q] = k]
  PROVE  /\ ask' \in [Requesters -> AskType]
         /\ ask'[q] = k
         /\ \A p \in Requesters \ {q} : ask'[p] = ask[p]
  BY Types DEF HandlersTyped

\* The row s of a suggestion gets another status.
LEMMA StatusOf ==
  ASSUME TypeOK, NEW s \in Row, NEW st \in Status, st # "none" => suggestion[s].of # 0,
         suggestion' = [suggestion EXCEPT ![s].status = st]
  PROVE  /\ RowsTyped'
         /\ suggestion'[s].status = st
         /\ \A r \in Row \ {s} : suggestion'[r] = suggestion[r]
<1> DEFINE v == [suggestion[s] EXCEPT !.status = st]
<1>1. suggestion \in [Row -> SuggestionType] /\ suggestion[s] \in SuggestionType
  BY Types DEF RowsTyped
<1>2. v \in SuggestionType /\ v.status = st /\ v.of = suggestion[s].of
  BY <1>1 DEF SuggestionType
<1>3. suggestion' = [suggestion EXCEPT ![s] = v]
  OBVIOUS
<1> HIDE DEF v
<1>4. /\ suggestion' \in [Row -> SuggestionType] /\ suggestion'[s] = v
      /\ \A r \in Row \ {s} : suggestion'[r] = suggestion[r]
  BY <1>1, <1>2, <1>3
<1> QED BY <1>2, <1>4, Types DEF RowsTyped

-----------------------------------------------------------------------------
(* The commands                                                            *)

\* How a command that is there may move.
CommandStep ==
  \A c \in Id :
    /\ command'[c].kind = command[c].kind /\ command'[c].of = command[c].of
    /\ command'[c].on = command[c].on
    /\ \/ command'[c].status = command[c].status
       \/ command'[c].status \in {"acked", "failed"}
       \/ command[c].status = "pending" /\ command'[c].status = "sent"

\* A new command, and all the others as they were.
Made(c, kind, m, s) ==
  /\ command[c].status = "none"
  /\ command'[c].kind = kind /\ command'[c].on = m /\ command'[c].of = s
  /\ command'[c].status \in {"pending", "sent"}
  /\ \A b \in Id \ {c} : command'[b] = command[b]

LEMMA CommandStatus ==
  ASSUME TypeOK, NEW c \in Id, NEW st \in {"sent", "acked", "failed"},
         command' = [command EXCEPT ![c].status = st],
         st = "sent" => command[c].status = "pending"
  PROVE  CommandsTyped' /\ CommandStep
<1> DEFINE v == [command[c] EXCEPT !.status = st]
<1>1. command \in [Id -> Command] /\ command[c] \in Command
  BY Types DEF CommandsTyped
<1>2. /\ v \in Command /\ v.status = st
      /\ v.kind = command[c].kind /\ v.of = command[c].of /\ v.on = command[c].on
  BY <1>1 DEF Command
<1>3. command' = [command EXCEPT ![c] = v]
  OBVIOUS
<1> HIDE DEF v
<1>4. /\ command' \in [Id -> Command] /\ command'[c] = v
      /\ \A b \in Id \ {c} : command'[b] = command[b]
  BY <1>1, <1>2, <1>3
<1> QED BY <1>2, <1>4 DEF CommandsTyped, CommandStep

LEMMA HandTyped ==
  ASSUME TypeOK, NEW c \in Id, NEW kind, Hand(c, kind), UNCHANGED <<answers, completing>>
  PROVE  ExchangeTyped'
  BY Types DEF Hand, ExchangeTyped

LEMMA DispatchMakes ==
  ASSUME TypeOK, NEW c \in Id, NEW kind \in {"suggest", "install"},
         NEW m \in Machines \cup {NoMachine}, NEW s \in 0..MaxCommands,
         NEW how \in {"kept", "sent", "unmarked"}, Dispatch(c, kind, m, s, how),
         UNCHANGED <<answers, completing>>
  PROVE  CommandsTyped' /\ ExchangeTyped' /\ Made(c, kind, m, s)
<1> DEFINE v == [kind |-> kind, on |-> m, of |-> s,
                 status |-> IF how = "sent" THEN "sent" ELSE "pending"]
<1>1. command \in [Id -> Command] /\ v \in Command
  BY Types DEF CommandsTyped, Command
<1>2. command' = [command EXCEPT ![c] = v] /\ command[c].status = "none"
  BY DEF Dispatch
<1>3. CommandsTyped' /\ Made(c, kind, m, s)
  BY <1>1, <1>2 DEF CommandsTyped, Made
<1>4. ExchangeTyped'
  <2>1. CASE how = "kept"
    BY <2>1, TypesStay DEF Dispatch, exchange
  <2>2. CASE how # "kept"
    BY <2>2, HandTyped DEF Dispatch
  <2> QED BY <2>1, <2>2
<1> QED BY <1>3, <1>4

\* An install stays the install that it is.
InstallsStay ==
  \A c \in Id : command[c].kind = "install" =>
    command'[c].kind = "install" /\ command'[c].of = command[c].of

LEMMA MadeKeeps ==
  ASSUME IInv, NEW c \in Id, NEW kind, NEW m, NEW s, Made(c, kind, m, s)
  PROVE  InstallsStay
  BY DEF Made, InstallsStay, IInv, HandlersKnow

\* What is on its way was, or is the command just made.
LEMMA OnItsWayBefore ==
  ASSUME CommandStep, NEW c \in Id, NEW s, NEW m, OnItsWay(c, s, m)'
  PROVE  OnItsWay(c, s, m)
  BY DEF CommandStep, OnItsWay

\* The approvals and the rows stay: only commands move on.
LEMMA ExchangeKeeps ==
  ASSUME IInv, CommandStep, TypeOK', UNCHANGED <<suggestion, review, generated, moot, cut>>,
         \A q \in Requesters : ask'[q].step = "record" => ask'[q].id \in Id
  PROVE  IInv'
<1>1. HandlersKnow'
  BY DEF IInv, HandlersKnow, CommandStep
<1>2. ReviewedWasGenerated' /\ ClaimStands' /\ OneWinner'
  BY DEF IInv, ReviewedWasGenerated, ClaimStands, OneWinner, Deciding
<1>3. ChecksHold'
  BY OnItsWayBefore DEF IInv, ChecksHold
<1>4. OneInstallEach'
  BY DEF IInv, OneInstallEach, CommandStep
<1>5. InstallsStay
  BY DEF CommandStep, InstallsStay
<1>6. SentWasMade'
  BY <1>5 DEF IInv, SentWasMade, InstallsStay
<1>7. ApprovedWasSent'
  BY <1>5 DEF IInv, ApprovedWasSent, InstallsStay, Deciding
<1> QED BY <1>1, <1>2, <1>3, <1>4, <1>6, <1>7 DEF IInv

LEMMA NoCommandStep ==
  ASSUME UNCHANGED command
  PROVE  CommandStep
  BY DEF CommandStep

LEMMA AgentSteps ==
  ASSUME IInv, Agent \/ (\E a \in Answer : Acknowledges(a)) \/ \E c \in Id : Redeliver(c)
  PROVE  IInv'
<1>1. TypeOK /\ HandlersKnow
  BY DEF IInv
<1>2. UNCHANGED <<suggestion, ask, review, generated, moot, cut>>
  BY DEF Agent, Runs, Reports, Removes, Acknowledges, Redeliver, history
<1>3. RowsTyped' /\ HandlersTyped' /\ HistoryTyped'
  BY <1>1, <1>2, TypesStay DEF history
<1>4. \A q \in Requesters : ask'[q].step = "record" => ask'[q].id \in Id
  BY <1>1, <1>2 DEF HandlersKnow
<1>5. CommandsTyped /\ ExchangeTyped /\ MachineTyped
  BY <1>1, Types
<1>6. ASSUME NEW a \in Answer, Runs(a) PROVE IInv'
  <2>1. a.id \in Id
    BY DEF Answer
  <2>2. UNCHANGED <<command, listed>>
    BY <1>6 DEF Runs
  <2>3. ExchangeTyped'
    <3>1. mail[a.id] - 1 \in Nat /\ answers[a] + 1 \in Nat
      BY <1>5, <1>6, <2>1 DEF Runs, ExchangeTyped
    <3> QED BY <1>5, <1>6, <2>1, <3>1 DEF Runs, ExchangeTyped
  <2>4. MachineTyped'
    <3>1. a.ok /\ command[a.id].kind = "install" => command[a.id].on \in Machines
      BY <1>1, <2>1 DEF HandlersKnow
    <3> QED BY <1>5, <1>6, <2>2, <3>1 DEF Runs, MachineTyped
  <2>5. TypeOK'
    BY <1>1, <1>3, <2>2, <2>3, <2>4, TypesStay, TypesThen
  <2> QED BY <1>2, <1>4, <2>2, <2>5, NoCommandStep, ExchangeKeeps
<1>7. ASSUME NEW a \in Answer, Acknowledges(a) PROVE IInv'
  <2>1. a.id \in Id
    BY DEF Answer
  <2>2. ExchangeTyped'
    <3>1. answers[a] - 1 \in Nat /\ completing[a] + 1 \in Nat
      BY <1>5, <1>7 DEF Acknowledges, ExchangeTyped
    <3> QED BY <1>5, <1>7, <3>1 DEF Acknowledges, ExchangeTyped
  <2>3. CommandsTyped' /\ CommandStep
    BY <1>1, <1>7, <2>1, CommandStatus DEF Acknowledges
  <2>4. TypeOK'
    BY <1>1, <1>3, <1>7, <2>2, <2>3, TypesStay, TypesThen DEF Acknowledges
  <2> QED BY <1>2, <1>4, <2>3, <2>4, ExchangeKeeps
<1>8. ASSUME NEW c \in Id, Redeliver(c) PROVE IInv'
  <2>1. CommandsTyped' /\ CommandStep
    BY <1>1, <1>8, CommandStatus, NoCommandStep, TypesStay DEF Redeliver
  <2>2. ExchangeTyped'
    BY <1>1, <1>8, HandTyped DEF Redeliver
  <2>3. TypeOK'
    BY <1>1, <1>3, <1>8, <2>1, <2>2, TypesStay, TypesThen DEF Redeliver
  <2> QED BY <1>2, <1>4, <2>1, <2>3, ExchangeKeeps
<1>9. ASSUME NEW m \in Machines, Reports(m) \/ Removes(m) PROVE IInv'
  <2>1. UNCHANGED <<command, exchange>>
    BY <1>9 DEF Reports, Removes
  <2>2. MachineTyped'
    BY <1>5, <1>9 DEF Reports, Removes, MachineTyped
  <2>3. TypeOK'
    BY <1>1, <1>3, <2>1, <2>2, TypesStay, TypesThen
  <2> QED BY <1>2, <1>4, <2>1, <2>3, NoCommandStep, ExchangeKeeps
<1> QED BY <1>6, <1>7, <1>8, <1>9 DEF Agent

-----------------------------------------------------------------------------
(* Asking                                                                  *)

\* A command that is no install is made.
LEMMA AskDispatchesStep ==
  ASSUME IInv, NEW q \in Requesters, AskDispatches(q)
  PROVE  IInv'
<1>1. TypeOK /\ HandlersKnow
  BY DEF IInv
<1>2. PICK c \in Id, how \in {"kept", "sent", "unmarked"} :
        /\ Dispatch(c, "suggest", ask[q].on, 0, how)
        /\ ask' = [ask EXCEPT ![q] = IF how = "unmarked" THEN NoAsk
                                     ELSE [step |-> "record", on |-> ask[q].on, id |-> c]]
  BY DEF AskDispatches
<1>3. UNCHANGED <<suggestion, review, answers, completing, machine, history>>
  BY DEF AskDispatches
<1> DEFINE k == IF how = "unmarked" THEN NoAsk
                ELSE [step |-> "record", on |-> ask[q].on, id |-> c]
<1>4. ask \in [Requesters -> AskType] /\ ask[q].on \in Machines \cup {NoMachine}
  BY <1>1, Types DEF HandlersTyped, AskType
<1>5. k \in AskType /\ (k.step = "record" => k.id \in Id)
  BY <1>4, ApprovalBounds DEF AskType, NoAsk, Id
<1>6. ask' = [ask EXCEPT ![q] = k]
  BY <1>2
<1>7. /\ ask' \in [Requesters -> AskType] /\ ask'[q] = k
      /\ \A p \in Requesters \ {q} : ask'[p] = ask[p]
  BY <1>1, <1>5, <1>6, AskOf
<1>8. 0 \in 0..MaxCommands
  BY ApprovalBounds
<1>9. CommandsTyped' /\ ExchangeTyped' /\ Made(c, "suggest", ask[q].on, 0)
  BY <1>1, <1>2, <1>3, <1>4, <1>8, DispatchMakes
<1>10. TypeOK'
  <2>1. HandlersTyped'
    BY <1>1, <1>3, <1>7, Types DEF HandlersTyped
  <2> QED BY <1>1, <1>3, <1>9, <2>1, TypesStay, TypesThen
<1>11. HandlersKnow'
  <2>1. \A p \in Requesters : ask'[p].step = "record" => ask'[p].id \in Id
    BY <1>1, <1>5, <1>7 DEF HandlersKnow
  <2>2. \A b \in Id : command'[b].kind = "install" => b # c
    BY <1>9 DEF Made
  <2> QED BY <1>1, <1>3, <1>9, <2>1, <2>2 DEF HandlersKnow, Made
<1>12. UNCHANGED <<suggestion, review, generated, moot, cut>>
  BY <1>3 DEF history
<1>13. ReviewedWasGenerated' /\ ClaimStands' /\ OneWinner'
  BY <1>12 DEF IInv, ReviewedWasGenerated, ClaimStands, OneWinner, Deciding
<1>14. ChecksHold' /\ OneInstallEach'
  <2>1. \A b \in Id : command'[b].kind = "install" => command'[b] = command[b]
    BY <1>9 DEF Made
  <2> QED BY <1>12, <2>1 DEF IInv, ChecksHold, OnItsWay, OneInstallEach
<1>15. InstallsStay
  BY <1>9, MadeKeeps
<1>16. SentWasMade' /\ ApprovedWasSent'
  BY <1>12, <1>15 DEF IInv, SentWasMade, ApprovedWasSent, InstallsStay, Deciding
<1> QED BY <1>10, <1>11, <1>13, <1>14, <1>16 DEF IInv

LEMMA AskStep ==
  ASSUME IInv, NEW q \in Requesters, (\E m \in Machines : Looks(q, m)) \/ AskFails(q)
  PROVE  IInv'
<1>1. TypeOK /\ HandlersKnow
  BY DEF IInv
<1>2. UNCHANGED <<command, suggestion, review, exchange, machine, history>>
  BY DEF Looks, AskFails
<1>3. PICK k \in AskType : ask' = [ask EXCEPT ![q] = k] /\ k.step # "record"
  <2>1. CASE \E m \in Machines : Looks(q, m)
    <3>1. PICK m \in Machines : Looks(q, m)
      BY <2>1
    <3>2. [step |-> "dispatch", on |-> m, id |-> 0] \in AskType
      BY ApprovalBounds DEF AskType
    <3> QED BY <3>1, <3>2 DEF Looks
  <2>2. CASE AskFails(q)
    <3>1. NoAsk \in AskType /\ NoAsk.step # "record"
      BY ApprovalBounds DEF AskType, NoAsk
    <3> QED BY <2>2, <3>1 DEF AskFails
  <2> QED BY <2>1, <2>2
<1>4. /\ ask' \in [Requesters -> AskType] /\ ask'[q] = k
      /\ \A p \in Requesters \ {q} : ask'[p] = ask[p]
  BY <1>1, <1>3, AskOf
<1>5. TypeOK'
  <2>1. HandlersTyped'
    BY <1>1, <1>2, <1>4, Types DEF HandlersTyped
  <2> QED BY <1>1, <1>2, <2>1, TypesStay, TypesThen
<1>6. \A p \in Requesters : ask'[p].step = "record" => ask'[p].id \in Id
  BY <1>1, <1>3, <1>4 DEF HandlersKnow
<1>7. UNCHANGED <<suggestion, review, generated, moot, cut>>
  BY <1>2 DEF history
<1> QED BY <1>2, <1>5, <1>6, <1>7, NoCommandStep, ExchangeKeeps

-----------------------------------------------------------------------------
(* Rows                                                                    *)

\* Rows move that are not to look approved, and whose reviews still know why.
LEMMA RowsKeep ==
  ASSUME IInv, TypeOK', UNCHANGED <<command, review, moot, cut>>,
         \A q \in Requesters : ask'[q].step = "record" => ask'[q].id \in Id,
         \A s \in Row :
           /\ generated'[s] >= generated[s]
           /\ \/ suggestion'[s].status = suggestion[s].status
              \/ suggestion'[s].status = "pending" /\ generated'[s] > generated[s]
              \/ suggestion'[s].status = "rejected" /\ generated[s] > 0
              \/ suggestion'[s].status \in {"generating", "failed"}
           /\ generated'[s] > generated[s] => suggestion'[s].status # "none"
           /\ suggestion[s].status # "none" => suggestion'[s].status # "none"
  PROVE  IInv'
<1>1. TypeOK /\ HandlersKnow
  BY DEF IInv
<1>2. \A s \in Row : generated[s] \in Nat /\ generated'[s] \in Nat
  BY <1>1 DEF TypeOK
<1>3. HandlersKnow'
  BY DEF IInv, HandlersKnow
<1>4. ReviewedWasGenerated'
  BY <1>2 DEF IInv, ReviewedWasGenerated
<1>5. \A o \in Operators : Deciding(o) => review[o].id \in Row
  BY <1>1 DEF HandlersKnow, Deciding
<1>6. ClaimStands'
  BY <1>2, <1>5 DEF IInv, ClaimStands, Deciding
<1>7. OneWinner'
  BY <1>2, <1>5 DEF IInv, OneWinner, Deciding
<1>8. ChecksHold'
  BY <1>2, <1>5 DEF IInv, ChecksHold, OnItsWay, Deciding
<1>9. OneInstallEach'
  BY <1>1, <1>2 DEF IInv, OneInstallEach, HandlersKnow
<1>10. SentWasMade' /\ ApprovedWasSent'
  BY DEF IInv, SentWasMade, ApprovedWasSent, Deciding
<1> QED BY <1>3, <1>4, <1>6, <1>7, <1>8, <1>9, <1>10 DEF IInv

LEMMA RejectsStep ==
  ASSUME IInv, NEW s \in Row, Rejects(s)
  PROVE  IInv'
<1>1. TypeOK /\ ReviewedWasGenerated /\ HandlersKnow
  BY DEF IInv
<1>2. generated[s] > 0 /\ suggestion' = [suggestion EXCEPT ![s].status = "rejected"]
  BY DEF Rejects
<1>3. suggestion[s].of # 0
  BY <1>1, <1>2 DEF TypeOK, ReviewedWasGenerated
<1>4. "rejected" \in Status
  BY DEF Status
<1>5. /\ RowsTyped' /\ suggestion'[s].status = "rejected"
      /\ \A r \in Row \ {s} : suggestion'[r] = suggestion[r]
  BY <1>1, <1>2, <1>3, <1>4, StatusOf
<1>6. UNCHANGED <<command, ask, review, exchange, machine, history>>
  BY DEF Rejects
<1>7. UNCHANGED <<generated, moot, cut>>
  BY <1>6 DEF history
<1>8. TypeOK'
  BY <1>1, <1>5, <1>6, TypesStay, TypesThen
<1>9. \A r \in Row : generated[r] \in Nat
  BY <1>1 DEF TypeOK
<1>10. \A q \in Requesters : ask'[q].step = "record" => ask'[q].id \in Id
  BY <1>1, <1>6 DEF HandlersKnow
<1> QED BY <1>2, <1>5, <1>6, <1>7, <1>8, <1>9, <1>10, RowsKeep

LEMMA AskRecordsStep ==
  ASSUME IInv, NEW q \in Requesters, AskRecords(q)
  PROVE  IInv'
<1>1. TypeOK /\ HandlersKnow
  BY DEF IInv
<1>2. PICK s \in Row :
        /\ suggestion[s].status = "none"
        /\ suggestion' = [suggestion EXCEPT ![s] = [of |-> ask[q].id, status |-> "generating"]]
  BY DEF AskRecords
<1> DEFINE v == [of |-> ask[q].id, status |-> "generating"]
<1>3. ask[q].id \in Id /\ ask' = [ask EXCEPT ![q] = NoAsk]
  BY <1>1 DEF AskRecords, HandlersKnow
<1>4. v \in SuggestionType /\ v.status = "generating" /\ v.of # 0
  BY <1>3 DEF SuggestionType, Status, Id
<1>5. suggestion \in [Row -> SuggestionType]
  BY <1>1, Types DEF RowsTyped
<1> HIDE DEF v
<1>6. suggestion' = [suggestion EXCEPT ![s] = v]
  BY <1>2 DEF v
<1>7. /\ suggestion' \in [Row -> SuggestionType] /\ suggestion'[s] = v
      /\ \A r \in Row \ {s} : suggestion'[r] = suggestion[r]
  BY <1>4, <1>5, <1>6
<1>8. RowsTyped'
  BY <1>1, <1>4, <1>7, Types DEF RowsTyped
<1>9. UNCHANGED <<command, review, exchange, machine, history>>
  BY DEF AskRecords
<1>10. NoAsk \in AskType /\ NoAsk.step # "record"
  BY ApprovalBounds DEF AskType, NoAsk
<1>11. /\ ask' \in [Requesters -> AskType] /\ ask'[q] = NoAsk
       /\ \A p \in Requesters \ {q} : ask'[p] = ask[p]
  BY <1>1, <1>3, <1>10, AskOf
<1>12. TypeOK'
  <2>1. HandlersTyped'
    BY <1>1, <1>9, <1>11, Types DEF HandlersTyped
  <2> QED BY <1>1, <1>8, <1>9, <2>1, TypesStay, TypesThen
<1>13. \A p \in Requesters : ask'[p].step = "record" => ask'[p].id \in Id
  BY <1>1, <1>10, <1>11 DEF HandlersKnow
<1>14. UNCHANGED <<generated, moot, cut>> /\ \A r \in Row : generated[r] \in Nat
  BY <1>1, <1>9 DEF history, TypeOK
<1> QED BY <1>4, <1>7, <1>9, <1>12, <1>13, <1>14, RowsKeep

\* An answer completes its rows, whatever their status.
LEMMA CompletesStep ==
  ASSUME IInv, NEW a \in Answer, Completes(a)
  PROVE  IInv'
<1> DEFINE its == {s \in Row : suggestion[s].status # "none" /\ suggestion[s].of = a.id}
           st  == IF a.ok THEN "pending" ELSE "failed"
<1>1. TypeOK /\ HandlersKnow
  BY DEF IInv
<1>2. /\ suggestion' = [s \in Row |-> IF s \in its THEN [suggestion[s] EXCEPT !.status = st]
                                                  ELSE suggestion[s]]
      /\ generated' = [s \in Row |-> IF s \in its /\ a.ok THEN generated[s] + 1 ELSE generated[s]]
  BY DEF Completes
<1>3. \A s \in Row : generated[s] \in Nat
  BY <1>1 DEF TypeOK
<1>4. /\ suggestion \in [Row -> SuggestionType]
      /\ \A s \in Row : suggestion[s].status # "none" => suggestion[s].of # 0
  BY <1>1, Types DEF RowsTyped
<1>5. st \in Status /\ st # "none"
  BY DEF Status
<1>6. ASSUME NEW s \in Row
      PROVE  /\ suggestion'[s] \in SuggestionType
             /\ suggestion'[s].of = suggestion[s].of
             /\ suggestion'[s].status = IF s \in its THEN st ELSE suggestion[s].status
  <2>1. CASE s \in its
    <3>1. suggestion'[s] = [suggestion[s] EXCEPT !.status = st]
      BY <1>2, <2>1
    <3>2. suggestion[s] \in SuggestionType
      BY <1>4
    <3> HIDE DEF st
    <3> QED BY <1>5, <2>1, <3>1, <3>2 DEF SuggestionType
  <2>2. CASE s \notin its
    BY <1>2, <1>4, <2>2
  <2> QED BY <2>1, <2>2
<1>7. RowsTyped'
  <2>1. suggestion' \in [Row -> SuggestionType]
    BY <1>2, <1>6
  <2> QED BY <1>4, <1>6, <2>1 DEF RowsTyped
<1>8. generated' \in [Row -> Nat]
  BY <1>2, <1>3
<1>9. UNCHANGED <<command, ask, review, mail, copies, answers, machine, moot, cut>>
  BY DEF Completes
<1>10. ExchangeTyped'
  <2>1. ExchangeTyped /\ completing[a] - 1 \in Nat
    BY <1>1, Types DEF Completes, ExchangeTyped
  <2> QED BY <1>9, <2>1 DEF Completes, ExchangeTyped
<1>11. TypeOK'
  <2>1. HistoryTyped'
    BY <1>1, <1>8, <1>9, Types DEF HistoryTyped
  <2> QED BY <1>1, <1>7, <1>9, <1>10, <2>1, TypesStay, TypesThen
<1>12. \A q \in Requesters : ask'[q].step = "record" => ask'[q].id \in Id
  BY <1>1, <1>9 DEF HandlersKnow
<1>13. ASSUME NEW s \in Row
       PROVE  /\ generated'[s] >= generated[s]
              /\ \/ suggestion'[s].status = suggestion[s].status
                 \/ suggestion'[s].status = "pending" /\ generated'[s] > generated[s]
                 \/ suggestion'[s].status = "failed"
              /\ generated'[s] > generated[s] => suggestion'[s].status # "none"
              /\ suggestion[s].status # "none" => suggestion'[s].status # "none"
  BY <1>2, <1>3, <1>5, <1>6
<1> QED BY <1>9, <1>11, <1>12, <1>13, RowsKeep

-----------------------------------------------------------------------------
(* Reviews                                                                 *)

LEMMA NoReviewTyped == NoReview \in ReviewType
  BY ApprovalBounds DEF NoReview, ReviewType

\* One approval moves on, over rows and commands that stay: it decides only
\* what it was deciding, and leaves off knowing why its row looks approved.
LEMMA ReviewKeeps ==
  ASSUME IInv, NEW o \in Operators, NEW r \in ReviewType, review' = [review EXCEPT ![o] = r],
         UNCHANGED <<command, suggestion, ask, exchange, machine, generated>>, HistoryTyped',
         moot \subseteq moot', cut \subseteq cut',
         r.step # "no" => r.id \in Row,
         r.step \in {"check", "install"} => Deciding(o) /\ r.id = review[o].id,
         r.step = "install" => r.at \in Machines /\ \A c \in Id : ~OnItsWay(c, r.id, r.at),
         r.sent => review[o].sent /\ r.id = review[o].id,
         Deciding(o) /\ r.step \notin {"check", "install"} =>
           \/ review[o].id \in moot' \cup cut'
           \/ review[o].sent
           \/ suggestion[review[o].id].status # "approved"
  PROVE  IInv'
<1>1. TypeOK /\ HandlersKnow
  BY DEF IInv
<1>2. /\ review' \in [Operators -> ReviewType] /\ review'[o] = r
      /\ \A p \in Operators \ {o} : review'[p] = review[p]
  BY <1>1, ReviewOf
<1>3. TypeOK'
  <2>1. HandlersTyped'
    BY <1>1, <1>2, Types DEF HandlersTyped
  <2> QED BY <1>1, <2>1, TypesStay, TypesThen
<1>4. HandlersKnow'
  BY <1>1, <1>2 DEF HandlersKnow
<1>5. ReviewedWasGenerated' /\ OneInstallEach'
  BY DEF IInv, ReviewedWasGenerated, OneInstallEach
<1>6. \A p \in Operators : Deciding(p)' => Deciding(p) /\ review'[p].id = review[p].id
  BY <1>2 DEF Deciding
<1>7. ClaimStands' /\ OneWinner'
  BY <1>6 DEF IInv, ClaimStands, OneWinner
<1>8. ChecksHold'
  BY <1>2 DEF IInv, ChecksHold, OnItsWay
<1>9. SentWasMade'
  BY <1>2 DEF IInv, SentWasMade
<1>10. ApprovedWasSent'
  <2> SUFFICES ASSUME NEW s \in Row, suggestion[s].status = "approved", s \notin moot' \cup cut',
                      \A p \in Operators : Deciding(p)' => review'[p].id # s
               PROVE  \E c \in Id : command[c].kind = "install" /\ command[c].of = s
    BY DEF ApprovedWasSent
  <2>1. CASE Deciding(o) /\ review[o].id = s
    <3>1. r.step \notin {"check", "install"}
      BY <1>2, <2>1 DEF Deciding
    <3> QED BY <2>1, <3>1 DEF IInv, SentWasMade
  <2>2. CASE ~(Deciding(o) /\ review[o].id = s)
    <3>1. \A p \in Operators : Deciding(p) => review[p].id # s
      BY <1>2, <2>2 DEF Deciding
    <3> QED BY <3>1 DEF IInv, ApprovedWasSent
  <2> QED BY <2>1, <2>2
<1> QED BY <1>3, <1>4, <1>5, <1>7, <1>8, <1>9, <1>10 DEF IInv

LEMMA ApprovesStep ==
  ASSUME IInv, NEW o \in Operators, NEW s \in Row, NEW picks \in SUBSET Machines,
         Approves(o, s, picks)
  PROVE  IInv'
<1> DEFINE r == [step |-> "claim", id |-> s, todo |-> picks,
                 at |-> NoMachine, sent |-> FALSE, failed |-> FALSE]
<1>1. r \in ReviewType
  BY DEF ReviewType, Row
<1>2. ~Deciding(o) /\ review' = [review EXCEPT ![o] = r]
  BY DEF Approves, Deciding
<1>3. UNCHANGED <<command, suggestion, ask, exchange, machine, generated, moot, cut>>
  BY DEF Approves, history
<1>4. HistoryTyped'
  BY <1>3, TypesStay DEF IInv, history
<1>5. r.step = "claim" /\ r.id = s /\ ~r.sent
  OBVIOUS
<1> HIDE DEF r
<1> QED BY <1>1, <1>2, <1>3, <1>4, <1>5, ReviewKeeps

\* A machine is looked at and, unless the module is there or on its way,
\* installed on.
LEMMA ChecksStep ==
  ASSUME IInv, NEW o \in Operators, Checks(o) \/ CannotInstall(o)
  PROVE  IInv'
<1>1. TypeOK /\ HandlersKnow /\ Deciding(o)
  BY DEF IInv, Checks, CannotInstall, Deciding
<1>2. review \in [Operators -> ReviewType] /\ review[o] \in ReviewType
  BY <1>1, Types DEF HandlersTyped
<1>3. UNCHANGED <<command, suggestion, ask, exchange, machine, generated, moot, cut>>
  BY DEF Checks, CannotInstall, history
<1>4. HistoryTyped'
  BY <1>1, <1>3, TypesStay DEF history
<1>5. review[o].id \in Row
  BY <1>1 DEF HandlersKnow, Deciding
<1>6. CASE Checks(o)
  <2>0. PICK m \in review[o].todo : \E there \in AlreadyThere(m) :
          review' = [review EXCEPT ![o].todo = @ \ {m},
                                   ![o].at   = IF there THEN @ ELSE m,
                                   ![o].step = IF there THEN @ ELSE "install"]
    BY <1>6 DEF Checks
  <2>1. PICK there \in AlreadyThere(m) :
          review' = [review EXCEPT ![o].todo = @ \ {m},
                                   ![o].at   = IF there THEN @ ELSE m,
                                   ![o].step = IF there THEN @ ELSE "install"]
    BY <2>0
  <2> DEFINE r == [review[o] EXCEPT !.todo = review[o].todo \ {m},
                                    !.at   = IF there THEN review[o].at ELSE m,
                                    !.step = IF there THEN review[o].step ELSE "install"]
  <2>2. m \in Machines /\ review[o].step = "check"
    BY <1>2, <1>6, <2>1 DEF ReviewType, Checks
  <2>3. review' = [review EXCEPT ![o] = r]
    BY <1>2, <2>1
  <2>4. /\ r \in ReviewType /\ r.id = review[o].id /\ r.sent = review[o].sent
        /\ there => r.step = "check"
        /\ ~there => r.step = "install" /\ r.at = m
    BY <1>2, <2>2 DEF ReviewType
  <2>5. ~there => \A c \in Id : ~OnItsWay(c, review[o].id, m)
    BY <2>1 DEF AlreadyThere, InstallOf, OnItsWay
  <2>6. r.step \in {"check", "install"} /\ (r.step = "install" => ~there)
    BY <2>4
  <2> HIDE DEF r
  <2> QED BY <1>1, <1>3, <1>4, <1>5, <2>2, <2>3, <2>4, <2>5, <2>6, ReviewKeeps
<1>7. CASE CannotInstall(o)
  <2> DEFINE r == [review[o] EXCEPT !.step = "check", !.at = NoMachine, !.failed = TRUE]
  <2>1. review' = [review EXCEPT ![o] = r]
    BY <1>2, <1>7 DEF CannotInstall
  <2>2. /\ r \in ReviewType /\ r.id = review[o].id /\ r.sent = review[o].sent
        /\ r.step = "check"
    BY <1>2 DEF ReviewType
  <2> HIDE DEF r
  <2> QED BY <1>1, <1>3, <1>4, <1>5, <2>1, <2>2, ReviewKeeps
<1> QED BY <1>6, <1>7

LEMMA BreaksStep ==
  ASSUME IInv, NEW o \in Operators, Breaks(o)
  PROVE  IInv'
<1>1. TypeOK /\ HandlersKnow
  BY DEF IInv
<1>2. /\ UNCHANGED <<command, suggestion, ask, exchange, machine, generated, moot>>
      /\ review' = [review EXCEPT ![o] = NoReview]
      /\ cut' = IF review[o].step = "claim" THEN cut ELSE cut \cup {review[o].id}
  BY DEF Breaks
<1>3. review[o].id \in Row
  BY <1>1 DEF Breaks, HandlersKnow
<1>4. HistoryTyped'
  BY <1>1, <1>2, <1>3, Types DEF HistoryTyped
<1>5. Deciding(o) => review[o].id \in cut'
  BY <1>2 DEF Deciding
<1>6. NoReview.step = "no" /\ ~NoReview.sent
  BY DEF NoReview
<1> QED BY <1>2, <1>4, <1>5, <1>6, NoReviewTyped, ReviewKeeps

\* The claim finds the row pending, or the approval ends.
LEMMA ClaimsStep ==
  ASSUME IInv, NEW o \in Operators, Claims(o)
  PROVE  IInv'
<1> DEFINE s == review[o].id
<1>1. TypeOK /\ HandlersKnow /\ s \in Row /\ ~Deciding(o)
  BY DEF IInv, HandlersKnow, Claims, Deciding
<1>2. UNCHANGED <<command, ask, exchange, machine, history>>
  BY DEF Claims
<1>3. CASE suggestion[s].status # "pending"
  <2>1. UNCHANGED suggestion /\ review' = [review EXCEPT ![o] = NoReview]
    BY <1>3 DEF Claims
  <2>2. UNCHANGED <<generated, moot, cut>> /\ HistoryTyped'
    BY <1>1, <1>2, TypesStay DEF history
  <2>3. NoReview.step = "no" /\ ~NoReview.sent
    BY DEF NoReview
  <2> QED BY <1>1, <1>2, <2>1, <2>2, <2>3, NoReviewTyped, ReviewKeeps
<1>4. CASE suggestion[s].status = "pending"
  <2> DEFINE r == [review[o] EXCEPT !.step = "check"]
  <2>1. /\ suggestion' = [suggestion EXCEPT ![s].status = "approved"]
        /\ review' = [review EXCEPT ![o] = r]
    BY <1>4 DEF Claims
  <2>2. review[o] \in ReviewType
    BY <1>1, Types DEF HandlersTyped
  <2>3. r \in ReviewType /\ r.id = s /\ r.sent = review[o].sent /\ r.step = "check"
    BY <2>2 DEF ReviewType
  <2> HIDE DEF r
  <2>4. /\ review' \in [Operators -> ReviewType] /\ review'[o] = r
        /\ \A p \in Operators \ {o} : review'[p] = review[p]
    BY <1>1, <2>1, <2>3, ReviewOf
  <2>5. "approved" \in Status /\ suggestion[s].of # 0
    BY <1>1, <1>4 DEF Status, TypeOK
  <2>6. /\ RowsTyped' /\ suggestion'[s].status = "approved"
        /\ \A q \in Row \ {s} : suggestion'[q] = suggestion[q]
    BY <1>1, <2>1, <2>5, StatusOf
  <2>7. TypeOK'
    <3>1. HandlersTyped'
      BY <1>1, <1>2, <2>4, Types DEF HandlersTyped
    <3> QED BY <1>1, <1>2, <2>6, <3>1, TypesStay, TypesThen
  <2>8. UNCHANGED <<generated, moot, cut>>
    BY <1>2 DEF history
  <2>9. generated[s] > 0
    BY <1>1, <1>4 DEF IInv, ReviewedWasGenerated
  <2>10. HandlersKnow'
    BY <1>1, <1>2, <2>3, <2>4 DEF HandlersKnow
  <2>11. ReviewedWasGenerated'
    BY <2>6, <2>8, <2>9 DEF IInv, ReviewedWasGenerated
  <2>12. \A p \in Operators \ {o} : (Deciding(p)' <=> Deciding(p)) /\ review'[p].id = review[p].id
    BY <2>4 DEF Deciding
  <2>13. ClaimStands'
    <3> SUFFICES ASSUME NEW p \in Operators, Deciding(p)'
                 PROVE  /\ generated[review'[p].id] > 0
                        /\ suggestion'[review'[p].id].status = "pending"
                             => generated[review'[p].id] > 1
      BY <2>8 DEF ClaimStands
    <3>1. CASE p = o
      BY <2>3, <2>4, <2>6, <2>9, <3>1
    <3>2. CASE p # o
      <4>1. review[p].id \in Row /\ Deciding(p) /\ review'[p].id = review[p].id
        BY <1>1, <2>12, <3>2 DEF HandlersKnow, Deciding
      <4> QED BY <2>6, <4>1 DEF IInv, ClaimStands
    <3> QED BY <3>1, <3>2
  <2>14. OneWinner'
    <3>1. ASSUME NEW p \in Operators \ {o}, Deciding(p), review[p].id = s
          PROVE  generated[s] > 1
      BY <1>4, <3>1 DEF IInv, ClaimStands
    <3> QED BY <2>3, <2>4, <2>8, <2>12, <3>1 DEF IInv, OneWinner
  <2>15. ChecksHold' /\ OneInstallEach'
    BY <1>2, <2>3, <2>4, <2>8 DEF IInv, ChecksHold, OneInstallEach, OnItsWay
  <2>16. SentWasMade'
    BY <1>2, <2>3, <2>4 DEF IInv, SentWasMade
  <2>17. ApprovedWasSent'
    <3>1. Deciding(o)' /\ review'[o].id = s
      BY <2>3, <2>4 DEF Deciding
    <3>2. \A q \in Row \ {s} : \A p \in Operators : Deciding(p) /\ review[p].id = q
            => Deciding(p)' /\ review'[p].id = q
      BY <1>1, <2>12
    <3> QED BY <1>2, <2>6, <2>8, <3>1, <3>2 DEF IInv, ApprovedWasSent
  <2> QED BY <2>7, <2>10, <2>11, <2>13, <2>14, <2>15, <2>16, <2>17 DEF IInv
<1> QED BY <1>3, <1>4

\* An approval of which nothing was sent, for a failure, releases its row.
LEMMA FinishesStep ==
  ASSUME IInv, NEW o \in Operators, Finishes(o)
  PROVE  IInv'
<1> DEFINE s == review[o].id
<1>1. TypeOK /\ HandlersKnow /\ s \in Row /\ Deciding(o)
  BY DEF IInv, HandlersKnow, Finishes, Deciding
<1>2. /\ UNCHANGED <<command, ask, exchange, machine, generated, cut>>
      /\ review' = [review EXCEPT ![o] = NoReview]
      /\ moot' = IF ~review[o].sent /\ ~review[o].failed THEN moot \cup {s} ELSE moot
  BY DEF Finishes
<1>3. NoReview.step = "no" /\ ~NoReview.sent
  BY DEF NoReview
<1>4. HistoryTyped'
  BY <1>1, <1>2, Types DEF HistoryTyped
<1>5. CASE UNCHANGED suggestion
  <2>1. suggestion[s].status = "approved" => review[o].sent \/ s \in moot'
    <3>1. CASE InVain(review[o]) /\ suggestion[s].status = "approved"
      <4>1. suggestion' = [suggestion EXCEPT ![s].status = "pending"]
        BY <3>1 DEF Finishes, Release
      <4>2. suggestion'[s].status = "pending"
        BY <1>1, <4>1, Types DEF RowsTyped, SuggestionType
      <4> QED BY <1>5, <3>1, <4>2
    <3>2. CASE ~InVain(review[o])
      BY <1>2, <3>2 DEF InVain
    <3> QED BY <3>1, <3>2
  <2> QED BY <1>1, <1>2, <1>3, <1>4, <1>5, <2>1, NoReviewTyped, ReviewKeeps
<1>6. CASE ~UNCHANGED suggestion
  <2>1. /\ suggestion[s].status = "approved"
        /\ suggestion' = [suggestion EXCEPT ![s].status = "pending"]
    BY <1>6 DEF Finishes, Release
  <2>2. /\ review' \in [Operators -> ReviewType] /\ review'[o] = NoReview
        /\ \A p \in Operators \ {o} : review'[p] = review[p]
    BY <1>1, <1>2, NoReviewTyped, ReviewOf
  <2>3. "pending" \in Status /\ suggestion[s].of # 0
    BY <1>1, <2>1 DEF Status, TypeOK
  <2>4. /\ RowsTyped' /\ suggestion'[s].status = "pending"
        /\ \A q \in Row \ {s} : suggestion'[q] = suggestion[q]
    BY <1>1, <2>1, <2>3, StatusOf
  <2>5. TypeOK'
    <3>1. HandlersTyped'
      BY <1>1, <1>2, <2>2, Types DEF HandlersTyped
    <3> QED BY <1>1, <1>2, <1>4, <2>4, <3>1, TypesStay, TypesThen
  <2>6. generated[s] > 0
    BY <1>1, <2>1 DEF IInv, ReviewedWasGenerated
  <2>7. HandlersKnow'
    BY <1>1, <1>2, <1>3, <2>2 DEF HandlersKnow
  <2>8. ReviewedWasGenerated'
    BY <1>2, <2>4, <2>6 DEF IInv, ReviewedWasGenerated
  <2>9. \A p \in Operators : Deciding(p)' => p # o /\ Deciding(p) /\ review'[p] = review[p]
    BY <1>3, <2>2 DEF Deciding
  <2>10. ClaimStands'
    <3> SUFFICES ASSUME NEW p \in Operators, Deciding(p)'
                 PROVE  /\ generated[review[p].id] > 0
                        /\ suggestion'[review[p].id].status = "pending"
                             => generated[review[p].id] > 1
      BY <1>2, <2>9 DEF ClaimStands
    <3>1. p # o /\ Deciding(p) /\ review[p].id \in Row
      BY <1>1, <2>9 DEF HandlersKnow, Deciding
    <3>2. CASE review[p].id = s
      BY <1>1, <3>1, <3>2 DEF IInv, OneWinner, ClaimStands
    <3>3. CASE review[p].id # s
      BY <2>4, <3>1, <3>3 DEF IInv, ClaimStands
    <3> QED BY <3>2, <3>3
  <2>11. OneWinner'
    BY <1>2, <2>9 DEF IInv, OneWinner
  <2>12. ChecksHold' /\ OneInstallEach'
    BY <1>2, <1>3, <2>2 DEF IInv, ChecksHold, OneInstallEach, OnItsWay
  <2>13. SentWasMade'
    BY <1>2, <1>3, <2>2 DEF IInv, SentWasMade
  <2>14. ApprovedWasSent'
    <3> SUFFICES ASSUME NEW q \in Row, suggestion'[q].status = "approved", q \notin moot' \cup cut',
                        \A p \in Operators : Deciding(p)' => review'[p].id # q
                 PROVE  \E c \in Id : command[c].kind = "install" /\ command[c].of = q
      BY <1>2 DEF ApprovedWasSent
    <3>1. q # s /\ suggestion[q].status = "approved" /\ q \notin moot \cup cut
      BY <1>2, <2>4
    <3>2. \A p \in Operators : Deciding(p) => review[p].id # q
      BY <2>2, <3>1 DEF Deciding
    <3> QED BY <3>1, <3>2 DEF IInv, ApprovedWasSent
  <2> QED BY <2>5, <2>7, <2>8, <2>10, <2>11, <2>12, <2>13, <2>14 DEF IInv
<1> QED BY <1>5, <1>6

\* The machine the approval is at gets its install.
LEMMA InstallsStep ==
  ASSUME IInv, NEW o \in Operators, Installs(o)
  PROVE  IInv'
<1> DEFINE s == review[o].id
           m == review[o].at
<1>1. TypeOK /\ HandlersKnow /\ s \in Row /\ m \in Machines /\ Deciding(o)
  BY DEF IInv, HandlersKnow, Installs, Deciding
<1>2. PICK c \in Id, how \in {"kept", "sent", "unmarked"} :
        /\ Dispatch(c, "install", m, s, how)
        /\ review' = [review EXCEPT ![o].step   = "check", ![o].at = NoMachine,
                                    ![o].sent   = @ \/ how # "unmarked",
                                    ![o].failed = @ \/ how = "unmarked"]
  BY DEF Installs
<1>3. /\ UNCHANGED <<suggestion, ask, answers, completing, machine, history>>
      /\ UNCHANGED <<generated, moot, cut>>
  BY DEF Installs, history
<1>4. s \in 0..MaxCommands
  BY <1>1 DEF Row
<1>5. CommandsTyped' /\ ExchangeTyped' /\ Made(c, "install", m, s)
  BY <1>1, <1>2, <1>3, <1>4, DispatchMakes
<1>6. InstallsStay
  BY <1>5, MadeKeeps
<1>7. review \in [Operators -> ReviewType] /\ review[o] \in ReviewType
  BY <1>1, Types DEF HandlersTyped
<1> DEFINE r == [review[o] EXCEPT !.step = "check", !.at = NoMachine,
                                  !.sent   = (review[o].sent \/ how # "unmarked"),
                                  !.failed = (review[o].failed \/ how = "unmarked")]
<1>8. review' = [review EXCEPT ![o] = r]
  BY <1>2, <1>7
<1>9. r \in ReviewType /\ r.id = s /\ r.step = "check"
  BY <1>7 DEF ReviewType
<1> HIDE DEF r
<1>10. /\ review' \in [Operators -> ReviewType] /\ review'[o] = r
       /\ \A p \in Operators \ {o} : review'[p] = review[p]
  BY <1>1, <1>8, <1>9, ReviewOf
<1>11. TypeOK'
  <2>1. HandlersTyped'
    BY <1>1, <1>3, <1>10, Types DEF HandlersTyped
  <2> QED BY <1>1, <1>3, <1>5, <2>1, TypesStay, TypesThen
<1>12. command'[c] \in Command /\ command'[c].kind = "install" /\ command'[c].of = s
  BY <1>5 DEF CommandsTyped, Made
<1>13. HandlersKnow'
  BY <1>1, <1>3, <1>5, <1>9, <1>10 DEF HandlersKnow, Made
<1>14. ReviewedWasGenerated'
  BY <1>3 DEF IInv, ReviewedWasGenerated
<1>15. \A p \in Operators : (Deciding(p)' <=> Deciding(p)) /\ review'[p].id = review[p].id
  BY <1>1, <1>9, <1>10 DEF Deciding
<1>16. ClaimStands' /\ OneWinner'
  BY <1>3, <1>15 DEF IInv, ClaimStands, OneWinner
<1>17. ChecksHold'
  <2> SUFFICES ASSUME NEW p \in Operators, NEW b \in Id, review'[p].step = "install",
                      OnItsWay(b, review[p].id, review[p].at)'
               PROVE  generated[review'[p].id] > 1
    BY <1>3 DEF ChecksHold
  <2>1. p # o /\ review'[p] = review[p]
    BY <1>9, <1>10
  <2>2. CASE b = c
    <3>1. command'[c].of = review'[p].id
      BY <2>2 DEF OnItsWay
    <3>2. review[p].id = s /\ Deciding(p)
      BY <1>12, <2>1, <3>1 DEF Deciding
    <3> QED BY <1>1, <2>1, <3>2 DEF IInv, OneWinner
  <2>3. CASE b # c
    <3>1. OnItsWay(b, review[p].id, review[p].at)
      BY <1>5, <2>1, <2>3 DEF Made, OnItsWay
    <3> QED BY <2>1, <3>1 DEF IInv, ChecksHold
  <2> QED BY <2>2, <2>3
<1>18. OneInstallEach'
  <2>1. ASSUME NEW b \in Id \ {c}, command'[b].kind = "install", command'[b].of = s,
               command'[b].on = m, command'[b].status \in {"pending", "sent"}
        PROVE  generated[s] > 1
    <3>1. OnItsWay(b, s, m) /\ review[o].step = "install"
      BY <1>5, <2>1 DEF Made, OnItsWay, Installs
    <3> QED BY <3>1 DEF IInv, ChecksHold
  <2>2. \A b \in Id \ {c} : command'[b] = command[b]
    BY <1>5 DEF Made
  <2>3. command'[c].on = m
    BY <1>5 DEF Made
  <2> SUFFICES ASSUME NEW b \in Id, NEW d \in Id, b # d,
                      command'[b].kind = "install", command'[d].kind = "install",
                      command'[b].of = command'[d].of, command'[b].on = command'[d].on,
                      {command'[b].status, command'[d].status} \subseteq {"pending", "sent"}
               PROVE  generated[command'[b].of] > 1
    BY <1>3 DEF OneInstallEach
  <2>4. CASE b # c /\ d # c
    BY <2>2, <2>4 DEF IInv, OneInstallEach
  <2>5. CASE b = c
    BY <1>12, <2>1, <2>3, <2>5
  <2>6. CASE d = c
    BY <1>12, <2>1, <2>3, <2>6
  <2> QED BY <2>4, <2>5, <2>6
<1>19. SentWasMade'
  <2> SUFFICES ASSUME NEW p \in Operators, review'[p].sent
               PROVE  \E b \in Id : command'[b].kind = "install" /\ command'[b].of = review'[p].id
    BY DEF SentWasMade
  <2>1. CASE p = o
    BY <1>9, <1>10, <1>12, <2>1
  <2>2. CASE p # o
    BY <1>6, <1>10, <2>2 DEF IInv, SentWasMade, InstallsStay
  <2> QED BY <2>1, <2>2
<1>20. ApprovedWasSent'
  BY <1>3, <1>6, <1>15 DEF IInv, ApprovedWasSent, InstallsStay
<1> QED BY <1>11, <1>13, <1>14, <1>16, <1>17, <1>18, <1>19, <1>20 DEF IInv

LEMMA NextIInv == IInv /\ [Next]_vars => IInv'
<1> SUFFICES ASSUME IInv, [Next]_vars PROVE IInv'
  OBVIOUS
<1>1. ASSUME NEW q \in Requesters, Request(q) PROVE IInv'
  BY <1>1, AskStep, AskDispatchesStep, AskRecordsStep DEF Request
<1>2. CASE Agent \/ Master
  BY <1>2, AgentSteps, CompletesStep DEF Master
<1>3. ASSUME NEW o \in Operators, Operator(o) PROVE IInv'
  BY <1>3, ApprovesStep, ClaimsStep, ChecksStep, InstallsStep, FinishesStep, BreaksStep DEF Operator
<1>4. ASSUME NEW s \in Row, Rejects(s) PROVE IInv'
  BY <1>4, RejectsStep
<1>5. CASE UNCHANGED vars
  <2>1. UNCHANGED <<command, suggestion, ask, review, exchange, machine, generated, moot, cut>>
    BY <1>5 DEF vars, exchange, machine
  <2>2. TypeOK'
    BY <2>1, TypesStay, TypesThen DEF IInv, history
  <2>3. \A q \in Requesters : ask'[q].step = "record" => ask'[q].id \in Id
    BY <2>1 DEF IInv, HandlersKnow
  <2> QED BY <2>1, <2>2, <2>3, NoCommandStep, ExchangeKeeps
<1> QED BY <1>1, <1>2, <1>3, <1>4, <1>5 DEF Next

-----------------------------------------------------------------------------
(* The theorems                                                            *)

\* Every state that requests, answers and approvals can reach satisfies the
\* inductive invariant: an approval past its claim keeps the row from being
\* claimed again, and one about to install knows nothing is on its way.
THEOREM InductiveInvariant == Spec => []IInv
  BY InitIInv, NextIInv, PTL DEF Spec

\* The tables, the handlers between two statements and the messages keep their
\* types; a recorded suggestion always names the command that it follows.
THEOREM TypeCorrect == Spec => []TypeOK
<1>1. IInv => TypeOK
  BY DEF IInv
<1> QED BY <1>1, InductiveInvariant, PTL

\* Of any number of approvals of a suggestion, one gets past the claim, unless
\* the command was answered again in between (api.go approveSuggestedModule).
THEOREM OneWinnerAlways == Spec => []OneWinner
<1>1. IInv => OneWinner
  BY DEF IInv
<1> QED BY <1>1, InductiveInvariant, PTL

\* A suggestion answered once is never on its way to a machine twice, for any
\* number of machines, operators and approvals that failed and were released
\* (api.go moduleAlreadyThere).
THEOREM OneInstallEachAlways == Spec => []OneInstallEach
<1>1. IInv => OneInstallEach
  BY DEF IInv
<1> QED BY <1>1, InductiveInvariant, PTL

\* A suggestion that looks approved was sent to a machine, unless every machine
\* picked had the module or the approval was cut short (api.go
\* approveSuggestedModule, ReleaseSuggestionClaim).
THEOREM ApprovedWasSentAlways == Spec => []ApprovedWasSent
<1>1. IInv => ApprovedWasSent
  BY DEF IInv
<1> QED BY <1>1, InductiveInvariant, PTL

\* A rejected row stays rejected against every claim and every release; an
\* answer of the agent alone moves it (ClaimSuggestionForApproval,
\* ReleaseSuggestionClaim, CompleteSuggestedModule).
THEOREM RejectionHoldsAlways == Spec => RejectionHolds
<1>1. IInv /\ [Next]_vars =>
        [\A s \in Row : suggestion[s].status = "rejected" =>
            \/ suggestion'[s].status \in {"rejected", "failed"}
            \/ generated'[s] > generated[s]]_vars
  <2> SUFFICES ASSUME IInv, Next, NEW s \in Row, suggestion[s].status = "rejected"
               PROVE  \/ suggestion'[s].status \in {"rejected", "failed"}
                      \/ generated'[s] > generated[s]
    OBVIOUS
  <2>1. /\ suggestion \in [Row -> SuggestionType] /\ \A r \in Row : generated[r] \in Nat
        /\ suggestion[s] \in SuggestionType
    BY Types DEF IInv, RowsTyped, HistoryTyped
  <2>2. CASE UNCHANGED suggestion
    BY <2>2
  <2>3. ASSUME NEW q \in Requesters, AskRecords(q)
        PROVE  suggestion'[s] = suggestion[s]
    BY <2>1, <2>3 DEF AskRecords
  <2>4. ASSUME NEW a \in Answer, Completes(a)
        PROVE  \/ suggestion'[s].status \in {"rejected", "failed"}
               \/ generated'[s] > generated[s]
    <3>1. CASE suggestion[s].of = a.id /\ a.ok
      BY <2>1, <2>4, <3>1 DEF Completes
    <3>2. CASE suggestion[s].of = a.id /\ ~a.ok
      <4>1. suggestion'[s] = [suggestion[s] EXCEPT !.status = "failed"]
        BY <2>4, <3>2 DEF Completes
      <4> QED BY <2>1, <4>1 DEF SuggestionType
    <3>3. CASE suggestion[s].of # a.id
      BY <2>1, <2>4, <3>3 DEF Completes
    <3> QED BY <3>1, <3>2, <3>3
  <2>5. ASSUME NEW o \in Operators, Claims(o) \/ Finishes(o)
        PROVE  suggestion'[s] = suggestion[s]
    BY <2>1, <2>5 DEF Claims, Finishes, Release
  <2>6. ASSUME NEW r \in Row, Rejects(r)
        PROVE  suggestion'[s].status = "rejected"
    BY <2>1, <2>6 DEF Rejects, SuggestionType
  <2>7. ASSUME NEW q \in Requesters, (\E m \in Machines : Looks(q, m)) \/ AskDispatches(q) \/ AskFails(q)
        PROVE  UNCHANGED suggestion
    BY <2>7 DEF Looks, AskDispatches, AskFails
  <2>8. Agent \/ (\E a \in Answer : Acknowledges(a)) \/ (\E c \in Id : Redeliver(c))
          => UNCHANGED suggestion
    BY DEF Agent, Runs, Reports, Removes, Acknowledges, Redeliver
  <2>9. ASSUME NEW o \in Operators,
               \/ \E r \in Row, picks \in SUBSET Machines \ {{}} : Approves(o, r, picks)
               \/ Checks(o) \/ Installs(o) \/ CannotInstall(o) \/ Breaks(o)
        PROVE  UNCHANGED suggestion
    BY <2>9 DEF Approves, Checks, Installs, CannotInstall, Breaks
  <2> QED BY <2>2, <2>3, <2>4, <2>5, <2>6, <2>7, <2>8, <2>9 DEF Next, Request, Master, Operator
<1> QED BY <1>1, InductiveInvariant, PTL DEF Spec, RejectionHolds

============================================================================
