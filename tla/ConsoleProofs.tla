--------------------------- MODULE ConsoleProofs ---------------------------
(***************************************************************************)
(* Proofs about Console: what is proved of a page on its own holds of the  *)
(* console, because one page is open at a time and the others leave its    *)
(* state alone.                                                            *)
(***************************************************************************)
EXTENDS Console, FiniteSetTheorems, SequenceTheorems, TLAPS

-----------------------------------------------------------------------------
(* One page at a time.                                                     *)

LEMMA LayoutsStay == Layouts!Next => UNCHANGED page \/ (page \in Layouts!Pages /\ page' \in Layouts!Pages)
  BY Zenon DEF Layouts!Next, Layouts!Serve, Layouts!Lose, Layouts!LayoutLoads, Layouts!LayoutDoesNotLoad,
         Layouts!SaveAnswered, Layouts!AppendChart, Layouts!ChartAnswered, Layouts!AddWidget,
         Layouts!ReplaceLayout, Layouts!RemoveWidget, Layouts!AddToDashboard, Layouts!GoTo,
         Layouts!Customize, Layouts!Rearrange, Layouts!UndoReplace, Layouts!SaveTimer, Layouts!Edit

LEMMA TilingsStay == Tilings!Next => UNCHANGED page
  BY Zenon DEF Tilings!Next, Tilings!ApplyTemplate, Tilings!Randomize, Tilings!Split, Tilings!Dress

LEMMA DenialsStay == Denials!Next => UNCHANGED page
  BY Zenon DEF Denials!Next, Denials!Answer, Denials!Apply, Denials!Fail, Denials!Loaded, Denials!NotLoaded,
         Denials!Acted, Denials!FixAnswered, Denials!FilterAgent, Denials!Type, Denials!Act,
         Denials!RequestFix, Denials!Refresh, Denials!SearchTimer, Denials!Turn, Denials!SwitchRoute,
         Denials!Change

LEMMA DeploymentsStay == Deployments!Next => UNCHANGED page
  BY Zenon DEF Deployments!Next, Deployments!Answer, Deployments!Fail, Deployments!Loaded,
         Deployments!NotLoaded, Deployments!TakeUndo, Deployments!UndoAnswered, Deployments!SetFilter,
         Deployments!Undo, Deployments!AgentConfirms, Deployments!AgentRefuses, Deployments!OtherUndo,
         Deployments!RevertTick, Deployments!Turn

LEMMA FleetStays == FleetViews!Next => UNCHANGED page
  BY Zenon DEF FleetViews!Next, FleetViews!Enroll, FleetViews!Poll, FleetViews!AgentsRead,
         FleetViews!AlertsRead, FleetViews!PollFails, FleetViews!ComplianceLoads, FleetViews!WidgetsLoad

LEMMA DeployingStays == Deploying!Next => UNCHANGED page
  BY Zenon DEF Deploying!Next, Deploying!Toggle, Deploying!AgentLeaves, Deploying!ToggleAllVisible,
         Deploying!Poll, Deploying!OpenDialog, Deploying!CloseDialog, Deploying!Submit,
         Deploying!SetPermissive, Deploying!Crash, Deploying!ChangeField, Deploying!Claim,
         Deploying!Known, Deploying!Execute, Deploying!CannotExecute, Deploying!KeepOutcome,
         Deploying!Answered, Deploying!GivesUp

LEMMA OneAgentStays == OneAgent!Next => UNCHANGED page
  BY Zenon DEF OneAgent!Next, OneAgent!Answer, OneAgent!Fail, OneAgent!Take, OneAgent!Loaded,
         OneAgent!NotLoaded, OneAgent!Correlated, OneAgent!FixAnswered, OneAgent!SwitchAnswered,
         OneAgent!Open, OneAgent!ToggleDenial, OneAgent!RequestFix, OneAgent!Tick, OneAgent!Switch,
         OneAgent!Change

LEMMA AlertListStays == AlertList!Next => UNCHANGED page
  BY Zenon DEF AlertList!Next, AlertList!Polled, AlertList!Tick, AlertList!Turn, AlertList!SetFilter,
         AlertList!Answer, AlertList!Fail, AlertList!Loaded, AlertList!NotLoaded,
         AlertList!Acknowledge, AlertList!OtherAck, AlertList!TakeAck, AlertList!Acked

LEMMA SuggestionsStay == Suggestions!Next => UNCHANGED page
  BY Zenon DEF Suggestions!Next, Suggestions!Polled, Suggestions!Tick, Suggestions!Turn,
         Suggestions!SetFilter, Suggestions!Answer, Suggestions!Fail, Suggestions!Loaded,
         Suggestions!NotLoaded, Suggestions!ToggleExpand, Suggestions!OtherReview,
         Suggestions!ToggleAgent, Suggestions!Review, Suggestions!ClearFocus,
         Suggestions!GetSuggestedModule, Suggestions!DetailLoads, Suggestions!FocusLoads,
         Suggestions!TakeReview, Suggestions!Reviewed

LEMMA MatrixStays == Matrix!Next => UNCHANGED page
  BY Zenon DEF Matrix!Next, Matrix!SetDays, Matrix!AutoTick, Matrix!Answer, Matrix!Fail, Matrix!Loaded,
         Matrix!NotLoaded, Matrix!Denial

LEMMA RunsStay == Runs!Next => UNCHANGED page
  BY Zenon DEF Runs!Next, Runs!Tick, Runs!StopAll, Runs!GenerateAll, Runs!Stop, Runs!Generate, Runs!Advance,
         Runs!Start, Runs!ChooseAgent, Runs!Read, Runs!Take, Runs!Fail, Runs!Loaded, Runs!NotLoaded,
         Runs!DomainsLoad, Runs!Answered, Runs!Started, Runs!Answer

LEMMA SettingsStay == Settings!Next => UNCHANGED page
  BY Zenon DEF Settings!Next, Settings!SetEnabled, Settings!Press, Settings!TypeSecret, Settings!SettingsLoad,
         Settings!TestAnswered, Settings!SaveAnswered, Settings!Reread, Settings!GetIntegrations,
         Settings!ResolveConfig, Settings!Ping, Settings!Refused, Settings!UpsertIntegrationSetting,
         Settings!CannotStore, Settings!ReadFirst, Settings!ReadSecond, Settings!SetSources,
         Settings!CannotRebuild

LEMMA HistoriesStay == Histories!Next => UNCHANGED page
  BY Zenon DEF Histories!Next, Histories!Show, Histories!Refresh, Histories!MinutePasses, Histories!Answered,
         Histories!Failed, Histories!InputLoads, Histories!InputDoesNotLoad, Histories!Ends

LEMMA PicturesStay == Pictures!Next => UNCHANGED page
  BY Zenon DEF Pictures!Next, Pictures!Record, Pictures!LoadGallery

\* Only going from the dashboard to the charts, or back, opens another page.
LEMMA PageStays ==
  [Next]_vars => UNCHANGED page \/ (page \in Layouts!Pages /\ page' \in Layouts!Pages)
  BY LayoutsStay, TilingsStay, DenialsStay, DeploymentsStay, FleetStays, DeployingStays, OneAgentStays,
     AlertListStays, SuggestionsStay, MatrixStays, RunsStay, SettingsStay, HistoriesStay, PicturesStay
     DEF Next, vars

-----------------------------------------------------------------------------
(* The pages proved on their own.  Their proof modules are instances like    *)
(* the pages', with the definitions of the page under another name.          *)

DeployingP == INSTANCE DeployProofs WITH Agent <- SuggestedFor, MaxEdits <- MaxEdits + 1
SettingsP == INSTANCE SettingsProofs WITH MaxMoves <- MaxMoves + 1

LEMMA DeployingSame ==
  /\ Deploying!Init <=> DeployingP!Init
  /\ Deploying!Next <=> DeployingP!Next
  /\ Deploying!DeployedOnce <=> DeployingP!DeployedOnce
  /\ Deploying!KeyMeansPayload <=> DeployingP!KeyMeansPayload
<1>1. Deploying!Init <=> DeployingP!Init
  BY DEF Deploying!Init, DeployingP!Init
<1>2. \A a \in SuggestedFor : /\ Deploying!Toggle(a) <=> DeployingP!Toggle(a)
                              /\ Deploying!AgentLeaves(a) <=> DeployingP!AgentLeaves(a)
  BY DEF Deploying!Toggle, DeployingP!Toggle, Deploying!AgentLeaves, DeployingP!AgentLeaves
<1>3. /\ Deploying!ToggleAllVisible <=> DeployingP!ToggleAllVisible
      /\ Deploying!Poll <=> DeployingP!Poll
      /\ Deploying!CloseDialog <=> DeployingP!CloseDialog
      /\ Deploying!Crash <=> DeployingP!Crash
  BY DEF Deploying!ToggleAllVisible, DeployingP!ToggleAllVisible, Deploying!Poll, DeployingP!Poll,
         Deploying!CloseDialog, DeployingP!CloseDialog, Deploying!Crash, DeployingP!Crash
<1>4. Deploying!OpenDialog <=> DeployingP!OpenDialog
  BY DEF Deploying!OpenDialog, DeployingP!OpenDialog, Deploying!Fields, DeployingP!Fields
<1>5. ASSUME NEW f
      PROVE  Deploying!ChangeField(f) <=> DeployingP!ChangeField(f)
  <2>1. \A old, new : Deploying!NewKey(old, new) = DeployingP!NewKey(old, new)
    BY DEF Deploying!NewKey, DeployingP!NewKey
  <2>2. Deploying!NewKey(ui.dialog[1].fields, f) = DeployingP!NewKey(ui.dialog[1].fields, f)
    BY <2>1
  <2>3. \A S : Deploying!Cardinality(S) = DeployingP!Cardinality(S)
    BY DEF Deploying!Cardinality, DeployingP!Cardinality
  <2> QED BY Zenon, <2>2, <2>3 DEF Deploying!ChangeField, DeployingP!ChangeField
<1>6. /\ Deploying!Submit <=> DeployingP!Submit
      /\ Deploying!SetPermissive <=> DeployingP!SetPermissive
  BY DEF Deploying!Submit, DeployingP!Submit, Deploying!SetPermissive, DeployingP!SetPermissive,
         Deploying!Complete, DeployingP!Complete, Deploying!Sent, DeployingP!Sent,
         Deploying!Payload, DeployingP!Payload
<1>7. \A k : Deploying!Claimed(k) = DeployingP!Claimed(k)
  BY DEF Deploying!Claimed, DeployingP!Claimed
<1>8. \A c, st : Deploying!Step(c, st) <=> DeployingP!Step(c, st)
  BY DEF Deploying!Step, DeployingP!Step
<1>9. \A c : /\ Deploying!Claim(c) <=> DeployingP!Claim(c)
             /\ Deploying!Known(c) <=> DeployingP!Known(c)
  BY <1>7, <1>8 DEF Deploying!Claim, DeployingP!Claim, Deploying!Known, DeployingP!Known
<1>10. \A c : /\ Deploying!Execute(c) <=> DeployingP!Execute(c)
              /\ Deploying!CannotExecute(c) <=> DeployingP!CannotExecute(c)
              /\ Deploying!KeepOutcome(c) <=> DeployingP!KeepOutcome(c)
  BY <1>8 DEF Deploying!Execute, DeployingP!Execute, Deploying!CannotExecute, DeployingP!CannotExecute,
         Deploying!KeepOutcome, DeployingP!KeepOutcome
<1>11. \A c, ok : Deploying!Shown(c, ok) = DeployingP!Shown(c, ok)
  BY DEF Deploying!Shown, DeployingP!Shown
<1>12. \A c : /\ Deploying!Answered(c) <=> DeployingP!Answered(c)
              /\ Deploying!GivesUp(c) <=> DeployingP!GivesUp(c)
  BY <1>11 DEF Deploying!Answered, DeployingP!Answered, Deploying!GivesUp, DeployingP!GivesUp
<1>13. Deploying!FieldValues = DeployingP!FieldValues
  BY DEF Deploying!FieldValues, DeployingP!FieldValues, Deploying!Kinds, DeployingP!Kinds
<1>14. Deploying!Next <=> DeployingP!Next
  BY <1>2, <1>3, <1>4, <1>5, <1>6, <1>9, <1>10, <1>12, <1>13 DEF Deploying!Next, DeployingP!Next
<1>15. /\ Deploying!DeployedOnce <=> DeployingP!DeployedOnce
       /\ Deploying!KeyMeansPayload <=> DeployingP!KeyMeansPayload
  BY <1>7 DEF Deploying!DeployedOnce, DeployingP!DeployedOnce,
              Deploying!KeyMeansPayload, DeployingP!KeyMeansPayload
<1> QED BY <1>1, <1>14, <1>15

LEMMA SettingsSame ==
  /\ Settings!Init <=> SettingsP!Init
  /\ Settings!Next <=> SettingsP!Next
  /\ Settings!SourcesFollow <=> SettingsP!SourcesFollow
<1>1. /\ \A e : Settings!Form(e) = SettingsP!Form(e)
      /\ \A kind, i, e, s : Settings!Req(kind, i, e, s) = SettingsP!Req(kind, i, e, s)
      /\ \A s : Settings!Enabled(s) = SettingsP!Enabled(s)
      /\ Settings!Stored = SettingsP!Stored
      /\ \A c, st : Settings!Step(c, st) <=> SettingsP!Step(c, st)
      /\ Settings!Moves <=> SettingsP!Moves
      /\ Settings!Moved = SettingsP!Moved
  BY DEF Settings!Form, SettingsP!Form, Settings!Req, SettingsP!Req, Settings!Enabled, SettingsP!Enabled,
         Settings!Stored, SettingsP!Stored, Settings!Step, SettingsP!Step, Settings!Moves, SettingsP!Moves,
         Settings!Moved, SettingsP!Moved
<1>2. Settings!Init <=> SettingsP!Init
  BY DEF Settings!Init, SettingsP!Init, Settings!Form, SettingsP!Form, Settings!Req, SettingsP!Req
<1>3. \A i \in Integration : /\ Settings!SetEnabled(i) <=> SettingsP!SetEnabled(i)
                             /\ \A s : Settings!TypeSecret(i, s) <=> SettingsP!TypeSecret(i, s)
  BY <1>1 DEF Settings!SetEnabled, SettingsP!SetEnabled, Settings!TypeSecret, SettingsP!TypeSecret
<1>4. \A kind, i : Settings!Press(kind, i) <=> SettingsP!Press(kind, i)
  BY <1>1 DEF Settings!Press, SettingsP!Press
<1>5. \A c : /\ Settings!SettingsLoad(c) <=> SettingsP!SettingsLoad(c)
             /\ Settings!TestAnswered(c) <=> SettingsP!TestAnswered(c)
  BY DEF Settings!SettingsLoad, SettingsP!SettingsLoad, Settings!TestAnswered, SettingsP!TestAnswered
<1>6. \A c : /\ Settings!SaveAnswered(c) <=> SettingsP!SaveAnswered(c)
             /\ Settings!Reread(c) <=> SettingsP!Reread(c)
  BY <1>1 DEF Settings!SaveAnswered, SettingsP!SaveAnswered, Settings!Reread, SettingsP!Reread
<1>7. \A c : /\ Settings!GetIntegrations(c) <=> SettingsP!GetIntegrations(c)
             /\ Settings!ResolveConfig(c) <=> SettingsP!ResolveConfig(c)
             /\ Settings!Ping(c) <=> SettingsP!Ping(c)
             /\ Settings!Refused(c) <=> SettingsP!Refused(c)
             /\ Settings!CannotRebuild(c) <=> SettingsP!CannotRebuild(c)
             /\ Settings!CannotStore(c) <=> SettingsP!CannotStore(c)
  BY <1>1 DEF Settings!GetIntegrations, SettingsP!GetIntegrations, Settings!ResolveConfig,
         SettingsP!ResolveConfig, Settings!Ping, SettingsP!Ping, Settings!Refused, SettingsP!Refused,
         Settings!CannotRebuild, SettingsP!CannotRebuild, Settings!CannotStore, SettingsP!CannotStore,
         Settings!Carried, SettingsP!Carried
<1>8. \A c : /\ Settings!UpsertIntegrationSetting(c) <=> SettingsP!UpsertIntegrationSetting(c)
             /\ Settings!ReadFirst(c) <=> SettingsP!ReadFirst(c)
             /\ Settings!ReadSecond(c) <=> SettingsP!ReadSecond(c)
             /\ Settings!SetSources(c) <=> SettingsP!SetSources(c)
  BY <1>1 DEF Settings!UpsertIntegrationSetting, SettingsP!UpsertIntegrationSetting, Settings!ReadFirst,
         SettingsP!ReadFirst, Settings!ReadSecond, SettingsP!ReadSecond, Settings!SetSources,
         SettingsP!SetSources, Settings!Reading, SettingsP!Reading
<1>9. Settings!Next <=> SettingsP!Next
  BY <1>3, <1>4, <1>5, <1>6, <1>7, <1>8 DEF Settings!Next, SettingsP!Next
<1>10. Settings!SourcesFollow <=> SettingsP!SourcesFollow
  BY <1>1 DEF Settings!SourcesFollow, SettingsP!SourcesFollow
<1> QED BY <1>2, <1>9, <1>10

-----------------------------------------------------------------------------
(* The charts' history, for every set of configurations, every bound on     *)
(* loads, failures and time, and every positive TTL.                        *)

HistoriesShown   == Configuration \cup {"none"}
HistoryRequest == [slice : Histories!Slice, n : Nat, at : Nat, st : {"sent", "ok", "failed"}, ended : Nat]
LoadRun(k)  == [n : Nat, key : {k}, asked : Nat, live : BOOLEAN, uses : [Histories!Needed(k) -> Nat]]
HistoriesUI  == [key : HistoriesShown, loading : BOOLEAN, error : BOOLEAN, shown : HistoriesShown,
            cache : [Histories!Slice -> Nat], runs : SUBSET UNION {LoadRun(k) : k \in Configuration}]

\* The chart, the cache and the requests keep their types.
HistoriesTyped ==
  /\ ui \in HistoriesUI
  /\ calls \subseteq HistoryRequest
  /\ log \in [now : Nat, loads : Nat, faults : Nat]

\* the run's request for a slice, and the request the cache has for its own
Uses(r, c) == c.slice \in Histories!Needed(r.key) /\ r.uses[c.slice] = c.n

\* A slice and a number name one request, made by a load that has begun; the
\* cache never refers to one that failed.
RequestsKnown ==
  /\ \A c \in calls : 1 <= c.n /\ c.n <= log.loads
  /\ \A c, d \in calls : c.slice = d.slice /\ c.n = d.n => c = d
  /\ \A c \in calls : ui.cache[c.slice] = c.n => c.st # "failed"

\* Every load under way still has the request of each slice it needs.
UsesKept ==
  \A r \in ui.runs : /\ r.n <= log.loads
                     /\ \A s \in Histories!Needed(r.key) : \E c \in calls : c.slice = s /\ c.n = r.uses[s]

\* None of them was too old, or had failed, when the load began.
UsesFresh ==
  \A r \in ui.runs : \A c \in calls : Uses(r, c) =>
    /\ r.asked - c.at < TTL
    /\ c.st = "failed" => c.ended >= r.n

\* Until a load that was not given up ends, the chart may show another
\* configuration; then it shows its own or says that it could not be drawn.
ShownFollows ==
  /\ \A r \in ui.runs : r.live => r.key = ui.key
  /\ (\E r \in ui.runs : r.live) \/ ui.error \/ ui.shown = ui.key

HistoriesInv ==
  /\ page = "explorer"
  /\ HistoriesTyped
  /\ RequestsKnown
  /\ UsesKept
  /\ UsesFresh
  /\ ShownFollows

LEMMA HistoriesInitInv == Histories!Init => HistoriesInv
<1> SUFFICES ASSUME Histories!Init PROVE HistoriesInv
  OBVIOUS
<1> DEFINE z == [s \in Histories!Slice |-> 0]
<1>1. z \in [Histories!Slice -> Nat]
  OBVIOUS
<1>2. /\ page = "explorer" /\ calls = {} /\ log = [now |-> 0, loads |-> 0, faults |-> 0]
      /\ ui = [key |-> "none", loading |-> FALSE, error |-> FALSE, shown |-> "none",
               cache |-> z, runs |-> {}]
  BY DEF Histories!Init, Histories!NotShown
<1> HIDE DEF z
<1>3. HistoriesTyped
  BY <1>1, <1>2 DEF HistoriesTyped, HistoriesUI, HistoriesShown
<1> QED BY <1>2, <1>3 DEF HistoriesInv, RequestsKnown, UsesKept, UsesFresh, ShownFollows

-----------------------------------------------------------------------------
(* What is dropped of settled requests is what nothing refers to.          *)

LEMMA RunTyped ==
  ASSUME HistoriesTyped, NEW r \in ui.runs
  PROVE  /\ r.key \in Configuration /\ r \in LoadRun(r.key) /\ Histories!Needed(r.key) \subseteq Histories!Slice
         /\ r.n \in Nat /\ r.asked \in Nat /\ r.live \in BOOLEAN /\ r.uses \in [Histories!Needed(r.key) -> Nat]
<1>1. PICK k \in Configuration : r \in LoadRun(k)
  BY DEF HistoriesTyped, HistoriesUI
<1>2. r.key = k
  BY <1>1 DEF LoadRun
<1> QED BY <1>1, <1>2 DEF LoadRun, Histories!Needed, Histories!Slice

\* A step that replaces calls by what is referred to of cs keeps what is
\* said of calls, when it holds of cs.
LEMMA ReferredKeeps ==
  ASSUME HistoriesTyped, ui' \in HistoriesUI, log' \in [now : Nat, loads : Nat, faults : Nat],
         page' = "explorer",
         NEW cs, cs \subseteq HistoryRequest,
         calls' = Histories!Referred(cs, ui'.cache, ui'.runs),
         \A c \in cs : 1 <= c.n /\ c.n <= log'.loads,
         \A c, d \in cs : c.slice = d.slice /\ c.n = d.n => c = d,
         \A c \in cs : ui'.cache[c.slice] = c.n => c.st # "failed",
         \A r \in ui'.runs : r.n <= log'.loads,
         \A r \in ui'.runs : \A s \in Histories!Needed(r.key) : \E c \in cs : c.slice = s /\ c.n = r.uses[s],
         \A r \in ui'.runs : \A c \in cs : Uses(r, c) =>
           r.asked - c.at < TTL /\ (c.st = "failed" => c.ended >= r.n),
         ShownFollows'
  PROVE  HistoriesInv'
<1>1. calls' \subseteq cs
  BY DEF Histories!Referred
<1>2. HistoriesTyped'
  BY <1>1 DEF HistoriesTyped
<1>3. RequestsKnown'
  BY <1>1 DEF RequestsKnown
<1>4. \A r \in ui'.runs : \A c \in cs : Uses(r, c) => c \in calls'
  BY DEF Histories!Referred, Uses
<1>5. UsesKept'
  <2> SUFFICES ASSUME NEW r \in ui'.runs, NEW s \in Histories!Needed(r.key)
               PROVE  \E c \in calls' : c.slice = s /\ c.n = r.uses[s]
    BY DEF UsesKept
  <2>1. PICK c \in cs : c.slice = s /\ c.n = r.uses[s]
    OBVIOUS
  <2> QED BY <2>1, <1>4 DEF Uses
<1>6. UsesFresh'
  BY <1>1 DEF UsesFresh, Uses
<1> QED BY <1>2, <1>3, <1>5, <1>6 DEF HistoriesInv

-----------------------------------------------------------------------------
(* A load.  The runs it leaves are those there were, given up or not.      *)

LEMMA LoadStep ==
  ASSUME HistoriesInv, NEW k \in Configuration, NEW u \in HistoriesUI, u.cache = ui.cache, u.key = k,
         \A r \in u.runs : /\ r.live => r.key = k
                           /\ \E q \in ui.runs : r.n = q.n /\ r.key = q.key /\ r.asked = q.asked
                                                 /\ r.uses = q.uses,
         Histories!LoadChartInput(k, u), UNCHANGED page
  PROVE  HistoriesInv'
<1> DEFINE n == log.loads + 1
           missing == {s \in Histories!Needed(k) : ~Histories!Hit(s)}
           cache == [s \in Histories!Slice |-> IF s \in missing THEN n ELSE ui.cache[s]]
           uses == [s \in Histories!Needed(k) |-> cache[s]]
           run == [n |-> n, key |-> k, asked |-> log.now, live |-> TRUE, uses |-> uses]
           runs == u.runs \cup {run}
           fresh == {[slice |-> s, n |-> n, at |-> log.now, st |-> "sent", ended |-> 0] : s \in missing}
           cs == calls \cup fresh
<1>1. /\ HistoriesTyped /\ page' = "explorer" /\ log.loads \in Nat /\ log.now \in Nat /\ n \in Nat
      /\ ui.cache \in [Histories!Slice -> Nat] /\ calls \subseteq HistoryRequest /\ log \in [now : Nat, loads : Nat, faults : Nat]
  BY DEF HistoriesInv, HistoriesTyped, HistoriesUI
<1>2. /\ ui' = [u EXCEPT !.cache = cache, !.runs = runs]
      /\ calls' = Histories!Referred(cs, cache, runs)
      /\ log' = [log EXCEPT !.loads = n]
  BY DEF Histories!LoadChartInput
<1>3. /\ missing \subseteq Histories!Needed(k) /\ Histories!Needed(k) \subseteq Histories!Slice
      /\ \A s \in Histories!Needed(k) \ missing : Histories!Hit(s)
  BY DEF Histories!Needed, Histories!Slice
<1>4. /\ cache \in [Histories!Slice -> Nat]
      /\ \A s \in missing : cache[s] = n
      /\ \A s \in Histories!Slice \ missing : cache[s] = ui.cache[s]
  BY <1>1, <1>3
<1>5. fresh \subseteq HistoryRequest
  BY <1>1, <1>3 DEF HistoryRequest
<1>6. /\ \A c \in fresh : c.slice \in missing /\ c.n = n /\ c.at = log.now /\ c.st = "sent"
      /\ \A s \in missing : \E c \in fresh : c.slice = s
      /\ \A c, d \in fresh : c.slice = d.slice => c = d
  <2> HIDE DEF missing
  <2> DEFINE req(s) == [slice |-> s, n |-> n, at |-> log.now, st |-> "sent", ended |-> 0]
  <2>1. \A s : req(s).slice = s /\ req(s).n = n /\ req(s).at = log.now /\ req(s).st = "sent"
    OBVIOUS
  <2>2. fresh = {req(s) : s \in missing}
    OBVIOUS
  <2> HIDE DEF req, fresh
  <2> QED BY <2>1, <2>2
<1> HIDE DEF missing, fresh, cache
<1>7. uses \in [Histories!Needed(k) -> Nat] /\ \A s \in Histories!Needed(k) : uses[s] = cache[s]
  BY <1>3, <1>4
<1> HIDE DEF uses
<1>8. run \in LoadRun(k) /\ run.n = n /\ run.key = k /\ run.asked = log.now /\ run.live /\ run.uses = uses
  BY <1>1, <1>7 DEF LoadRun
<1> HIDE DEF run
<1>9. runs \subseteq UNION {LoadRun(j) : j \in Configuration}
  BY <1>8 DEF HistoriesUI
<1>10. log' \in [now : Nat, loads : Nat, faults : Nat] /\ log'.loads = n
  BY <1>1, <1>2
<1>11. /\ ui' \in HistoriesUI /\ ui'.cache = cache /\ ui'.runs = u.runs \cup {run}
       /\ ui'.key = u.key /\ ui'.error = u.error /\ ui'.shown = u.shown
  BY <1>2, <1>4, <1>9 DEF HistoriesUI
<1>12. calls' = Histories!Referred(cs, ui'.cache, ui'.runs)
  BY <1>2, <1>11
<1>13. cs \subseteq HistoryRequest
  BY <1>1, <1>5
<1>14. \A c \in calls : 1 <= c.n /\ c.n <= log.loads /\ c.n # n /\ c.n \in Nat
  BY <1>1 DEF HistoriesInv, RequestsKnown, HistoryRequest
<1>15. \A c \in cs : 1 <= c.n /\ c.n <= log'.loads
  BY <1>1, <1>6, <1>10, <1>14
<1>16. \A c, d \in cs : c.slice = d.slice /\ c.n = d.n => c = d
  BY <1>6, <1>14 DEF HistoriesInv, RequestsKnown
<1>17. \A c \in cs : ui'.cache[c.slice] = c.n => c.st # "failed"
  <2> SUFFICES ASSUME NEW c \in calls, cache[c.slice] = c.n PROVE c.st # "failed"
    BY <1>6, <1>11
  <2>1. c.slice \in Histories!Slice \ missing
    BY <1>1, <1>4, <1>14 DEF HistoryRequest
  <2> QED BY <2>1, <1>4 DEF HistoriesInv, RequestsKnown
<1>18. \A r \in u.runs : r.n <= log'.loads
  <2> SUFFICES ASSUME NEW r \in u.runs PROVE r.n <= log'.loads
    OBVIOUS
  <2>1. PICK q \in ui.runs : r.n = q.n
    OBVIOUS
  <2>2. q.n <= log.loads /\ q.n \in Nat
    BY <1>1, RunTyped DEF HistoriesInv, UsesKept
  <2> QED BY <1>1, <1>10, <2>1, <2>2
<1>19. \A r \in u.runs : \A s \in Histories!Needed(r.key) : \E c \in calls : c.slice = s /\ c.n = r.uses[s]
  BY DEF HistoriesInv, UsesKept
<1>20. \A s \in Histories!Needed(k) : \E c \in cs : c.slice = s /\ c.n = run.uses[s]
  <2> SUFFICES ASSUME NEW s \in Histories!Needed(k) PROVE \E c \in cs : c.slice = s /\ c.n = cache[s]
    BY <1>7, <1>8
  <2>1. CASE s \in missing
    BY <2>1, <1>4, <1>6
  <2>2. CASE s \notin missing
    <3>1. PICK c \in Histories!Cached(s) : TRUE
      BY <2>2, <1>3 DEF Histories!Hit
    <3> QED BY <2>2, <3>1, <1>3, <1>4 DEF Histories!Cached
  <2> QED BY <2>1, <2>2
<1>21. \A r \in u.runs : \A c \in cs : Uses(r, c) =>
         r.asked - c.at < TTL /\ (c.st = "failed" => c.ended >= r.n)
  <2> SUFFICES ASSUME NEW r \in u.runs, NEW c \in cs, Uses(r, c)
               PROVE  r.asked - c.at < TTL /\ (c.st = "failed" => c.ended >= r.n)
    OBVIOUS
  <2>1. PICK q \in ui.runs : r.n = q.n /\ r.key = q.key /\ r.asked = q.asked /\ r.uses = q.uses
    OBVIOUS
  <2>2. PICK d \in calls : d.slice = c.slice /\ d.n = c.n
    BY <1>19 DEF Uses
  <2>3. c = d
    BY <1>16, <2>2
  <2>4. Uses(q, c) /\ c \in calls
    BY <2>1, <2>2, <2>3 DEF Uses
  <2> QED BY <2>1, <2>4 DEF HistoriesInv, UsesFresh
<1>22. \A c \in cs : Uses(run, c) =>
         run.asked - c.at < TTL /\ (c.st = "failed" => c.ended >= run.n)
  <2> SUFFICES ASSUME NEW c \in cs, c.slice \in Histories!Needed(k), cache[c.slice] = c.n
               PROVE  log.now - c.at < TTL /\ c.st # "failed"
    BY <1>7, <1>8 DEF Uses
  <2>1. CASE c \in fresh
    BY <2>1, <1>1, <1>6, CacheAssumption
  <2>2. CASE c \in calls
    <3>1. c.slice \notin missing /\ ui.cache[c.slice] = c.n
      BY <2>2, <1>3, <1>4, <1>14
    <3>2. PICK d \in Histories!Cached(c.slice) : log.now - d.at < TTL
      BY <3>1, <1>3 DEF Histories!Hit
    <3>3. c = d
      BY <2>2, <3>1, <3>2 DEF Histories!Cached, HistoriesInv, RequestsKnown
    <3> QED BY <2>2, <3>1, <3>2, <3>3 DEF HistoriesInv, RequestsKnown
  <2> QED BY <2>1, <2>2
<1>23. ShownFollows'
  BY <1>8, <1>11 DEF ShownFollows
<1> HIDE DEF cs
<1>24. \A c \in calls : c \in cs
  BY DEF cs
<1>25. \A r \in ui'.runs : r.n <= log'.loads
  BY <1>1, <1>8, <1>10, <1>11, <1>18
<1>26. \A r \in ui'.runs : \A s \in Histories!Needed(r.key) : \E c \in cs : c.slice = s /\ c.n = r.uses[s]
  BY <1>8, <1>11, <1>19, <1>20, <1>24
<1>27. \A r \in ui'.runs : \A c \in cs : Uses(r, c) =>
         r.asked - c.at < TTL /\ (c.st = "failed" => c.ended >= r.n)
  BY <1>11, <1>21, <1>22
<1> QED BY <1>1, <1>10, <1>11, <1>12, <1>13, <1>15, <1>16, <1>17, <1>23, <1>25, <1>26, <1>27, ReferredKeeps

LEMMA ShowStep ==
  ASSUME HistoriesInv, NEW k \in Configuration, Histories!Show(k)
  PROVE  HistoriesInv'
<1> DEFINE given == {[r EXCEPT !.live = FALSE] : r \in ui.runs}
           u == [ui EXCEPT !.key = k, !.loading = TRUE, !.runs = given]
<1>1. HistoriesTyped /\ ui \in HistoriesUI
  BY DEF HistoriesInv, HistoriesTyped
<1>2. Histories!LoadChartInput(k, u) /\ UNCHANGED page
  BY <1>1 DEF Histories!Show, HistoriesUI
<1>3. \A r \in ui.runs : /\ [r EXCEPT !.live = FALSE] \in LoadRun(r.key) /\ r.key \in Configuration
                         /\ ~[r EXCEPT !.live = FALSE].live
                         /\ [r EXCEPT !.live = FALSE].n = r.n /\ [r EXCEPT !.live = FALSE].key = r.key
                         /\ [r EXCEPT !.live = FALSE].asked = r.asked
                         /\ [r EXCEPT !.live = FALSE].uses = r.uses
  <2> SUFFICES ASSUME NEW r \in ui.runs
               PROVE  /\ [r EXCEPT !.live = FALSE] \in LoadRun(r.key) /\ r.key \in Configuration
                      /\ ~[r EXCEPT !.live = FALSE].live
                      /\ [r EXCEPT !.live = FALSE].n = r.n /\ [r EXCEPT !.live = FALSE].key = r.key
                      /\ [r EXCEPT !.live = FALSE].asked = r.asked
                      /\ [r EXCEPT !.live = FALSE].uses = r.uses
    OBVIOUS
  <2>1. r.key \in Configuration /\ r \in LoadRun(r.key)
    BY <1>1, RunTyped
  <2> QED BY <2>1 DEF LoadRun
<1>4. given \subseteq UNION {LoadRun(j) : j \in Configuration}
  BY <1>3
<1>5. \A r \in given : ~r.live /\ \E q \in ui.runs : r.n = q.n /\ r.key = q.key /\ r.asked = q.asked
                                                     /\ r.uses = q.uses
  BY <1>3
<1> HIDE DEF given
<1>6. u \in HistoriesUI /\ u.cache = ui.cache /\ u.key = k /\ u.runs = given
  BY <1>1, <1>4 DEF HistoriesUI, HistoriesShown
<1> HIDE DEF u
<1> QED BY <1>2, <1>5, <1>6, LoadStep

LEMMA RefreshStep ==
  ASSUME HistoriesInv, Histories!Refresh
  PROVE  HistoriesInv'
<1>1. ui \in HistoriesUI /\ ui.key \in Configuration /\ Histories!LoadChartInput(ui.key, ui) /\ UNCHANGED page
  BY DEF HistoriesInv, HistoriesTyped, HistoriesUI, HistoriesShown, Histories!Refresh
<1>2. \A r \in ui.runs : r.live => r.key = ui.key
  BY DEF HistoriesInv, ShownFollows
<1> QED BY <1>1, <1>2, LoadStep

-----------------------------------------------------------------------------
(* Answers, failures, and the end of a load.                               *)

LEMMA AnsweredStep ==
  ASSUME HistoriesInv, NEW c \in calls, Histories!Answered(c)
  PROVE  HistoriesInv'
<1> DEFINE d == [c EXCEPT !.st = "ok"]
           cs == (calls \ {c}) \cup {d}
<1>1. /\ HistoriesTyped /\ page' = "explorer" /\ ui' = ui /\ log' = log /\ c \in HistoryRequest
      /\ calls' = Histories!Referred(cs, ui'.cache, ui'.runs)
  BY DEF HistoriesInv, HistoriesTyped, Histories!Answered
<1>2. /\ d \in HistoryRequest /\ d.slice = c.slice /\ d.n = c.n /\ d.at = c.at /\ d.st = "ok"
  BY <1>1 DEF HistoryRequest
<1> HIDE DEF d
<1>3. cs \subseteq HistoryRequest
  BY <1>1, <1>2 DEF HistoriesTyped
<1>4. /\ \A e \in cs : 1 <= e.n /\ e.n <= log'.loads
      /\ \A e, f \in cs : e.slice = f.slice /\ e.n = f.n => e = f
      /\ \A e \in cs : ui'.cache[e.slice] = e.n => e.st # "failed"
  BY <1>1, <1>2 DEF HistoriesInv, RequestsKnown
<1>5. \A r \in ui'.runs : \A s \in Histories!Needed(r.key) : \E e \in cs : e.slice = s /\ e.n = r.uses[s]
  <2> SUFFICES ASSUME NEW r \in ui.runs, NEW s \in Histories!Needed(r.key)
               PROVE  \E e \in cs : e.slice = s /\ e.n = r.uses[s]
    BY <1>1
  <2>1. PICK e \in calls : e.slice = s /\ e.n = r.uses[s]
    BY DEF HistoriesInv, UsesKept
  <2> QED BY <1>2, <2>1
<1>6. \A r \in ui'.runs : \A e \in cs : Uses(r, e) =>
        r.asked - e.at < TTL /\ (e.st = "failed" => e.ended >= r.n)
  BY <1>1, <1>2 DEF HistoriesInv, UsesFresh, Uses
<1>7. (\A r \in ui'.runs : r.n <= log'.loads) /\ ShownFollows'
  BY <1>1 DEF HistoriesInv, UsesKept, ShownFollows
<1> HIDE DEF cs
<1> QED BY <1>1, <1>3, <1>4, <1>5, <1>6, <1>7, ReferredKeeps DEF HistoriesTyped

LEMMA FailedStep ==
  ASSUME HistoriesInv, NEW c \in calls, Histories!Failed(c)
  PROVE  HistoriesInv'
<1> DEFINE d == [c EXCEPT !.st = "failed", !.ended = log.loads]
           cs == (calls \ {c}) \cup {d}
           cache == [ui.cache EXCEPT ![c.slice] = 0]
<1>1. /\ HistoriesTyped /\ page' = "explorer" /\ c \in HistoryRequest /\ ui \in HistoriesUI /\ log.loads \in Nat
      /\ ui.cache \in [Histories!Slice -> Nat] /\ log.faults + 1 \in Nat
      /\ log \in [now : Nat, loads : Nat, faults : Nat]
  BY DEF HistoriesInv, HistoriesTyped, HistoriesUI, Histories!Failed
<1>2. /\ ui' = [ui EXCEPT !.cache = cache]
      /\ calls' = Histories!Referred(cs, ui'.cache, ui.runs)
      /\ log' = [log EXCEPT !.faults = log.faults + 1]
  BY <1>1 DEF Histories!Failed, Histories!Forget, HistoriesUI
<1>3. d \in HistoryRequest /\ d.slice = c.slice /\ d.n = c.n /\ d.at = c.at /\ d.ended = log.loads
  BY <1>1 DEF HistoryRequest
<1>4. /\ cache \in [Histories!Slice -> Nat] /\ cache[c.slice] = 0
      /\ \A s \in Histories!Slice \ {c.slice} : cache[s] = ui.cache[s]
  BY <1>1 DEF HistoryRequest
<1> HIDE DEF d, cache
<1>5. /\ ui' \in HistoriesUI /\ ui'.cache = cache /\ ui'.runs = ui.runs
      /\ ui'.key = ui.key /\ ui'.error = ui.error /\ ui'.shown = ui.shown
      /\ log' \in [now : Nat, loads : Nat, faults : Nat] /\ log'.loads = log.loads
  BY <1>1, <1>2, <1>4 DEF HistoriesUI
<1>6. cs \subseteq HistoryRequest /\ calls' = Histories!Referred(cs, ui'.cache, ui'.runs)
  BY <1>1, <1>2, <1>3, <1>5 DEF HistoriesTyped
<1>7. /\ \A e \in cs : 1 <= e.n /\ e.n <= log'.loads
      /\ \A e, f \in cs : e.slice = f.slice /\ e.n = f.n => e = f
  BY <1>3, <1>5 DEF HistoriesInv, RequestsKnown
<1>8. \A e \in cs : ui'.cache[e.slice] = e.n => e.st # "failed"
  <2> SUFFICES ASSUME NEW e \in cs, cache[e.slice] = e.n PROVE e.st # "failed"
    BY <1>5
  <2>1. e \in calls /\ e.slice # c.slice /\ e.slice \in Histories!Slice
    BY <1>3, <1>4, <1>6, <1>7 DEF HistoryRequest
  <2> QED BY <2>1, <1>4 DEF HistoriesInv, RequestsKnown
<1>9. \A r \in ui'.runs : \A s \in Histories!Needed(r.key) : \E e \in cs : e.slice = s /\ e.n = r.uses[s]
  <2> SUFFICES ASSUME NEW r \in ui.runs, NEW s \in Histories!Needed(r.key)
               PROVE  \E e \in cs : e.slice = s /\ e.n = r.uses[s]
    BY <1>5
  <2>1. PICK e \in calls : e.slice = s /\ e.n = r.uses[s]
    BY DEF HistoriesInv, UsesKept
  <2> QED BY <1>3, <2>1
<1>10. \A r \in ui'.runs : \A e \in cs : Uses(r, e) =>
         r.asked - e.at < TTL /\ (e.st = "failed" => e.ended >= r.n)
  <2> SUFFICES ASSUME NEW r \in ui.runs, NEW e \in cs, Uses(r, e)
               PROVE  r.asked - e.at < TTL /\ (e.st = "failed" => e.ended >= r.n)
    BY <1>5
  <2>1. r.n <= log.loads /\ r.n \in Nat
    BY <1>1, RunTyped DEF HistoriesInv, UsesKept
  <2>2. CASE e \in calls
    BY <2>2 DEF HistoriesInv, UsesFresh
  <2>3. CASE e = d
    <3>1. Uses(r, c)
      BY <2>3, <1>3 DEF Uses
    <3> QED BY <2>1, <2>3, <3>1, <1>1, <1>3 DEF HistoriesInv, UsesFresh
  <2> QED BY <2>2, <2>3
<1>11. (\A r \in ui'.runs : r.n <= log'.loads) /\ ShownFollows'
  BY <1>5 DEF HistoriesInv, UsesKept, ShownFollows
<1> HIDE DEF cs
<1> QED BY <1>1, <1>5, <1>6, <1>7, <1>8, <1>9, <1>10, <1>11, ReferredKeeps

LEMMA EndsStep ==
  ASSUME HistoriesInv, NEW r \in ui.runs, Histories!InputLoads(r) \/ Histories!InputDoesNotLoad(r)
  PROVE  HistoriesInv'
<1> DEFINE runs == ui.runs \ {r}
<1>1. /\ HistoriesTyped /\ page' = "explorer" /\ log' = log /\ ui \in HistoriesUI /\ r.key \in Configuration
      /\ r.live \in BOOLEAN /\ calls' = Histories!Referred(calls, ui.cache, runs)
  BY RunTyped DEF HistoriesInv, HistoriesTyped, Histories!InputLoads, Histories!InputDoesNotLoad, Histories!Ends
<1>2. /\ ui' \in HistoriesUI /\ ui'.cache = ui.cache /\ ui'.runs = runs /\ ui'.key = ui.key
      /\ r.live => ui'.error \/ ui'.shown = r.key
      /\ ~r.live => ui'.error = ui.error /\ ui'.shown = ui.shown
  <2>1. CASE Histories!InputLoads(r)
    <3>1. CASE r.live
      <4>1. ui' = [[ui EXCEPT !.loading = FALSE, !.error = FALSE, !.shown = r.key] EXCEPT !.runs = runs]
        BY <2>1, <3>1 DEF Histories!InputLoads, Histories!Ends
      <4> QED BY <1>1, <3>1, <4>1 DEF HistoriesUI, HistoriesShown
    <3>2. CASE ~r.live
      <4>1. ui' = [ui EXCEPT !.runs = runs]
        BY <2>1, <3>2 DEF Histories!InputLoads, Histories!Ends
      <4> QED BY <1>1, <3>2, <4>1 DEF HistoriesUI
    <3> QED BY <3>1, <3>2
  <2>2. CASE Histories!InputDoesNotLoad(r)
    <3>1. CASE r.live
      <4>1. ui' = [[ui EXCEPT !.loading = FALSE, !.error = TRUE] EXCEPT !.runs = runs]
        BY <2>2, <3>1 DEF Histories!InputDoesNotLoad, Histories!Ends
      <4> QED BY <1>1, <3>1, <4>1 DEF HistoriesUI
    <3>2. CASE ~r.live
      <4>1. ui' = [ui EXCEPT !.runs = runs]
        BY <2>2, <3>2 DEF Histories!InputDoesNotLoad, Histories!Ends
      <4> QED BY <1>1, <3>2, <4>1 DEF HistoriesUI
    <3> QED BY <3>1, <3>2
  <2> QED BY <2>1, <2>2
<1>3. ShownFollows'
  BY <1>1, <1>2 DEF HistoriesInv, ShownFollows
<1>4. calls' = Histories!Referred(calls, ui'.cache, ui'.runs)
  BY <1>1, <1>2
<1>5. /\ \A c \in calls : 1 <= c.n /\ c.n <= log'.loads
      /\ \A c, d \in calls : c.slice = d.slice /\ c.n = d.n => c = d
      /\ \A c \in calls : ui'.cache[c.slice] = c.n => c.st # "failed"
  BY <1>1, <1>2 DEF HistoriesInv, RequestsKnown
<1>6. /\ \A q \in ui'.runs : q.n <= log'.loads
      /\ \A q \in ui'.runs : \A s \in Histories!Needed(q.key) : \E c \in calls : c.slice = s /\ c.n = q.uses[s]
  BY <1>1, <1>2 DEF HistoriesInv, UsesKept
<1>7. \A q \in ui'.runs : \A c \in calls : Uses(q, c) =>
        q.asked - c.at < TTL /\ (c.st = "failed" => c.ended >= q.n)
  BY <1>1, <1>2 DEF HistoriesInv, UsesFresh
<1> QED BY <1>1, <1>2, <1>3, <1>4, <1>5, <1>6, <1>7, ReferredKeeps DEF HistoriesTyped

LEMMA HistoriesNextInv == HistoriesInv /\ [Histories!Next]_vars => HistoriesInv'
<1> SUFFICES ASSUME HistoriesInv, [Histories!Next]_vars PROVE HistoriesInv'
  OBVIOUS
<1>1. CASE Histories!Refresh \/ \E k \in Configuration : Histories!Show(k)
  BY <1>1, ShowStep, RefreshStep
<1>2. CASE Histories!MinutePasses
  <2>1. /\ HistoriesTyped /\ log.now + 1 \in Nat /\ UNCHANGED <<page, ui, calls>>
        /\ log' = [log EXCEPT !.now = log.now + 1]
    BY <1>2 DEF HistoriesInv, HistoriesTyped, Histories!MinutePasses
  <2>2. HistoriesTyped' /\ log'.loads = log.loads
    BY <2>1 DEF HistoriesTyped
  <2> QED BY <2>1, <2>2 DEF HistoriesInv, RequestsKnown, UsesKept, UsesFresh, ShownFollows
<1>3. CASE \E c \in calls : Histories!Answered(c) \/ Histories!Failed(c)
  BY <1>3, AnsweredStep, FailedStep
<1>4. CASE \E r \in ui.runs : Histories!InputLoads(r) \/ Histories!InputDoesNotLoad(r)
  BY <1>4, EndsStep
<1>5. CASE UNCHANGED vars
  BY <1>5 DEF vars, HistoriesInv, HistoriesTyped, RequestsKnown, UsesKept, UsesFresh, ShownFollows
<1> QED BY <1>1, <1>2, <1>3, <1>4, <1>5 DEF Histories!Next

\* The cache is transparent.
LEMMA HistoriesInvImplies == HistoriesInv => Histories!CacheTransparent
<1> SUFFICES ASSUME HistoriesInv
             PROVE  /\ \A r \in ui.runs : \A c \in Histories!Used(r) :
                         r.asked - c.at < TTL /\ (c.st = "failed" => c.ended >= r.n)
                    /\ \A r \in ui.runs : DOMAIN r.uses = {c.slice : c \in Histories!Used(r)}
                    /\ (ui.runs = {} /\ ~ui.error) => ui.shown = ui.key
  BY DEF Histories!CacheTransparent
<1>1. \A r \in ui.runs : \A c \in Histories!Used(r) : c \in calls /\ Uses(r, c)
  BY DEF Histories!Used, Uses
<1>2. ASSUME NEW r \in ui.runs
      PROVE  DOMAIN r.uses = {c.slice : c \in Histories!Used(r)}
  <2>1. DOMAIN r.uses = Histories!Needed(r.key)
    BY RunTyped DEF HistoriesInv
  <2>2. \A s \in Histories!Needed(r.key) : \E c \in Histories!Used(r) : c.slice = s
    BY DEF HistoriesInv, UsesKept, Histories!Used
  <2>3. \A c \in Histories!Used(r) : c.slice \in Histories!Needed(r.key)
    BY DEF Histories!Used
  <2> QED BY <2>1, <2>2, <2>3
<1> QED BY <1>1, <1>2 DEF HistoriesInv, UsesFresh, ShownFollows

-----------------------------------------------------------------------------
(* The lists that give a request up when another is made: the denials, the   *)
(* deployments and the matrix.  What they have in common is how a request is *)
(* made and given up (Loads); the invariant of each says that one load is    *)
(* waited for, for what the page is left on, and that what the screen shows, *)
(* what that load was answered and what the master holds follow each other   *)
(* in that order.                                                            *)

Made(c) ==
  c \in [kind : {c.kind}, q : {c.q}, live : BOOLEAN, st : {"sent", "ok", "failed"}, v : {c.v}]
Awaited(c) == c.kind = "load" /\ c.live

\* A request is made alive and not answered.
LEMMA RequestMade ==
  ASSUME NEW k, NEW q, NEW v, NEW r,
         r \in {Denials!Request(k, q, v), Deployments!Request(k, q, v), Matrix!Request(k, q, v)}
  PROVE  Made(r) /\ r.kind = k /\ r.q = q /\ r.live /\ r.st = "sent" /\ r.v = v
<1>1. r = [kind |-> k, q |-> q, live |-> TRUE, st |-> "sent", v |-> v]
  BY DEF Denials!Request, Deployments!Request, Matrix!Request
<1>2. r.kind = k /\ r.q = q /\ r.live /\ r.st = "sent" /\ r.v = v
  BY <1>1
<1>3. r \in [kind : {k}, q : {q}, live : BOOLEAN, st : {"sent", "ok", "failed"}, v : {v}]
  BY <1>1
<1> QED BY <1>2, <1>3 DEF Made

\* A load just asked for is waited for.
LEMMA AskMade ==
  ASSUME NEW q, NEW v, NEW r,
         r \in {Denials!Ask(q, v), Deployments!Ask(q, v), Matrix!Ask(q, v)}
  PROVE  Made(r) /\ Awaited(r) /\ r.kind = "load" /\ r.q = q /\ r.live /\ r.st = "sent" /\ r.v = v
<1>1. PICK k : k = "load"
  OBVIOUS
<1>2. r \in {Denials!Request(k, q, v), Deployments!Request(k, q, v), Matrix!Request(k, q, v)}
  BY <1>1 DEF Denials!Ask, Deployments!Ask, Matrix!Ask
<1>3. Made(r) /\ r.kind = k /\ r.q = q /\ r.live /\ r.st = "sent" /\ r.v = v
  BY <1>2, RequestMade
<1> QED BY <1>1, <1>3 DEF Awaited

\* Once the loads are given up, none is waited for.
LEMMA CancelledNone ==
  ASSUME NEW cs, \A c \in cs : Made(c),
         NEW d,
         d \in Denials!Cancelled(cs) \cup Deployments!Cancelled(cs) \cup Matrix!Cancelled(cs)
  PROVE  Made(d) /\ ~Awaited(d) /\ (d.kind # "load" => d \in cs)
<1>1. ASSUME NEW c \in cs, c.kind = "load"
      PROVE  /\ Made([c EXCEPT !.live = FALSE]) /\ ~Awaited([c EXCEPT !.live = FALSE])
             /\ [c EXCEPT !.live = FALSE].kind = "load"
  BY <1>1 DEF Made, Awaited
<1>2. PICK c \in cs : d = IF c.kind = "load" THEN [c EXCEPT !.live = FALSE] ELSE c
  BY DEF Denials!Cancelled, Deployments!Cancelled, Matrix!Cancelled
<1>3. CASE c.kind = "load"
  BY <1>2, <1>3, <1>1
<1>4. CASE c.kind # "load"
  BY <1>2, <1>4 DEF Awaited
<1> QED BY <1>3, <1>4

-----------------------------------------------------------------------------
(* The denials and quarantine lists.                                         *)

DenialsKinds == {"load", "act", "fix"}
DenialsUi(u) == u \in [filter : {u.filter}, offset : {u.offset}, quarantine : BOOLEAN,
                      typed : {u.typed}, rows : {u.rows}, total : {u.total}, loading : BOOLEAN,
                      last : {u.last}, error : BOOLEAN, busy : {u.busy},
                      suggesting : {u.suggesting}, suggested : {u.suggested}]

DenialsTyped ==
  /\ DenialsUi(ui) /\ server \in [v : Nat] /\ ui.rows.v \in Nat
  /\ \A c \in calls : Made(c) /\ c.kind \in DenialsKinds

\* One load is waited for, and it is for what the page is left on.
DenialsOneAwaited ==
  \A c \in calls : Awaited(c) => /\ \A d \in calls : Awaited(d) => c = d
                               /\ c.q = Denials!Query(ui)

\* The rows are no newer than the answer waited for, nor that than the master's.
DenialsOrdered ==
  /\ ui.rows.v <= server.v
  /\ \A c \in calls : Awaited(c) /\ c.st = "ok" =>
       c.v \in Nat /\ ui.rows.v <= c.v /\ c.v <= server.v

DenialsInv == page = "denials" /\ DenialsTyped /\ DenialsOneAwaited /\ DenialsOrdered

\* what a step keeps
DenialsOnward ==
  Denials!Query(ui') = Denials!Query(ui) /\ ui.rows.q = Denials!Query(ui)
    => ui'.rows.q = Denials!Query(ui) /\ ui'.rows.v >= ui.rows.v

LEMMA DenialsInitInv == Denials!Init => DenialsInv
<1> SUFFICES ASSUME Denials!Init PROVE DenialsInv
  OBVIOUS
<1>0. PICK f : /\ page = "denials" /\ server = [v |-> 0]
               /\ ui = [filter |-> <<f, 0, FALSE>>[1], offset |-> 0, quarantine |-> FALSE,
                        typed |-> Denials!None, rows |-> Denials!NoRows, total |-> 0,
                        loading |-> TRUE, last |-> <<f, 0, FALSE>>, error |-> FALSE,
                        busy |-> Denials!None, suggesting |-> Denials!None, suggested |-> {}]
               /\ calls = {Denials!Ask(<<f, 0, FALSE>>, 0)}
  BY Zenon DEF Denials!Init
<1>1. /\ page = "denials" /\ server = [v |-> 0]
      /\ ui = [filter |-> f, offset |-> 0, quarantine |-> FALSE, typed |-> Denials!None,
               rows |-> Denials!NoRows, total |-> 0, loading |-> TRUE, last |-> <<f, 0, FALSE>>,
               error |-> FALSE, busy |-> Denials!None, suggesting |-> Denials!None,
               suggested |-> {}]
      /\ calls = {Denials!Ask(<<f, 0, FALSE>>, 0)}
  BY <1>0
<1>2. DenialsUi(ui) /\ Denials!Query(ui) = <<f, 0, FALSE>> /\ ui.rows.v = 0
  <2>1. Denials!NoRows.v = 0
    BY Zenon DEF Denials!NoRows
  <2> QED BY <1>1, <2>1 DEF DenialsUi, Denials!Query
<1> DEFINE q == <<f, 0, FALSE>>
           a == Denials!Ask(q, 0)
<1>3. calls = {a} /\ Denials!Query(ui) = q /\ Made(a) /\ a.kind \in DenialsKinds /\ a.q = q
        /\ a.st = "sent"
  <2>1. calls = {a} /\ Denials!Query(ui) = q
    BY <1>1, <1>2
  <2> HIDE DEF q
  <2>2. Made(a) /\ a.kind = "load" /\ a.q = q /\ a.st = "sent"
    BY AskMade
  <2> QED BY <2>1, <2>2 DEF DenialsKinds
<1> HIDE DEF a, q
<1>7. server \in [v : Nat] /\ server.v = 0
  BY <1>1
<1>8. ui.rows.v \in Nat /\ ui.rows.v <= server.v
  BY <1>2, <1>7
<1>4. DenialsTyped
  BY <1>2, <1>3, <1>7, <1>8 DEF DenialsTyped
<1>5. DenialsOneAwaited
  BY <1>3 DEF DenialsOneAwaited
<1>6. DenialsOrdered
  BY <1>3, <1>8 DEF DenialsOrdered
<1> QED BY <1>1, <1>4, <1>5, <1>6 DEF DenialsInv

\* Only a load just asked for is waited for.
LEMMA DenialsAsks ==
  ASSUME DenialsInv, page' = "denials", server' = server, DenialsUi(ui'), ui'.rows = ui.rows,
         NEW cs, \A c \in cs : Made(c) /\ c.kind \in DenialsKinds,
         calls' = Denials!Cancelled(cs) \cup {Denials!Ask(Denials!Query(ui'), 0)}
  PROVE  DenialsInv' /\ DenialsOnward
<1> DEFINE q == Denials!Query(ui')
           a == Denials!Ask(q, 0)
<1>1. /\ Made(a) /\ a.kind = "load" /\ a.q = q /\ a.st = "sent"
      /\ calls' = Denials!Cancelled(cs) \cup {a}
  <2> HIDE DEF q
  <2>1. Made(a) /\ a.kind = "load" /\ a.q = q /\ a.st = "sent"
    BY AskMade
  <2> QED BY <2>1 DEF q
<1> HIDE DEF a
<1>2. \A d \in calls' : Made(d) /\ (Awaited(d) => d = a) /\ d.kind \in DenialsKinds
  <2>1. \A d \in Denials!Cancelled(cs) : Made(d) /\ ~Awaited(d) /\ (d.kind # "load" => d \in cs)
    BY CancelledNone
  <2> QED BY <1>1, <2>1 DEF DenialsKinds
<1>3. DenialsTyped'
  BY <1>2 DEF DenialsInv, DenialsTyped
<1> QED BY <1>1, <1>2, <1>3 DEF DenialsInv, DenialsTyped, DenialsOneAwaited, DenialsOrdered,
               DenialsOnward

\* None is added.
LEMMA DenialsKeeps ==
  ASSUME DenialsInv, page' = "denials", server' \in [v : Nat], server'.v >= server.v,
         DenialsUi(ui'), ui'.rows = ui.rows, Denials!Query(ui') = Denials!Query(ui),
         \A c \in calls' : Made(c) /\ c.kind \in DenialsKinds /\ (Awaited(c) => c \in calls)
  PROVE  DenialsInv' /\ DenialsOnward
<1>1. DenialsTyped' /\ server.v \in Nat /\ server'.v \in Nat
  BY DEF DenialsInv, DenialsTyped
<1>2. DenialsOneAwaited'
  BY DEF DenialsInv, DenialsOneAwaited
<1>3. DenialsOrdered'
  BY <1>1 DEF DenialsInv, DenialsTyped, DenialsOrdered
<1>4. DenialsOnward
  BY DEF DenialsInv, DenialsTyped, DenialsOnward
<1> QED BY <1>1, <1>2, <1>3, <1>4 DEF DenialsInv

\* One is answered, or not.
LEMMA DenialsReplaces ==
  ASSUME DenialsInv, NEW c \in calls, NEW e, Made(e), e.kind = c.kind, e.q = c.q,
         e.live = c.live,
         e.st = "failed" \/ (e.st = "ok" /\ e.v = server.v),
         calls' = (calls \ {c}) \cup {e}, UNCHANGED <<page, server, ui>>
  PROVE  DenialsInv' /\ DenialsOnward
<1>1. DenialsTyped'
  BY DEF DenialsInv, DenialsTyped
<1>2. Awaited(e) <=> Awaited(c)
  BY DEF Awaited
<1>3. DenialsOneAwaited'
  BY <1>2 DEF DenialsInv, DenialsOneAwaited
<1>4. DenialsOrdered'
  BY DEF DenialsInv, DenialsTyped, DenialsOrdered
<1>5. DenialsOnward
  BY DEF DenialsInv, DenialsTyped, DenialsOnward
<1> QED BY <1>1, <1>3, <1>4, <1>5 DEF DenialsInv

LEMMA DenialsEffectStep ==
  ASSUME DenialsInv, NEW u, DenialsUi(u), u.rows = ui.rows, Denials!Effect(u),
         UNCHANGED <<page, server>>
  PROVE  DenialsInv' /\ DenialsOnward
<1> DEFINE l == (u.loading \/ u.last # Denials!Query(u))
<1>1. l \in BOOLEAN
  BY DEF DenialsUi
<1>2. ui' = [u EXCEPT !.loading = l, !.last = Denials!Query(u)]
  BY DEF Denials!Effect, DenialsUi
<1> HIDE DEF l
<1>3. DenialsUi(ui') /\ ui'.rows = ui.rows /\ Denials!Query(ui') = Denials!Query(u)
  BY <1>1, <1>2 DEF DenialsUi, Denials!Query
<1>4. calls' = Denials!Cancelled(calls) \cup {Denials!Ask(Denials!Query(ui'), 0)}
  BY <1>3 DEF Denials!Effect
<1>5. page' = "denials" /\ server' = server
        /\ \A c \in calls : Made(c) /\ c.kind \in DenialsKinds
  BY DEF DenialsInv, DenialsTyped
<1> QED BY <1>3, <1>4, <1>5, DenialsAsks

LEMMA DenialsSetFilterStep ==
  ASSUME DenialsInv, NEW u, DenialsUi(u), u.rows = ui.rows, Denials!SetFilter(u),
         UNCHANGED <<page, server>>
  PROVE  DenialsInv' /\ DenialsOnward
<1>1. CASE u.offset = 0
  BY <1>1, DenialsEffectStep DEF Denials!SetFilter
<1>2. CASE u.offset # 0
  <2> DEFINE first == Denials!Query([u EXCEPT !.offset = 0])
             cs == calls \cup {Denials!Ask(Denials!Query(u), 0)}
  <2>1. /\ ui' = [u EXCEPT !.offset = 0, !.loading = TRUE, !.last = first]
        /\ calls' = Denials!Cancelled(cs) \cup {Denials!Ask(first, 0)}
    BY <1>2 DEF Denials!SetFilter
  <2>2. first = <<u.filter, 0, u.quarantine>>
    BY DEF DenialsUi, Denials!Query
  <2> HIDE DEF first
  <2>3. DenialsUi(ui') /\ ui'.rows = ui.rows /\ Denials!Query(ui') = first
    BY <2>1, <2>2 DEF DenialsUi, Denials!Query
  <2>4. \A c \in cs : Made(c) /\ c.kind \in DenialsKinds
    <3> DEFINE q == Denials!Query(u)
               a == Denials!Ask(q, 0)
    <3> HIDE DEF q
    <3>1. Made(a) /\ a.kind = "load"
      BY AskMade
    <3> HIDE DEF a
    <3>2. cs = calls \cup {a}
      BY DEF a, q
    <3> QED BY <3>1, <3>2 DEF DenialsInv, DenialsTyped, DenialsKinds
  <2> QED BY <2>1, <2>3, <2>4, DenialsAsks DEF DenialsInv
<1> QED BY <1>1, <1>2

LEMMA DenialsMovesStep ==
  ASSUME DenialsInv, \/ \E f \in Filters : Denials!FilterAgent(f) \/ Denials!Type(f)
                     \/ Denials!Refresh \/ Denials!SearchTimer \/ Denials!Turn
                        \/ Denials!SwitchRoute
  PROVE  DenialsInv' /\ DenialsOnward
<1>1. DenialsUi(ui) /\ page = "denials" /\ \A c \in calls : Made(c) /\ c.kind \in DenialsKinds
  BY DEF DenialsInv, DenialsTyped
<1>2. ASSUME NEW f \in Filters, Denials!FilterAgent(f) PROVE DenialsInv' /\ DenialsOnward
  <2> DEFINE u == [ui EXCEPT !.filter = f]
  <2>1. DenialsUi(u) /\ u.rows = ui.rows
    BY <1>1 DEF DenialsUi
  <2> QED BY <1>2, <2>1, DenialsSetFilterStep DEF Denials!FilterAgent
<1>3. ASSUME NEW f \in Filters, Denials!Type(f) PROVE DenialsInv' /\ DenialsOnward
  <2>1. /\ DenialsUi(ui') /\ ui'.rows = ui.rows /\ Denials!Query(ui') = Denials!Query(ui)
        /\ UNCHANGED <<page, server, calls>>
    BY <1>1, <1>3 DEF DenialsUi, Denials!Query, Denials!Type
  <2>2. server' \in [v : Nat] /\ server'.v >= server.v
    BY <2>1 DEF DenialsInv, DenialsTyped
  <2> QED BY <1>1, <2>1, <2>2, DenialsKeeps
<1>4. ASSUME Denials!Refresh PROVE DenialsInv' /\ DenialsOnward
  BY <1>1, <1>4, DenialsEffectStep DEF Denials!Refresh
<1>5. ASSUME Denials!SearchTimer PROVE DenialsInv' /\ DenialsOnward
  <2>1. CASE ui.typed = ui.filter
    <3>1. /\ DenialsUi(ui') /\ ui'.rows = ui.rows /\ Denials!Query(ui') = Denials!Query(ui)
          /\ UNCHANGED <<page, server, calls>>
      BY <1>1, <1>5, <2>1 DEF DenialsUi, Denials!Query, Denials!SearchTimer
    <3>2. server' \in [v : Nat] /\ server'.v >= server.v
      BY <3>1 DEF DenialsInv, DenialsTyped
    <3> QED BY <1>1, <3>1, <3>2, DenialsKeeps
  <2>2. CASE ui.typed # ui.filter
    <3> DEFINE u == [ui EXCEPT !.filter = ui.typed, !.typed = Denials!None]
    <3>1. DenialsUi(u) /\ u.rows = ui.rows
      BY <1>1 DEF DenialsUi
    <3> QED BY <1>5, <2>2, <3>1, DenialsSetFilterStep DEF Denials!SearchTimer
  <2> QED BY <2>1, <2>2
<1>6. ASSUME Denials!Turn PROVE DenialsInv' /\ DenialsOnward
  <2>1. PICK o : Denials!Effect([ui EXCEPT !.offset = o]) /\ UNCHANGED <<page, server>>
    <3>1. CASE Denials!Effect([ui EXCEPT !.offset = @ - 1])
      BY <1>1, <1>6, <3>1 DEF Denials!Turn, DenialsUi
    <3>2. CASE Denials!Effect([ui EXCEPT !.offset = @ + 1])
      BY <1>1, <1>6, <3>2 DEF Denials!Turn, DenialsUi
    <3> QED BY <1>6, <3>1, <3>2 DEF Denials!Turn
  <2> DEFINE u == [ui EXCEPT !.offset = o]
  <2>2. DenialsUi(u) /\ u.rows = ui.rows
    BY <1>1 DEF DenialsUi
  <2> QED BY <2>1, <2>2, DenialsEffectStep
<1>7. ASSUME Denials!SwitchRoute PROVE DenialsInv' /\ DenialsOnward
  <2> DEFINE u == [ui EXCEPT !.quarantine = ~ui.quarantine]
  <2>1. DenialsUi(u) /\ u.rows = ui.rows
    BY <1>1 DEF DenialsUi
  <2>2. Denials!Effect(u) /\ UNCHANGED <<page, server>>
    BY <1>1, <1>7 DEF Denials!SwitchRoute, DenialsUi
  <2> QED BY <2>1, <2>2, DenialsEffectStep
<1> QED BY <1>2, <1>3, <1>4, <1>5, <1>6, <1>7

LEMMA DenialsLoadedStep ==
  ASSUME DenialsInv, NEW c \in calls, Denials!Loaded(c) \/ Denials!NotLoaded(c)
  PROVE  DenialsInv' /\ DenialsOnward
<1>1. /\ DenialsUi(ui) /\ c.kind = "load" /\ Made(c) /\ calls' = calls \ {c}
         /\ UNCHANGED <<page, server>>
      /\ server \in [v : Nat] /\ \A d \in calls : Made(d) /\ d.kind \in DenialsKinds
  BY DEF DenialsInv, DenialsTyped, Denials!Loaded, Denials!NotLoaded, Denials!Loading,
         DenialsKinds
<1>2. CASE Denials!Loaded(c) /\ c.live
  <2>1. ui' = [ui EXCEPT !.rows = Denials!Rows(c), !.total = Denials!Pages(c.q),
                          !.error = FALSE, !.loading = FALSE]
    BY <1>2 DEF Denials!Loaded
  <2>2. DenialsUi(ui') /\ ui'.rows = Denials!Rows(c) /\ Denials!Query(ui') = Denials!Query(ui)
    BY <1>1, <2>1 DEF DenialsUi, Denials!Query
  <2>3. Denials!Rows(c).q = c.q /\ Denials!Rows(c).v = c.v /\ Awaited(c) /\ c.st = "ok"
    BY <1>1, <1>2 DEF Denials!Rows, Awaited, Denials!Loaded
  <2>4. c.v \in Nat /\ ui.rows.v <= c.v /\ c.v <= server.v /\ c.q = Denials!Query(ui)
    BY <2>3 DEF DenialsInv, DenialsOrdered, DenialsOneAwaited
  <2>5. \A d \in calls' : ~Awaited(d)
    BY <1>1, <2>3 DEF DenialsInv, DenialsOneAwaited
  <2>6. DenialsTyped' /\ DenialsOneAwaited' /\ DenialsOrdered'
    BY <1>1, <2>2, <2>3, <2>4, <2>5 DEF DenialsTyped, DenialsOneAwaited, DenialsOrdered
  <2> QED BY <1>1, <2>2, <2>3, <2>4, <2>6 DEF DenialsInv, DenialsOnward
<1>3. CASE ~(Denials!Loaded(c) /\ c.live)
  <2>1. DenialsUi(ui') /\ ui'.rows = ui.rows /\ Denials!Query(ui') = Denials!Query(ui)
    <3>1. ui' = ui \/ ui' = [ui EXCEPT !.error = TRUE, !.loading = FALSE]
      BY <1>3, Zenon DEF Denials!Loaded, Denials!NotLoaded
    <3>2. CASE ui' = ui
      BY <1>1, <3>2 DEF Denials!Query
    <3>3. CASE ui' = [ui EXCEPT !.error = TRUE, !.loading = FALSE]
      BY <1>1, <3>3 DEF DenialsUi, Denials!Query
    <3> QED BY <3>1, <3>2, <3>3
  <2>2. server' \in [v : Nat] /\ server'.v >= server.v
    BY <1>1
  <2> QED BY <1>1, <2>1, <2>2, DenialsKeeps DEF DenialsInv
<1> QED BY <1>2, <1>3

\* A suggestion asked for is answered: what is shown stays.
LEMMA DenialsFixAnsweredStep ==
  ASSUME DenialsUi(ui), NEW c \in calls, Denials!FixAnswered(c)
  PROVE  /\ DenialsUi(ui') /\ ui'.rows = ui.rows /\ Denials!Query(ui') = Denials!Query(ui)
         /\ UNCHANGED <<page, server>> /\ calls' \subseteq calls
<1> DEFINE g == ui.suggested \cup {c.q[1]}
<1>1. /\ c.st = "ok" => ui' = [ui EXCEPT !.suggesting = Denials!None, !.suggested = g, !.error = FALSE]
      /\ c.st # "ok" => ui' = [ui EXCEPT !.suggesting = Denials!None, !.error = TRUE]
      /\ calls' = calls \ {c} /\ UNCHANGED <<page, server>>
  BY Zenon DEF Denials!FixAnswered
<1> HIDE DEF g
<1>2. CASE c.st = "ok"
  BY <1>1, <1>2 DEF DenialsUi, Denials!Query
<1>3. CASE c.st # "ok"
  BY <1>1, <1>3 DEF DenialsUi, Denials!Query
<1> QED BY <1>2, <1>3

\* The requests that act are not loads.
LEMMA DenialsActSteps ==
  ASSUME DenialsInv, \/ \E c \in calls : Denials!Apply(c) \/ Denials!FixAnswered(c)
                     \/ \E g \in Groups : Denials!Act(g) \/ Denials!RequestFix(g)
  PROVE  DenialsInv' /\ DenialsOnward
<1>1. /\ DenialsUi(ui) /\ page = "denials" /\ server \in [v : Nat]
      /\ \A d \in calls : Made(d) /\ d.kind \in DenialsKinds
  BY DEF DenialsInv, DenialsTyped
<1>2. ASSUME NEW c \in calls, Denials!Apply(c) PROVE DenialsInv' /\ DenialsOnward
  <2> DEFINE e == [c EXCEPT !.st = "ok"]
             n == IF server.v < MaxChanges THEN server.v + 1 ELSE server.v
  <2>1. /\ calls' = (calls \ {c}) \cup {e} /\ UNCHANGED <<page, ui>> /\ c.kind # "load"
        /\ server' = [server EXCEPT !.v = n]
    BY <1>1, <1>2 DEF Denials!Apply, Denials!Loading
  <2>2. Made(e) /\ e.kind = c.kind
    BY <1>1 DEF Made, DenialsKinds
  <2>3. n \in Nat /\ n >= server.v
    BY <1>1
  <2> HIDE DEF e, n
  <2>4. server' \in [v : Nat] /\ server'.v >= server.v
    BY <1>1, <2>1, <2>3
  <2>5. \A d \in calls' : Made(d) /\ d.kind \in DenialsKinds /\ (Awaited(d) => d \in calls)
    BY <1>1, <2>1, <2>2 DEF Awaited
  <2> QED BY <1>1, <2>1, <2>4, <2>5, DenialsKeeps
<1>3. ASSUME UNCHANGED <<page, server>>, DenialsUi(ui'), ui'.rows = ui.rows,
             Denials!Query(ui') = Denials!Query(ui),
             \A d \in calls' : d \in calls \/ (Made(d) /\ d.kind \in {"act", "fix"})
      PROVE  DenialsInv' /\ DenialsOnward
  <2>1. server' \in [v : Nat] /\ server'.v >= server.v
    BY <1>1, <1>3
  <2>2. \A d \in calls' : Made(d) /\ d.kind \in DenialsKinds /\ (Awaited(d) => d \in calls)
    BY <1>1, <1>3 DEF DenialsKinds, Awaited
  <2> QED BY <1>1, <1>3, <2>1, <2>2, DenialsKeeps
<1>4. ASSUME NEW c \in calls, Denials!FixAnswered(c) PROVE DenialsInv' /\ DenialsOnward
  BY <1>1, <1>3, <1>4, DenialsFixAnsweredStep
<1>5. ASSUME NEW g \in Groups, Denials!Act(g) \/ Denials!RequestFix(g)
      PROVE DenialsInv' /\ DenialsOnward
  <2>1. DenialsUi(ui') /\ ui'.rows = ui.rows /\ Denials!Query(ui') = Denials!Query(ui)
    BY <1>1, <1>5 DEF Denials!Act, Denials!RequestFix, DenialsUi, Denials!Query
  <2>2. \A k, q, r : r = Denials!Request(k, q, 0) => Made(r) /\ r.kind = k
    BY RequestMade
  <2>3. UNCHANGED <<page, server>>
    BY <1>5 DEF Denials!Act, Denials!RequestFix
  <2>4. \A d \in calls' : d \in calls \/ \E q : d \in {Denials!Request("act", q, 0),
          Denials!Request("fix", q, 0)}
    <3>1. CASE Denials!Act(g)
      <4>1. calls' = calls \cup {Denials!Request("act", <<g, o, TRUE>>, 0) : o \in Occurrences}
        BY <3>1 DEF Denials!Act
      <4> QED BY <4>1
    <3>2. CASE Denials!RequestFix(g)
      <4>1. calls' = calls \cup {Denials!Request("fix", <<g, 0, TRUE>>, 0)}
        BY <3>2 DEF Denials!RequestFix
      <4> QED BY <4>1
    <3> QED BY <1>5, <3>1, <3>2
  <2>5. \A d \in calls' : d \in calls \/ (Made(d) /\ d.kind \in {"act", "fix"})
    BY <2>2, <2>4
  <2> QED BY <1>3, <2>1, <2>3, <2>5
<1> QED BY <1>2, <1>4, <1>5

LEMMA DenialsActedStep ==
  ASSUME DenialsInv, NEW c \in calls, Denials!Acted(c)
  PROVE  DenialsInv' /\ DenialsOnward
<1>1. /\ DenialsUi(ui) /\ page = "denials" /\ page' = page /\ server' = server
         /\ server \in [v : Nat]
      /\ \A d \in calls : Made(d) /\ d.kind \in DenialsKinds
  BY DEF DenialsInv, DenialsTyped, Denials!Acted
<1>2. server' \in [v : Nat] /\ server'.v >= server.v
  BY <1>1
<1>3. CASE calls' = calls \ {c} /\ UNCHANGED ui
  BY <1>1, <1>2, <1>3, DenialsKeeps
<1>4. CASE /\ calls' = (calls \ Denials!Together(c))
              \cup {[d EXCEPT !.live = FALSE] : d \in Denials!Together(c) \ {c}}
           /\ ui' = [ui EXCEPT !.busy = Denials!None, !.error = TRUE]
  <2>1. DenialsUi(ui') /\ ui'.rows = ui.rows /\ Denials!Query(ui') = Denials!Query(ui)
    BY <1>1, <1>4 DEF DenialsUi, Denials!Query
  <2>2. ASSUME NEW d \in Denials!Together(c)
        PROVE  Made([d EXCEPT !.live = FALSE]) /\ [d EXCEPT !.live = FALSE].kind = "act"
    <3>1. d \in calls /\ d.kind = "act" /\ Made(d)
      BY <1>1 DEF Denials!Together
    <3> QED BY <3>1 DEF Made
  <2>3. \A d \in calls' : Made(d) /\ d.kind \in DenialsKinds /\ (Awaited(d) => d \in calls)
    <3> SUFFICES ASSUME NEW d \in Denials!Together(c)
                 PROVE  /\ Made([d EXCEPT !.live = FALSE])
                           /\ [d EXCEPT !.live = FALSE].kind \in DenialsKinds
                        /\ ~Awaited([d EXCEPT !.live = FALSE])
      BY <1>1, <1>4
    <3> QED BY <2>2 DEF DenialsKinds, Awaited
  <2> QED BY <1>1, <1>2, <2>1, <2>3, DenialsKeeps
<1>5. CASE /\ calls' = Denials!Cancelled(calls \ {c}) \cup {Denials!Ask(Denials!Query(ui), 0)}
           /\ ui' = [ui EXCEPT !.busy = Denials!None, !.error = FALSE]
  <2>1. DenialsUi(ui') /\ ui'.rows = ui.rows /\ Denials!Query(ui') = Denials!Query(ui)
    BY <1>1, <1>5 DEF DenialsUi, Denials!Query
  <2> DEFINE cs == calls \ {c}
  <2>2. \A d \in cs : Made(d) /\ d.kind \in DenialsKinds
    BY <1>1
  <2>3. calls' = Denials!Cancelled(cs) \cup {Denials!Ask(Denials!Query(ui'), 0)}
    BY <1>5, <2>1
  <2> QED BY <1>1, <2>1, <2>2, <2>3, DenialsAsks
<1> QED BY <1>3, <1>4, <1>5 DEF Denials!Acted

LEMMA DenialsNextInv == ASSUME DenialsInv, [Denials!Next]_vars PROVE DenialsInv' /\ DenialsOnward
<1>1. /\ DenialsUi(ui) /\ page = "denials" /\ server \in [v : Nat] /\ ui.rows.v \in Nat
      /\ \A d \in calls : Made(d) /\ d.kind \in DenialsKinds
  BY DEF DenialsInv, DenialsTyped
<1>2. ASSUME NEW c \in calls, Denials!Answer("denials", c) \/ Denials!Fail("denials", c)
      PROVE DenialsInv' /\ DenialsOnward
  <2>1. CASE Denials!Answer("denials", c)
    <3> DEFINE e == [c EXCEPT !.st = "ok", !.v = server.v]
    <3>1. calls' = (calls \ {c}) \cup {e} /\ UNCHANGED <<page, server, ui>>
      BY <2>1 DEF Denials!Answer
    <3>2. Made(e) /\ e.kind = c.kind /\ e.q = c.q /\ e.live = c.live /\ e.st = "ok"
            /\ e.v = server.v
      BY <1>1 DEF Made
    <3> HIDE DEF e
    <3> QED BY <3>1, <3>2, DenialsReplaces
  <2>2. CASE Denials!Fail("denials", c)
    <3> DEFINE e == [c EXCEPT !.st = "failed"]
    <3>1. calls' = (calls \ {c}) \cup {e} /\ UNCHANGED <<page, server, ui>>
      BY <2>2 DEF Denials!Fail
    <3>2. Made(e) /\ e.kind = c.kind /\ e.q = c.q /\ e.live = c.live /\ e.st = "failed"
      BY <1>1 DEF Made
    <3> HIDE DEF e
    <3> QED BY <3>1, <3>2, DenialsReplaces
  <2> QED BY <1>2, <2>1, <2>2
<1>3. ASSUME Denials!Change("denials") PROVE DenialsInv' /\ DenialsOnward
  <2>1. server.v + 1 \in Nat /\ UNCHANGED <<page, ui, calls>>
          /\ server' = [server EXCEPT !.v = server.v + 1]
    BY <1>1, <1>3 DEF Denials!Change
  <2>2. server' \in [v : Nat] /\ server'.v >= server.v
    BY <1>1, <2>1
  <2> QED BY <1>1, <2>1, <2>2, DenialsKeeps
<1>4. ASSUME UNCHANGED vars PROVE DenialsInv' /\ DenialsOnward
  <2>1. UNCHANGED <<page, server, ui, calls>>
    BY <1>4 DEF vars
  <2>2. server' \in [v : Nat] /\ server'.v >= server.v
    BY <1>1, <2>1
  <2> QED BY <1>1, <2>1, <2>2, DenialsKeeps
<1> QED BY <1>2, <1>3, <1>4, DenialsMovesStep, DenialsLoadedStep, DenialsActSteps,
           DenialsActedStep DEF Denials!Next

-----------------------------------------------------------------------------
(* The deployments list.                                                     *)

DeploymentsKinds == {"load", "undo"}
UndoStates == {"listed", "pending", "gone"}
DeploymentsUi(u) == u \in [filter : {u.filter}, offset : {u.offset}, q : {u.q}, rows : {u.rows},
                          loaded : BOOLEAN, loading : BOOLEAN, error : BOOLEAN, busy : {u.busy}]

DeploymentsTyped ==
  /\ DeploymentsUi(ui) /\ server \in [v : [Deployments!Command -> UndoStates]]
  /\ \A c \in calls : Made(c) /\ c.kind \in DeploymentsKinds

\* One load is waited for, and it is for what the page is left on.
DeploymentsOneAwaited ==
  \A c \in calls : Awaited(c) => /\ \A d \in calls : Awaited(d) => c = d
                               /\ c.q = Deployments!Query(ui)

\* What is gone for the first is gone for the second.
GoneIn(v, w) == \A x \in Deployments!Command : v[x] = "gone" => w[x] = "gone"

DeploymentsOrdered ==
  /\ GoneIn(ui.rows, server.v)
  /\ \A c \in calls : Awaited(c) /\ c.st = "ok" => GoneIn(ui.rows, c.v) /\ GoneIn(c.v, server.v)

DeploymentsInv ==
  page = "deployments" /\ DeploymentsTyped /\ DeploymentsOneAwaited /\ DeploymentsOrdered

\* what a step keeps
DeploymentsOnward ==
  ui.loaded /\ Deployments!Query(ui') = Deployments!Query(ui) /\ ui.q = Deployments!Query(ui)
    => ui'.q = ui.q /\ GoneIn(ui.rows, ui'.rows)

LEMMA DeploymentsInitInv == Deployments!Init => DeploymentsInv
<1> SUFFICES ASSUME Deployments!Init PROVE DeploymentsInv
  OBVIOUS
<1>0. PICK f : /\ page = "deployments" /\ server = [v |-> Deployments!NothingUndone]
               /\ ui = [filter |-> f, offset |-> 0, q |-> <<f, 0>>,
                        rows |-> Deployments!NothingUndone, loaded |-> FALSE, loading |-> TRUE,
                        error |-> FALSE, busy |-> {}]
               /\ calls = {Deployments!Ask(<<f, 0>>, Deployments!NothingUndone)}
  BY Zenon DEF Deployments!Init
<1> DEFINE q == <<f, 0>>
           a == Deployments!Ask(q, Deployments!NothingUndone)
<1>1. /\ page = "deployments" /\ server = [v |-> Deployments!NothingUndone]
      /\ ui = [filter |-> f, offset |-> 0, q |-> q, rows |-> Deployments!NothingUndone,
               loaded |-> FALSE, loading |-> TRUE, error |-> FALSE, busy |-> {}]
      /\ calls = {a}
  BY <1>0
<1>2. DeploymentsUi(ui) /\ Deployments!Query(ui) = q /\ ui.rows = Deployments!NothingUndone
  BY <1>1 DEF DeploymentsUi, Deployments!Query
<1> HIDE DEF q
<1>3. Made(a) /\ a.kind = "load" /\ a.q = q /\ a.st = "sent"
  BY AskMade
<1> HIDE DEF a
<1>4. Deployments!NothingUndone \in [Deployments!Command -> UndoStates]
        /\ server \in [v : [Deployments!Command -> UndoStates]]
      /\ server.v = Deployments!NothingUndone
  BY <1>1 DEF Deployments!NothingUndone, UndoStates
<1>5. DeploymentsTyped
  BY <1>1, <1>2, <1>3, <1>4 DEF DeploymentsTyped, DeploymentsKinds
<1>6. DeploymentsOneAwaited
  BY <1>1, <1>2, <1>3 DEF DeploymentsOneAwaited
<1>7. DeploymentsOrdered
  BY <1>1, <1>2, <1>3, <1>4 DEF DeploymentsOrdered, GoneIn
<1> QED BY <1>1, <1>5, <1>6, <1>7 DEF DeploymentsInv

\* Only a load just asked for is waited for.
LEMMA DeploymentsAsks ==
  ASSUME DeploymentsInv, page' = "deployments", server' = server, DeploymentsUi(ui'),
         ui'.rows = ui.rows, ui'.q = ui.q,
         NEW cs, \A c \in cs : Made(c) /\ c.kind \in DeploymentsKinds,
         calls' = Deployments!Cancelled(cs)
           \cup {Deployments!Ask(Deployments!Query(ui'), Deployments!NothingUndone)}
  PROVE  DeploymentsInv' /\ DeploymentsOnward
<1> DEFINE q == Deployments!Query(ui')
           a == Deployments!Ask(q, Deployments!NothingUndone)
<1>1. /\ Made(a) /\ a.kind = "load" /\ a.q = q /\ a.st = "sent"
      /\ calls' = Deployments!Cancelled(cs) \cup {a}
  <2> HIDE DEF q
  <2>1. Made(a) /\ a.kind = "load" /\ a.q = q /\ a.st = "sent"
    BY AskMade
  <2> QED BY <2>1 DEF q
<1> HIDE DEF a
<1>2. \A d \in calls' : Made(d) /\ (Awaited(d) => d = a) /\ d.kind \in DeploymentsKinds
  <2>1. \A d \in Deployments!Cancelled(cs) : Made(d) /\ ~Awaited(d)
          /\ (d.kind # "load" => d \in cs)
    BY CancelledNone
  <2> QED BY <1>1, <2>1 DEF DeploymentsKinds
<1>3. DeploymentsTyped'
  BY <1>2 DEF DeploymentsInv, DeploymentsTyped
<1>4. DeploymentsOneAwaited'
  BY <1>1, <1>2 DEF DeploymentsOneAwaited
<1>5. DeploymentsOrdered'
  BY <1>1, <1>2 DEF DeploymentsInv, DeploymentsOrdered
<1>6. DeploymentsOnward
  BY DEF DeploymentsOnward, GoneIn
<1> QED BY <1>3, <1>4, <1>5, <1>6 DEF DeploymentsInv

\* None is added; what the master holds goes on.
LEMMA DeploymentsKeeps ==
  ASSUME DeploymentsInv, page' = "deployments",
         server' \in [v : [Deployments!Command -> UndoStates]], GoneIn(server.v, server'.v),
         DeploymentsUi(ui'), ui'.rows = ui.rows, ui'.q = ui.q,
           Deployments!Query(ui') = Deployments!Query(ui),
         \A c \in calls' : Made(c) /\ c.kind \in DeploymentsKinds /\ (Awaited(c) => c \in calls)
  PROVE  DeploymentsInv' /\ DeploymentsOnward
<1>1. DeploymentsTyped'
  BY DEF DeploymentsInv, DeploymentsTyped
<1>2. DeploymentsOneAwaited'
  BY DEF DeploymentsInv, DeploymentsOneAwaited
<1>3. DeploymentsOrdered'
  BY DEF DeploymentsInv, DeploymentsOrdered, GoneIn
<1>4. DeploymentsOnward
  BY DEF DeploymentsOnward, GoneIn
<1> QED BY <1>1, <1>2, <1>3, <1>4 DEF DeploymentsInv

\* One is answered, or not.
LEMMA DeploymentsReplaces ==
  ASSUME DeploymentsInv, NEW c \in calls, NEW e, Made(e), e.kind = c.kind, e.q = c.q,
         e.live = c.live,
         e.st = "failed" \/ (e.st = "ok" /\ e.v = server.v),
         calls' = (calls \ {c}) \cup {e}, UNCHANGED <<page, server, ui>>
  PROVE  DeploymentsInv' /\ DeploymentsOnward
<1>1. DeploymentsTyped'
  BY DEF DeploymentsInv, DeploymentsTyped
<1>2. Awaited(e) <=> Awaited(c)
  BY DEF Awaited
<1>3. DeploymentsOneAwaited'
  BY <1>2 DEF DeploymentsInv, DeploymentsOneAwaited
<1>4. DeploymentsOrdered'
  BY DEF DeploymentsInv, DeploymentsOrdered, GoneIn
<1>5. DeploymentsOnward
  BY DEF DeploymentsOnward, GoneIn
<1> QED BY <1>1, <1>3, <1>4, <1>5 DEF DeploymentsInv

LEMMA DeploymentsEffectStep ==
  ASSUME DeploymentsInv, NEW u, DeploymentsUi(u), u.rows = ui.rows, u.q = ui.q,
         Deployments!Effect(u), UNCHANGED <<page, server>>
  PROVE  DeploymentsInv' /\ DeploymentsOnward
<1>1. ui' = [u EXCEPT !.loading = TRUE]
  BY DEF Deployments!Effect
<1>2. DeploymentsUi(ui') /\ ui'.rows = ui.rows /\ ui'.q = ui.q
        /\ Deployments!Query(ui') = Deployments!Query(u)
  BY <1>1 DEF DeploymentsUi, Deployments!Query
<1>3. calls' = Deployments!Cancelled(calls)
        \cup {Deployments!Ask(Deployments!Query(ui'), Deployments!NothingUndone)}
  BY <1>2 DEF Deployments!Effect
<1>4. page' = "deployments" /\ server' = server
        /\ \A c \in calls : Made(c) /\ c.kind \in DeploymentsKinds
  BY DEF DeploymentsInv, DeploymentsTyped
<1> QED BY <1>2, <1>3, <1>4, DeploymentsAsks

LEMMA DeploymentsSetFilterStep ==
  ASSUME DeploymentsInv, NEW f \in Filters, Deployments!SetFilter(f)
  PROVE  DeploymentsInv' /\ DeploymentsOnward
<1>1. /\ DeploymentsUi(ui) /\ page = "deployments"
      /\ \A c \in calls : Made(c) /\ c.kind \in DeploymentsKinds
  BY DEF DeploymentsInv, DeploymentsTyped
<1>2. CASE ui.offset = 0
  <2> DEFINE u == [ui EXCEPT !.filter = f]
  <2>1. DeploymentsUi(u) /\ u.rows = ui.rows /\ u.q = ui.q
    BY <1>1 DEF DeploymentsUi
  <2>2. Deployments!Effect(u) /\ UNCHANGED <<page, server>>
    BY <1>2 DEF Deployments!SetFilter
  <2> QED BY <2>1, <2>2, DeploymentsEffectStep
<1>3. CASE ui.offset # 0
  <2> DEFINE q == <<f, ui.offset>>
             a == Deployments!Ask(q, Deployments!NothingUndone)
             cs == calls \cup {a}
             n == {Deployments!Ask(<<f, 0>>, Deployments!NothingUndone)}
  <2>1. /\ ui' = [ui EXCEPT !.filter = f, !.offset = 0, !.loading = TRUE]
        /\ calls' = Deployments!Cancelled(cs) \cup n
        /\ UNCHANGED <<page, server>>
    BY Zenon, <1>3 DEF Deployments!SetFilter
  <2>2. DeploymentsUi(ui') /\ ui'.rows = ui.rows /\ ui'.q = ui.q
        /\ Deployments!Query(ui') = <<f, 0>>
    BY <1>1, <2>1 DEF DeploymentsUi, Deployments!Query
  <2>3. Made(a) /\ a.kind = "load"
    <3> HIDE DEF q
    <3> QED BY AskMade
  <2> HIDE DEF a
  <2>4. \A c \in cs : Made(c) /\ c.kind \in DeploymentsKinds
    BY <1>1, <2>3 DEF DeploymentsKinds
  <2>5. calls' = Deployments!Cancelled(cs)
                   \cup {Deployments!Ask(Deployments!Query(ui'), Deployments!NothingUndone)}
    BY <2>1, <2>2
  <2> HIDE DEF cs
  <2> QED BY <1>1, <2>1, <2>2, <2>4, <2>5, DeploymentsAsks
<1> QED BY <1>2, <1>3

LEMMA DeploymentsMovesStep ==
  ASSUME DeploymentsInv, (\E f \in Filters : Deployments!SetFilter(f))
         \/ Deployments!RevertTick \/ Deployments!Turn
  PROVE  DeploymentsInv' /\ DeploymentsOnward
<1>1. DeploymentsUi(ui) /\ page = "deployments"
        /\ \A c \in calls : Made(c) /\ c.kind \in DeploymentsKinds
  BY DEF DeploymentsInv, DeploymentsTyped
<1>2. ASSUME NEW f \in Filters, Deployments!SetFilter(f)
      PROVE  DeploymentsInv' /\ DeploymentsOnward
  BY <1>2, DeploymentsSetFilterStep
<1>3. ASSUME Deployments!RevertTick PROVE DeploymentsInv' /\ DeploymentsOnward
  BY <1>1, <1>3, DeploymentsEffectStep DEF Deployments!RevertTick
<1>4. ASSUME Deployments!Turn PROVE DeploymentsInv' /\ DeploymentsOnward
  <2> DEFINE u == [ui EXCEPT !.offset = 1 - ui.offset]
  <2>1. DeploymentsUi(u) /\ u.rows = ui.rows /\ u.q = ui.q
    BY <1>1 DEF DeploymentsUi
  <2>2. Deployments!Effect(u) /\ UNCHANGED <<page, server>>
    BY <1>1, <1>4 DEF Deployments!Turn, DeploymentsUi
  <2> QED BY <2>1, <2>2, DeploymentsEffectStep
<1> QED BY <1>2, <1>3, <1>4

LEMMA DeploymentsLoadedStep ==
  ASSUME DeploymentsInv, NEW c \in calls, Deployments!Loaded(c) \/ Deployments!NotLoaded(c)
  PROVE  DeploymentsInv' /\ DeploymentsOnward
<1>1. /\ DeploymentsUi(ui) /\ c.kind = "load" /\ Made(c) /\ calls' = calls \ {c}
         /\ UNCHANGED <<page, server>>
      /\ server \in [v : [Deployments!Command -> UndoStates]]
         /\ \A d \in calls : Made(d) /\ d.kind \in DeploymentsKinds
  BY DEF DeploymentsInv, DeploymentsTyped, Deployments!Loaded, Deployments!NotLoaded,
         Deployments!Loading, DeploymentsKinds
<1>2. CASE Deployments!Loaded(c) /\ c.live
  <2>1. ui' = [ui EXCEPT !.rows = c.v, !.q = c.q, !.loaded = TRUE, !.error = FALSE,
                          !.loading = FALSE]
    BY <1>2 DEF Deployments!Loaded
  <2>2. DeploymentsUi(ui') /\ ui'.rows = c.v /\ ui'.q = c.q
          /\ Deployments!Query(ui') = Deployments!Query(ui)
    BY <1>1, <2>1 DEF DeploymentsUi, Deployments!Query
  <2>3. Awaited(c) /\ c.st = "ok"
    BY <1>1, <1>2 DEF Awaited, Deployments!Loaded
  <2>4. GoneIn(ui.rows, c.v) /\ GoneIn(c.v, server.v) /\ c.q = Deployments!Query(ui)
    BY <2>3 DEF DeploymentsInv, DeploymentsOrdered, DeploymentsOneAwaited
  <2>5. \A d \in calls' : ~Awaited(d)
    BY <1>1, <2>3 DEF DeploymentsInv, DeploymentsOneAwaited
  <2>6. DeploymentsTyped' /\ DeploymentsOneAwaited' /\ DeploymentsOrdered'
    BY <1>1, <2>2, <2>4, <2>5 DEF DeploymentsTyped, DeploymentsOneAwaited, DeploymentsOrdered
  <2> QED BY <1>1, <2>2, <2>4, <2>6 DEF DeploymentsInv, DeploymentsOnward
<1>3. CASE ~(Deployments!Loaded(c) /\ c.live)
  <2>1. DeploymentsUi(ui') /\ ui'.rows = ui.rows /\ ui'.q = ui.q
          /\ Deployments!Query(ui') = Deployments!Query(ui)
    BY <1>1, <1>3 DEF Deployments!Loaded, Deployments!NotLoaded, DeploymentsUi, Deployments!Query
  <2>2. server' \in [v : [Deployments!Command -> UndoStates]] /\ GoneIn(server.v, server'.v)
    BY <1>1 DEF GoneIn
  <2> QED BY <1>1, <2>1, <2>2, DeploymentsKeeps DEF DeploymentsInv
<1> QED BY <1>2, <1>3

\* What the agent, the master or another operator does never brings back what
\* is gone.
LEMMA DeploymentsServerSteps ==
  ASSUME DeploymentsInv, \E c \in Deployments!Command : Deployments!AgentConfirms(c)
         \/ Deployments!AgentRefuses(c) \/ Deployments!OtherUndo(c)
  PROVE  DeploymentsInv' /\ DeploymentsOnward
<1>1. /\ DeploymentsUi(ui) /\ page = "deployments"
         /\ server \in [v : [Deployments!Command -> UndoStates]]
      /\ \A d \in calls : Made(d) /\ d.kind \in DeploymentsKinds
  BY DEF DeploymentsInv, DeploymentsTyped
<1>2. PICK c \in Deployments!Command, w \in UndoStates : /\ server.v[c] # "gone"
                                                            /\ server' =
                                                               [server EXCEPT !.v[c] = w]
                                                         /\ UNCHANGED <<page, ui, calls>>
  BY DEF Deployments!AgentConfirms, Deployments!AgentRefuses, Deployments!OtherUndo, UndoStates
<1>3. server' \in [v : [Deployments!Command -> UndoStates]] /\ GoneIn(server.v, server'.v)
  BY <1>1, <1>2 DEF GoneIn
<1> QED BY <1>1, <1>2, <1>3, DeploymentsKeeps

LEMMA DeploymentsUndoSteps ==
  ASSUME DeploymentsInv, \/ \E c \in Deployments!Command : Deployments!Undo(c)
                         \/ \E c \in calls : Deployments!TakeUndo(c)
  PROVE  DeploymentsInv' /\ DeploymentsOnward
<1>1. /\ DeploymentsUi(ui) /\ page = "deployments"
         /\ server \in [v : [Deployments!Command -> UndoStates]]
      /\ \A d \in calls : Made(d) /\ d.kind \in DeploymentsKinds
  BY DEF DeploymentsInv, DeploymentsTyped
<1>2. ASSUME NEW c \in Deployments!Command, Deployments!Undo(c)
      PROVE DeploymentsInv' /\ DeploymentsOnward
  <2> DEFINE q == <<c, 0>>
             r == Deployments!Request("undo", q, Deployments!NothingUndone)
  <2>1. /\ calls' = calls \cup {r} /\ UNCHANGED <<page, server>>
        /\ ui' = [ui EXCEPT !.busy = ui.busy \cup {c}]
    BY <1>1, <1>2 DEF Deployments!Undo, DeploymentsUi
  <2>2. DeploymentsUi(ui') /\ ui'.rows = ui.rows /\ ui'.q = ui.q
          /\ Deployments!Query(ui') = Deployments!Query(ui)
    BY <1>1, <2>1 DEF DeploymentsUi, Deployments!Query
  <2>3. Made(r) /\ r.kind = "undo"
    <3> HIDE DEF q
    <3> QED BY RequestMade
  <2> HIDE DEF r
  <2>4. server' \in [v : [Deployments!Command -> UndoStates]] /\ GoneIn(server.v, server'.v)
    BY <1>1, <2>1 DEF GoneIn
  <2>5. \A d \in calls' : Made(d) /\ d.kind \in DeploymentsKinds /\ (Awaited(d) => d \in calls)
    BY <1>1, <2>1, <2>3 DEF DeploymentsKinds, Awaited
  <2> QED BY <1>1, <2>1, <2>2, <2>4, <2>5, DeploymentsKeeps
<1>3. ASSUME NEW r \in calls, Deployments!TakeUndo(r) PROVE DeploymentsInv' /\ DeploymentsOnward
  <2>1. PICK st \in {"ok", "failed"} : calls' = (calls \ {r}) \cup {[r EXCEPT !.st = st]}
    BY <1>3 DEF Deployments!TakeUndo
  <2> DEFINE e == [r EXCEPT !.st = st]
  <2>2. Made(e) /\ e.kind = "undo"
    BY <1>1, <1>3 DEF Made, Deployments!TakeUndo
  <2> HIDE DEF e
  <2>3. \A d \in calls' : Made(d) /\ d.kind \in DeploymentsKinds /\ (Awaited(d) => d \in calls)
    <3>1. calls' = (calls \ {r}) \cup {e}
      BY <2>1 DEF e
    <3> QED BY <1>1, <3>1, <2>2 DEF DeploymentsKinds, Awaited
  <2>4. server' \in [v : [Deployments!Command -> UndoStates]] /\ GoneIn(server.v, server'.v)
    <3>1. CASE server.v[r.q[1]] = "listed"
      <4> DEFINE w == IF r.q[1] \in Machine THEN "pending" ELSE "gone"
                 c == r.q[1]
      <4>1. w \in UndoStates /\ server' = [server EXCEPT !.v[c] = w] /\ server.v[c] = "listed"
        BY <1>3, <3>1 DEF Deployments!TakeUndo, UndoStates
      <4> HIDE DEF w, c
      <4> QED BY <1>1, <4>1 DEF GoneIn
    <3>2. CASE server.v[r.q[1]] # "listed"
      <4>1. server' = server
        BY <1>3, <3>2 DEF Deployments!TakeUndo
      <4> QED BY <1>1, <4>1 DEF GoneIn
    <3> QED BY <3>1, <3>2
  <2>5. UNCHANGED <<page, ui>>
    BY <1>3 DEF Deployments!TakeUndo
  <2> QED BY <1>1, <2>3, <2>4, <2>5, DeploymentsKeeps
<1> QED BY <1>2, <1>3

LEMMA DeploymentsUndoAnsweredStep ==
  ASSUME DeploymentsInv, NEW r \in calls, Deployments!UndoAnswered(r)
  PROVE  DeploymentsInv' /\ DeploymentsOnward
<1>1. /\ DeploymentsUi(ui) /\ page = "deployments"
         /\ server \in [v : [Deployments!Command -> UndoStates]]
      /\ UNCHANGED <<page, server>>
      /\ \A d \in calls : Made(d) /\ d.kind \in DeploymentsKinds
  BY DEF DeploymentsInv, DeploymentsTyped, Deployments!UndoAnswered
<1> DEFINE b == ui.busy \ {r.q[1]}
           u == [ui EXCEPT !.busy = b]
<1>2. \/ ui' = u /\ calls' = calls \ {r}
      \/ ui' = [u EXCEPT !.loading = TRUE] /\ calls' = Deployments!Cancelled(calls \ {r})
         \cup {Deployments!Ask(Deployments!Query(ui), Deployments!NothingUndone)}
  BY <1>1 DEF Deployments!UndoAnswered, DeploymentsUi
<1> HIDE DEF b
<1>3. DeploymentsUi(ui') /\ ui'.rows = ui.rows /\ ui'.q = ui.q
        /\ Deployments!Query(ui') = Deployments!Query(ui)
  BY <1>1, <1>2 DEF DeploymentsUi, Deployments!Query
<1>4. CASE calls' = calls \ {r}
  <2>1. server' \in [v : [Deployments!Command -> UndoStates]] /\ GoneIn(server.v, server'.v)
    BY <1>1 DEF GoneIn
  <2> QED BY <1>1, <1>3, <1>4, <2>1, DeploymentsKeeps
<1>5. CASE calls' = Deployments!Cancelled(calls \ {r})
        \cup {Deployments!Ask(Deployments!Query(ui), Deployments!NothingUndone)}
  <2> DEFINE cs == calls \ {r}
  <2>1. \A d \in cs : Made(d) /\ d.kind \in DeploymentsKinds
    BY <1>1
  <2>2. calls' = Deployments!Cancelled(cs)
          \cup {Deployments!Ask(Deployments!Query(ui'), Deployments!NothingUndone)}
    BY <1>3, <1>5
  <2> HIDE DEF cs
  <2> QED BY <1>1, <1>3, <2>1, <2>2, DeploymentsAsks
<1> QED BY <1>2, <1>4, <1>5

LEMMA DeploymentsNextInv == ASSUME DeploymentsInv, [Deployments!Next]_vars
PROVE DeploymentsInv' /\ DeploymentsOnward
<1>1. /\ DeploymentsUi(ui) /\ page = "deployments"
         /\ server \in [v : [Deployments!Command -> UndoStates]]
      /\ \A d \in calls : Made(d) /\ d.kind \in DeploymentsKinds
  BY DEF DeploymentsInv, DeploymentsTyped
<1>2. ASSUME NEW c \in calls, Deployments!Answer("deployments", c)
             \/ Deployments!Fail("deployments", c) PROVE DeploymentsInv' /\ DeploymentsOnward
  <2>1. CASE Deployments!Answer("deployments", c)
    <3> DEFINE e == [c EXCEPT !.st = "ok", !.v = server.v]
    <3>1. calls' = (calls \ {c}) \cup {e} /\ UNCHANGED <<page, server, ui>>
      BY <2>1 DEF Deployments!Answer
    <3>2. Made(e) /\ e.kind = c.kind /\ e.q = c.q /\ e.live = c.live /\ e.st = "ok"
            /\ e.v = server.v
      BY <1>1 DEF Made
    <3> HIDE DEF e
    <3> QED BY <3>1, <3>2, DeploymentsReplaces
  <2>2. CASE Deployments!Fail("deployments", c)
    <3> DEFINE e == [c EXCEPT !.st = "failed"]
    <3>1. calls' = (calls \ {c}) \cup {e} /\ UNCHANGED <<page, server, ui>>
      BY <2>2 DEF Deployments!Fail
    <3>2. Made(e) /\ e.kind = c.kind /\ e.q = c.q /\ e.live = c.live /\ e.st = "failed"
      BY <1>1 DEF Made
    <3> HIDE DEF e
    <3> QED BY <3>1, <3>2, DeploymentsReplaces
  <2> QED BY <1>2, <2>1, <2>2
<1>3. ASSUME UNCHANGED vars PROVE DeploymentsInv' /\ DeploymentsOnward
  <2>1. UNCHANGED <<page, server, ui, calls>>
    BY <1>3 DEF vars
  <2>2. server' \in [v : [Deployments!Command -> UndoStates]] /\ GoneIn(server.v, server'.v)
    BY <1>1, <2>1 DEF GoneIn
  <2> QED BY <1>1, <2>1, <2>2, DeploymentsKeeps
<1> QED BY <1>2, <1>3, DeploymentsMovesStep, DeploymentsLoadedStep, DeploymentsServerSteps,
           DeploymentsUndoSteps, DeploymentsUndoAnsweredStep DEF Deployments!Next

-----------------------------------------------------------------------------
(* The denial matrix.                                                        *)

Table == [Agent \X Day -> Nat]
MatrixUi(u) == u \in [days : {u.days}, last : {u.last}, q : {u.q}, rows : {u.rows},
                     loading : BOOLEAN, error : BOOLEAN]

MatrixTyped ==
  /\ MatrixUi(ui) /\ server \in [v : Table] /\ ui.rows \in Table
  /\ \A c \in calls : Made(c) /\ c.kind = "load" /\ c.v \in Table

\* One load is waited for, and it is for what the page is left on.
MatrixOneAwaited ==
  \A c \in calls : Awaited(c) => /\ \A d \in calls : Awaited(d) => c = d
                               /\ c.q = ui.days

AtMost(v, w) == \A p \in Agent \X Day : v[p] <= w[p]

\* The rows are no newer than the answer waited for, nor that than the master's:
\* denials are only added.
MatrixOrdered ==
  /\ AtMost(ui.rows, server.v)
  /\ \A c \in calls : Awaited(c) /\ c.st = "ok" => AtMost(ui.rows, c.v) /\ AtMost(c.v, server.v)

MatrixInv == page = "matrix" /\ MatrixTyped /\ MatrixOneAwaited /\ MatrixOrdered

\* what a step keeps
MatrixOnward ==
  ui'.days = ui.days /\ ui.q = ui.days
    => ui'.q = ui.days /\ \A p \in DOMAIN ui.rows : ui'.rows[p] >= ui.rows[p]

LEMMA MatrixInitInv == Matrix!Init => MatrixInv
<1> SUFFICES ASSUME Matrix!Init PROVE MatrixInv
  OBVIOUS
<1> DEFINE q == CHOOSE d \in Windows : \A e \in Windows : e <= d
           a == Matrix!Ask(q, Matrix!Nothing)
<1>1. /\ page = "matrix" /\ server = [v |-> Matrix!Nothing]
      /\ ui = [days |-> q, last |-> q, q |-> 0, rows |-> Matrix!Nothing,
               loading |-> TRUE, error |-> FALSE]
      /\ calls = {a}
  BY DEF Matrix!Init
<1> HIDE DEF q
<1>2. MatrixUi(ui) /\ ui.days = q /\ ui.rows = Matrix!Nothing
  BY <1>1 DEF MatrixUi
<1>3. Made(a) /\ a.kind = "load" /\ a.q = q /\ a.st = "sent" /\ a.v = Matrix!Nothing
  BY AskMade
<1> HIDE DEF a
<1>4. Matrix!Nothing \in Table /\ AtMost(Matrix!Nothing, Matrix!Nothing)
  BY DEF Matrix!Nothing, Table, AtMost
<1>5. server \in [v : Table] /\ server.v = Matrix!Nothing
  BY <1>1, <1>4
<1>6. MatrixTyped
  BY <1>1, <1>2, <1>3, <1>4, <1>5 DEF MatrixTyped
<1>7. MatrixOneAwaited
  BY <1>1, <1>2, <1>3 DEF MatrixOneAwaited
<1>8. MatrixOrdered
  BY <1>1, <1>2, <1>3, <1>4, <1>5 DEF MatrixOrdered
<1> QED BY <1>1, <1>6, <1>7, <1>8 DEF MatrixInv

LEMMA SameTable ==
  ASSUME NEW v \in Table
  PROVE  /\ AtMost(v, v) /\ DOMAIN v = Agent \X Day /\ \A p \in DOMAIN v : v[p] >= v[p]
  BY DEF Table, AtMost

\* Only a load just asked for is waited for.
LEMMA MatrixEffectStep ==
  ASSUME MatrixInv, NEW u, MatrixUi(u), u.rows = ui.rows, u.q = ui.q, Matrix!Effect(u),
         UNCHANGED <<page, server>>
  PROVE  MatrixInv' /\ MatrixOnward
<1> DEFINE l == (u.loading \/ u.last # u.days)
           q == u.days
           a == Matrix!Ask(q, Matrix!Nothing)
<1>1. l \in BOOLEAN
  BY DEF MatrixUi
<1>2. ui' = [u EXCEPT !.loading = l, !.last = u.days]
  BY DEF Matrix!Effect, MatrixUi
<1> HIDE DEF l
<1>3. MatrixUi(ui') /\ ui'.rows = ui.rows /\ ui'.q = ui.q /\ ui'.days = q
  BY <1>1, <1>2 DEF MatrixUi
<1>4. calls' = Matrix!Cancelled(calls) \cup {a}
  BY DEF Matrix!Effect
<1> HIDE DEF q
<1>5. Made(a) /\ a.kind = "load" /\ a.q = q /\ a.st = "sent" /\ a.v = Matrix!Nothing
  BY AskMade
<1>6. Matrix!Nothing \in Table
  BY DEF Matrix!Nothing, Table
<1> HIDE DEF a
<1>7. \A d \in calls' : Made(d) /\ (Awaited(d) => d = a) /\ d.kind = "load" /\ d.v \in Table
  <2>1. \A c \in calls : Made(c) /\ c.kind = "load" /\ c.v \in Table
    BY DEF MatrixInv, MatrixTyped
  <2>2. ASSUME NEW d \in Matrix!Cancelled(calls)
        PROVE  Made(d) /\ ~Awaited(d) /\ d.kind = "load" /\ d.v \in Table
    <3>1. PICK c \in calls : d = [c EXCEPT !.live = FALSE]
      BY <2>1 DEF Matrix!Cancelled
    <3>2. d.kind = "load" /\ d.v \in Table
      BY <2>1, <3>1 DEF Made
    <3>3. Made(d) /\ ~Awaited(d)
      BY <2>1, CancelledNone
    <3> QED BY <3>2, <3>3
  <2> QED BY <1>4, <1>5, <1>6, <2>2
<1>8. MatrixTyped'
  BY <1>3, <1>7 DEF MatrixInv, MatrixTyped
<1>9. MatrixOneAwaited'
  BY <1>3, <1>5, <1>7 DEF MatrixOneAwaited
<1>10. MatrixOrdered'
  BY <1>3, <1>5, <1>7 DEF MatrixInv, MatrixOrdered
<1>11. MatrixOnward
  BY <1>3, SameTable DEF MatrixInv, MatrixTyped, MatrixOnward
<1> QED BY <1>8, <1>9, <1>10, <1>11 DEF MatrixInv

\* One is answered, or not.
LEMMA MatrixReplaces ==
  ASSUME MatrixInv, NEW c \in calls, NEW e, Made(e), e.kind = c.kind, e.q = c.q, e.live = c.live,
         (e.st = "failed" /\ e.v = c.v) \/ (e.st = "ok" /\ e.v = server.v),
         calls' = (calls \ {c}) \cup {e}, UNCHANGED <<page, server, ui>>
  PROVE  MatrixInv' /\ MatrixOnward
<1>1. MatrixTyped'
  <2>1. server.v \in Table
    BY DEF MatrixInv, MatrixTyped
  <2> QED BY <2>1 DEF MatrixInv, MatrixTyped
<1>2. Awaited(e) <=> Awaited(c)
  BY DEF Awaited
<1>3. MatrixOneAwaited'
  BY <1>2 DEF MatrixInv, MatrixOneAwaited
<1>4. MatrixOrdered'
  <2>1. AtMost(server.v, server.v)
    BY SameTable DEF MatrixInv, MatrixTyped
  <2> QED BY <2>1 DEF MatrixInv, MatrixOrdered
<1>5. MatrixOnward
  BY SameTable DEF MatrixInv, MatrixTyped, MatrixOnward
<1> QED BY <1>1, <1>3, <1>4, <1>5 DEF MatrixInv

LEMMA MatrixLoadedStep ==
  ASSUME MatrixInv, NEW c \in calls, Matrix!Loaded(c) \/ Matrix!NotLoaded(c)
  PROVE  MatrixInv' /\ MatrixOnward
<1>1. /\ MatrixUi(ui) /\ Made(c) /\ calls' = calls \ {c} /\ UNCHANGED <<page, server>>
         /\ c.kind = "load"
      /\ server \in [v : Table] /\ ui.rows \in Table /\ c.v \in Table
      /\ \A d \in calls : Made(d) /\ d.kind = "load" /\ d.v \in Table
  BY DEF MatrixInv, MatrixTyped, Matrix!Loaded, Matrix!NotLoaded
<1>2. CASE Matrix!Loaded(c) /\ c.live
  <2>1. ui' = [ui EXCEPT !.q = c.q, !.rows = c.v, !.error = FALSE, !.loading = FALSE]
    BY <1>2 DEF Matrix!Loaded
  <2>2. MatrixUi(ui') /\ ui'.rows = c.v /\ ui'.q = c.q /\ ui'.days = ui.days
    BY <1>1, <2>1 DEF MatrixUi
  <2>3. Awaited(c) /\ c.st = "ok"
    BY <1>1, <1>2 DEF Awaited, Matrix!Loaded
  <2>4. AtMost(ui.rows, c.v) /\ AtMost(c.v, server.v) /\ c.q = ui.days
    BY <2>3 DEF MatrixInv, MatrixOrdered, MatrixOneAwaited
  <2>5. \A d \in calls' : ~Awaited(d)
    BY <1>1, <2>3 DEF MatrixInv, MatrixOneAwaited
  <2>6. MatrixTyped' /\ MatrixOneAwaited' /\ MatrixOrdered'
    BY <1>1, <2>2, <2>4, <2>5 DEF MatrixTyped, MatrixOneAwaited, MatrixOrdered
  <2>7. \A p \in DOMAIN ui.rows : c.v[p] >= ui.rows[p]
    BY <1>1, <2>4 DEF AtMost, Table
  <2> QED BY <1>1, <2>2, <2>4, <2>6, <2>7 DEF MatrixInv, MatrixOnward
<1>3. CASE ~(Matrix!Loaded(c) /\ c.live)
  <2>1. MatrixUi(ui') /\ ui'.rows = ui.rows /\ ui'.q = ui.q /\ ui'.days = ui.days
    BY <1>1, <1>3 DEF Matrix!Loaded, Matrix!NotLoaded, MatrixUi
  <2>2. MatrixTyped'
    BY <1>1, <2>1 DEF MatrixTyped
  <2>3. MatrixOneAwaited' /\ MatrixOrdered'
    BY <1>1, <2>1 DEF MatrixInv, MatrixOneAwaited, MatrixOrdered
  <2>4. MatrixOnward
    BY <1>1, <2>1, SameTable DEF MatrixOnward
  <2> QED BY <1>1, <2>2, <2>3, <2>4 DEF MatrixInv
<1> QED BY <1>2, <1>3

LEMMA MatrixDenialStep ==
  ASSUME MatrixInv, NEW p \in Agent \X Day, Matrix!Denial(p)
  PROVE  MatrixInv' /\ MatrixOnward
<1> DEFINE w == [server.v EXCEPT ![p] = server.v[p] + 1]
<1>0. UNCHANGED <<page, ui, calls>> /\ server' = [server EXCEPT !.v = w]
  BY Zenon DEF Matrix!Denial
<1>1. /\ server \in [v : Table] /\ ui.rows \in Table /\ UNCHANGED <<page, ui, calls>>
      /\ \A c \in calls : c.v \in Table
  BY <1>0 DEF MatrixInv, MatrixTyped
<1>2. w \in Table /\ AtMost(server.v, w)
  BY <1>1 DEF Table, AtMost
<1> HIDE DEF w
<1>4. server' \in [v : Table] /\ server'.v = w
  BY <1>0, <1>1, <1>2
<1>5. \A v \in Table : AtMost(v, server.v) => AtMost(v, w)
  BY <1>1, <1>2 DEF AtMost, Table
<1>6. MatrixTyped' /\ MatrixOneAwaited'
  BY <1>1, <1>4 DEF MatrixInv, MatrixTyped, MatrixOneAwaited
<1>7. MatrixOrdered'
  BY <1>1, <1>4, <1>5 DEF MatrixInv, MatrixOrdered
<1>8. MatrixOnward
  BY <1>1, SameTable DEF MatrixOnward
<1> QED BY <1>1, <1>6, <1>7, <1>8 DEF MatrixInv

LEMMA MatrixNextInv == ASSUME MatrixInv, [Matrix!Next]_vars PROVE MatrixInv' /\ MatrixOnward
<1>1. /\ MatrixUi(ui) /\ page = "matrix"
         /\ \A d \in calls : Made(d) /\ d.kind = "load" /\ d.v \in Table
  BY DEF MatrixInv, MatrixTyped
<1>2. ASSUME NEW c \in calls, Matrix!Answer("matrix", c) \/ Matrix!Fail("matrix", c)
      PROVE MatrixInv' /\ MatrixOnward
  <2>1. CASE Matrix!Answer("matrix", c)
    <3> DEFINE e == [c EXCEPT !.st = "ok", !.v = server.v]
    <3>1. calls' = (calls \ {c}) \cup {e} /\ UNCHANGED <<page, server, ui>>
      BY <2>1 DEF Matrix!Answer
    <3>2. Made(e) /\ e.kind = c.kind /\ e.q = c.q /\ e.live = c.live /\ e.st = "ok"
            /\ e.v = server.v
      BY <1>1 DEF Made
    <3> HIDE DEF e
    <3> QED BY <3>1, <3>2, MatrixReplaces
  <2>2. CASE Matrix!Fail("matrix", c)
    <3> DEFINE e == [c EXCEPT !.st = "failed"]
    <3>1. calls' = (calls \ {c}) \cup {e} /\ UNCHANGED <<page, server, ui>>
      BY <2>2 DEF Matrix!Fail
    <3>2. Made(e) /\ e.kind = c.kind /\ e.q = c.q /\ e.live = c.live /\ e.st = "failed"
            /\ e.v = c.v
      BY <1>1 DEF Made
    <3> HIDE DEF e
    <3> QED BY <3>1, <3>2, MatrixReplaces
  <2> QED BY <1>2, <2>1, <2>2
<1>3. ASSUME NEW d \in Windows, Matrix!SetDays(d) PROVE MatrixInv' /\ MatrixOnward
  <2> DEFINE u == [ui EXCEPT !.days = d]
  <2>1. MatrixUi(u) /\ u.rows = ui.rows /\ u.q = ui.q
    BY <1>1 DEF MatrixUi
  <2>2. Matrix!Effect(u) /\ UNCHANGED <<page, server>>
    BY <1>3 DEF Matrix!SetDays
  <2> QED BY <2>1, <2>2, MatrixEffectStep
<1>4. ASSUME Matrix!AutoTick PROVE MatrixInv' /\ MatrixOnward
  BY <1>1, <1>4, MatrixEffectStep DEF Matrix!AutoTick
<1>5. ASSUME UNCHANGED vars PROVE MatrixInv' /\ MatrixOnward
  <2>1. UNCHANGED <<page, server, ui, calls>>
    BY <1>5 DEF vars
  <2>2. MatrixTyped' /\ MatrixOneAwaited' /\ MatrixOrdered'
    BY <2>1 DEF MatrixInv, MatrixTyped, MatrixOneAwaited, MatrixOrdered
  <2>3. MatrixOnward
    BY <2>1, SameTable DEF MatrixInv, MatrixTyped, MatrixOnward
  <2> QED BY <1>1, <2>1, <2>2, <2>3 DEF MatrixInv
<1> QED BY <1>2, <1>3, <1>4, <1>5, MatrixLoadedStep, MatrixDenialStep DEF Matrix!Next

-----------------------------------------------------------------------------
(* The dashboard's grid and the layout the master keeps.  While no read of   *)
(* the layout failed and the tile saved before was not taken off, that tile  *)
(* is either everywhere a layout is (on the master, in the writes under way, *)
(* in the answers to reads, on the loaded grid) or nowhere.  Until log.raced *)
(* says that saves crossed, a visit has one save out at most, which the      *)
(* master keeps once it is served; and what "saved" then calls synced is     *)
(* what the master holds and the grid shows, or a timer is set.              *)

IsLayout(l) == l \in [tiles : {l.tiles}, look : {l.look}]
Get(c) == c \in [kind : {"get"}, by : {c.by}, st : {"sent", "ok", "failed"}, got : {c.got}]
Put(c) == c \in [kind : {"put"}, by : {c.by}, st : {"sent", "ok", "failed"}, body : {c.body}]
Call(c) == \/ Get(c) /\ c.kind = "get" /\ IsLayout(c.got)
           \/ Put(c) /\ c.kind = "put" /\ IsLayout(c.body)
Grid(u) == /\ u \in [widgets : {u.widgets}, loaded : BOOLEAN, synced : {u.synced}, save : {u.save},
                     timer : BOOLEAN, editing : BOOLEAN, previous : {u.previous}]
           /\ IsLayout(u.widgets) /\ \A l \in u.previous : IsLayout(l)
Log(g) == /\ g \in [used : {g.used}, removed : {g.removed}, edits : {g.edits}, visits : {g.visits},
                    faults : {g.faults}, blind : BOOLEAN, raced : BOOLEAN]
          /\ g.edits \in Nat /\ g.visits \in Nat /\ g.faults \in Nat

\* A save is timed only of a grid that was loaded.
LayoutsTyped ==
  /\ page \in Layouts!Pages /\ IsLayout(server) /\ Log(log)
  /\ \A c \in calls : Call(c)
  /\ page = "dashboard" => Grid(ui) /\ (ui.timer => ui.loaded)

Has(l) == "saved" \in l.tiles
Intact == ~log.blind /\ "saved" \notin log.removed
Everywhere ==
  /\ Has(server)
  /\ \A c \in calls : c.kind = "put" => Has(c.body)
  /\ \A c \in calls : c.kind = "get" /\ c.st = "ok" => Has(c.got)
  /\ page = "dashboard" /\ ui.loaded => Has(ui.widgets)
Nowhere ==
  /\ ~Has(server)
  /\ \A c \in calls : c.kind = "put" => ~Has(c.body)
  /\ \A c \in calls : c.kind = "get" /\ c.st = "ok" => ~Has(c.got)
  /\ page = "dashboard" => ~Has(ui.widgets) /\ \A l \in ui.previous : ~Has(l)
LayoutsKept == Intact => Everywhere \/ Nowhere

OwnGet(c) == c.kind = "get" /\ c.by = "dashboard"
OwnPut(c) == c.kind = "put" /\ c.by = "dashboard"

\* What is read and written on behalf of the dashboard that is open.
LayoutsOwn ==
  /\ \A c \in calls : c.by = "dashboard" => page = "dashboard"
  /\ page = "dashboard" =>
       /\ \A c, d \in calls : OwnGet(c) /\ OwnGet(d) => c = d
       /\ \A c \in calls : OwnGet(c) => ~ui.loaded
       /\ \A c \in calls : OwnPut(c) => ui.loaded
       /\ ~ui.loaded => ui.save = "idle"

Still == \A c \in calls : ~OwnPut(c)
LayoutsSettled ==
  page = "dashboard" /\ ~log.raced =>
    /\ \A c, d \in calls : OwnPut(c) /\ OwnPut(d) => c = d
    /\ \A c \in calls : OwnPut(c) => /\ c.st = "ok" => server = c.body
                                     /\ ui.timer \/ ui.widgets = c.body
    /\ ui.save = "saved" /\ Still => /\ server = ui.synced
                                     /\ ui.timer \/ ui.widgets = ui.synced

LayoutsInv == LayoutsTyped /\ LayoutsKept /\ LayoutsOwn /\ LayoutsSettled

\* what a step keeps
LayoutsOnward == page \in Layouts!Pages /\ Has(server) /\ Intact => Has(server')

LEMMA LayoutsInitInv == Layouts!Init => LayoutsInv
<1> SUFFICES ASSUME Layouts!Init PROVE LayoutsInv
  OBVIOUS
<1> DEFINE r == [kind |-> "get", by |-> "dashboard", st |-> "sent", got |-> Layouts!Empty]
<1>1. /\ page \in Layouts!Pages /\ server \in {Layouts!Empty, Layouts!SavedBefore}
      /\ page = "dashboard" => ui = Layouts!Opened
      /\ \A c \in calls : c = r /\ page = "dashboard"
      /\ log = [used |-> {}, removed |-> {}, edits |-> 0, visits |-> 1,
                faults |-> 0, blind |-> FALSE, raced |-> FALSE]
  BY Zenon DEF Layouts!Init, Layouts!OpenedOn, Layouts!FirstRead
<1>2. /\ IsLayout(Layouts!Empty) /\ IsLayout(Layouts!SavedBefore)
         /\ IsLayout(Layouts!DefaultWidgets)
      /\ ~Has(Layouts!Empty) /\ Has(Layouts!SavedBefore) /\ ~Has(Layouts!DefaultWidgets)
  BY DEF IsLayout, Layouts!Empty, Layouts!SavedBefore, Layouts!DefaultWidgets, Layouts!Layout,
         Has
<1>3. ASSUME page = "dashboard"
      PROVE  /\ Grid(ui) /\ ~ui.timer /\ ~ui.loaded /\ ui.save = "idle" /\ ui.previous = {}
             /\ ui.widgets = Layouts!DefaultWidgets
  <2>1. Grid(Layouts!Opened)
    BY <1>2 DEF Grid, Layouts!Opened
  <2>2. ui = Layouts!Opened
    BY <1>1, <1>3
  <2>3. Grid(ui)
    BY <2>1, <2>2
  <2> QED BY <2>2, <2>3 DEF Layouts!Opened
<1>4. Call(r) /\ r.kind = "get" /\ r.st = "sent" /\ r.by = "dashboard"
  BY <1>2 DEF Call, Get
<1> HIDE DEF r
<1>5. Log(log) /\ ~log.raced
  BY <1>1 DEF Log
<1>6. LayoutsTyped
  BY <1>1, <1>2, <1>3, <1>4, <1>5 DEF LayoutsTyped
<1>7. LayoutsKept
  BY <1>1, <1>2, <1>3, <1>4 DEF LayoutsKept, Everywhere, Nowhere
<1>8. LayoutsOwn /\ LayoutsSettled
  BY <1>1, <1>3, <1>4 DEF LayoutsOwn, LayoutsSettled, OwnGet, OwnPut
<1> QED BY <1>6, <1>7, <1>8 DEF LayoutsInv

\* The autosave leaves what is shown alone, and times a save of what differs.
LEMMA AutosaveMade ==
  ASSUME NEW u, Grid(u), NEW r, r = Layouts!Autosave(u)
  PROVE  /\ Grid(r) /\ r.widgets = u.widgets /\ r.loaded = u.loaded /\ r.synced = u.synced
         /\ r.previous = u.previous
         /\ ~u.loaded => r = u
         /\ u.loaded /\ u.widgets = u.synced => ~r.timer /\ r.save = u.save
         /\ u.loaded /\ u.widgets # u.synced => r.timer /\ r.save = "saving"
<1>1. CASE ~u.loaded
  BY <1>1 DEF Layouts!Autosave
<1>2. CASE u.loaded /\ u.widgets = u.synced
  <2>1. r = [u EXCEPT !.timer = FALSE]
    BY <1>2 DEF Layouts!Autosave
  <2> QED BY <1>2, <2>1 DEF Grid
<1>3. CASE u.loaded /\ u.widgets # u.synced
  <2>1. r = [u EXCEPT !.timer = TRUE, !.save = "saving"]
    BY <1>3 DEF Layouts!Autosave
  <2> QED BY <1>3, <2>1 DEF Grid
<1> QED BY <1>1, <1>2, <1>3

LEMMA LayoutFacts ==
  /\ IsLayout(Layouts!Empty) /\ IsLayout(Layouts!DefaultWidgets) /\ ~Has(Layouts!DefaultWidgets)
  /\ \A l : IsLayout(l) => IsLayout(Layouts!OrDefault(l))
     /\ (Has(Layouts!OrDefault(l)) <=> Has(l))
<1>1. IsLayout(Layouts!Empty) /\ IsLayout(Layouts!DefaultWidgets) /\ ~Has(Layouts!DefaultWidgets)
  BY DEF IsLayout, Layouts!Empty, Layouts!DefaultWidgets, Layouts!Layout, Has
<1>2. ASSUME NEW l, IsLayout(l)
      PROVE IsLayout(Layouts!OrDefault(l)) /\ (Has(Layouts!OrDefault(l)) <=> Has(l))
  BY <1>1, <1>2 DEF Layouts!OrDefault, Has
<1> QED BY <1>1, <1>2

\* A call is answered, or lost.
LEMMA LayoutsServeStep ==
  ASSUME LayoutsInv, NEW c \in calls, Layouts!Serve(c)
  PROVE  LayoutsInv' /\ LayoutsOnward
<1>1. UNCHANGED <<page, ui>> /\ Call(c) /\ c.st = "sent" /\ IsLayout(server)
  BY DEF LayoutsInv, LayoutsTyped, Layouts!Serve
<1>2. CASE c.kind = "get"
  <2> DEFINE d == [c EXCEPT !.st = "ok", !.got = server]
  <2>1. calls' = (calls \ {c}) \cup {d} /\ UNCHANGED <<server, log>>
    BY <1>2 DEF Layouts!Serve
  <2>2. Call(d) /\ d.kind = "get" /\ d.by = c.by /\ d.st = "ok" /\ d.got = server
    BY <1>1, <1>2 DEF Call, Get, Put
  <2> HIDE DEF d
  <2>3. LayoutsTyped'
    BY <1>1, <2>1, <2>2 DEF LayoutsInv, LayoutsTyped
  <2>4. LayoutsKept'
    BY <1>1, <2>1, <2>2 DEF LayoutsInv, LayoutsKept, Intact, Everywhere, Nowhere
  <2>5. LayoutsOwn'
    BY <1>1, <1>2, <2>1, <2>2 DEF LayoutsInv, LayoutsOwn, OwnGet, OwnPut
  <2>6. \A k \in calls \cup calls' : OwnPut(k) => k \in calls /\ k \in calls'
    BY <1>2, <2>1, <2>2 DEF OwnPut
  <2>7. LayoutsSettled'
    BY <1>1, <2>1, <2>6 DEF LayoutsInv, LayoutsSettled, Still
  <2>8. LayoutsOnward
    BY <2>1 DEF LayoutsOnward
  <2> QED BY <2>3, <2>4, <2>5, <2>7, <2>8 DEF LayoutsInv
<1>3. CASE c.kind # "get"
  <2> DEFINE d == [c EXCEPT !.st = "ok"]
             b == log.raced \/ (c.by # "dashboard" /\ Layouts!On("dashboard") /\ ~Layouts!ReadsYet)
  <2>1. calls' = (calls \ {c}) \cup {d} /\ server' = c.body /\ log' = [log EXCEPT !.raced = b]
    BY <1>3, Zenon DEF Layouts!Serve
  <2>2. /\ Call(d) /\ d.kind = "put" /\ d.by = c.by /\ d.st = "ok" /\ d.body = c.body
        /\ IsLayout(c.body) /\ c.kind = "put"
    BY <1>1, <1>3 DEF Call, Get, Put
  <2>3. b \in BOOLEAN /\ Log(log)
    BY DEF LayoutsInv, LayoutsTyped, Log, Layouts!On, Layouts!ReadsYet
  <2>4. ~b => ~log.raced /\ (c.by = "dashboard" \/ page # "dashboard" \/ \E g \in calls : OwnGet(g))
    BY DEF Layouts!On, Layouts!ReadsYet, OwnGet
  <2> HIDE DEF d, b
  <2>5. Log(log') /\ log'.raced = b /\ log'.blind = log.blind /\ log'.removed = log.removed
    BY <2>1, <2>3 DEF Log
  <2>6. LayoutsTyped'
    BY <1>1, <2>1, <2>2, <2>5 DEF LayoutsInv, LayoutsTyped
  <2>7. LayoutsKept' /\ LayoutsOnward
    BY <1>1, <2>1, <2>2, <2>5
    DEF LayoutsInv, LayoutsKept, Intact, Everywhere, Nowhere, LayoutsOnward
  <2>8. LayoutsOwn'
    BY <1>1, <2>1, <2>2 DEF LayoutsInv, LayoutsOwn, OwnGet, OwnPut
  <2>9. LayoutsSettled'
    <3> SUFFICES ASSUME page = "dashboard", ~b PROVE LayoutsSettled'
      BY <1>1, <2>5 DEF LayoutsSettled
    <3>1. CASE c.by = "dashboard"
      BY <1>1, <2>1, <2>2, <2>4, <2>5, <3>1 DEF LayoutsInv, LayoutsSettled, OwnPut, Still
    <3>2. CASE c.by # "dashboard"
      <4>1. ~ui.loaded
        BY <2>4, <3>2 DEF LayoutsInv, LayoutsOwn
      <4>2. Still' /\ ui'.save = "idle"
        BY <1>1, <2>1, <2>2, <3>2, <4>1 DEF LayoutsInv, LayoutsOwn, OwnPut, Still
      <4> QED BY <4>2 DEF LayoutsSettled, Still
    <3> QED BY <3>1, <3>2
  <2> QED BY <2>6, <2>7, <2>8, <2>9 DEF LayoutsInv
<1> QED BY <1>2, <1>3

LEMMA LayoutsLoseStep ==
  ASSUME LayoutsInv, NEW c \in calls, Layouts!Lose(c)
  PROVE  LayoutsInv' /\ LayoutsOnward
<1>1. /\ UNCHANGED <<page, server, ui>> /\ Call(c) /\ Log(log)
  BY DEF LayoutsInv, LayoutsTyped, Layouts!Lose
<1> DEFINE d == [c EXCEPT !.st = "failed"]
<1>2. calls' = (calls \ {c}) \cup {d}
  BY DEF Layouts!Lose
<1>3. /\ Call(d) /\ d.kind = c.kind /\ d.by = c.by /\ d.st = "failed"
      /\ d.kind = "put" => d.body = c.body
  BY <1>1 DEF Call, Get, Put
<1> HIDE DEF d
<1>4. log' = [log EXCEPT !.faults = log.faults + 1] /\ log.faults + 1 \in Nat
  BY <1>1 DEF Log, Layouts!Lose
<1>5. Log(log') /\ log'.blind = log.blind /\ log'.raced = log.raced /\ log'.removed = log.removed
  BY <1>1, <1>4 DEF Log
<1>6. LayoutsTyped'
  BY <1>1, <1>2, <1>3, <1>5 DEF LayoutsInv, LayoutsTyped
<1>7. LayoutsKept'
  BY <1>1, <1>2, <1>3, <1>5 DEF LayoutsInv, LayoutsKept, Intact, Everywhere, Nowhere
<1>8. LayoutsOwn'
  BY <1>1, <1>2, <1>3 DEF LayoutsInv, LayoutsOwn, OwnGet, OwnPut
<1>9. LayoutsSettled'
  BY <1>1, <1>2, <1>3, <1>5 DEF LayoutsInv, LayoutsSettled, OwnPut, Still
<1>10. LayoutsOnward
  BY <1>1 DEF LayoutsOnward
<1> QED BY <1>6, <1>7, <1>8, <1>9, <1>10 DEF LayoutsInv

LEMMA LayoutsLoadsStep ==
  ASSUME LayoutsInv, NEW c \in calls, Layouts!LayoutLoads(c)
  PROVE  LayoutsInv' /\ LayoutsOnward
<1> DEFINE l == Layouts!OrDefault(c.got)
           u == [ui EXCEPT !.widgets = l, !.synced = l, !.loaded = TRUE]
<1>1. /\ page = "dashboard" /\ OwnGet(c) /\ c.st = "ok" /\ UNCHANGED <<page, server, log>>
      /\ calls' = calls \ {c} /\ ui' = Layouts!Autosave(u)
  BY Zenon DEF Layouts!LayoutLoads, Layouts!On, OwnGet
<1>2. Grid(ui) /\ IsLayout(c.got)
  BY <1>1 DEF LayoutsInv, LayoutsTyped, Call, Get, Put, OwnGet
<1>3. IsLayout(l) /\ (Has(l) <=> Has(c.got))
  BY <1>2, LayoutFacts
<1> HIDE DEF l
<1>4. /\ Grid(u) /\ u.widgets = l /\ u.synced = l /\ u.loaded /\ u.save = ui.save
      /\ u.previous = ui.previous
  BY <1>2, <1>3 DEF Grid
<1> HIDE DEF u
<1>5. /\ Grid(ui') /\ ui'.widgets = l /\ ui'.synced = l /\ ui'.loaded /\ ui'.save = ui.save
      /\ ui'.previous = ui.previous /\ ~ui'.timer
  BY <1>1, <1>4, AutosaveMade
<1>6. LayoutsTyped'
  BY <1>1, <1>5 DEF LayoutsInv, LayoutsTyped
<1>7. LayoutsKept'
  BY <1>1, <1>3, <1>5 DEF LayoutsInv, LayoutsKept, Intact, Everywhere, Nowhere, OwnGet
<1>8. ~ui.loaded /\ ui.save = "idle" /\ Still
  BY <1>1 DEF LayoutsInv, LayoutsOwn, Still
<1>9. LayoutsOwn' /\ LayoutsSettled'
  BY <1>1, <1>5, <1>8 DEF LayoutsInv, LayoutsOwn, LayoutsSettled, OwnGet, OwnPut, Still
<1>10. LayoutsOnward
  BY <1>1 DEF LayoutsOnward
<1> QED BY <1>6, <1>7, <1>9, <1>10 DEF LayoutsInv

\* After a read that failed the page is blind.
LEMMA LayoutsNotLoadsStep ==
  ASSUME LayoutsInv, NEW c \in calls, Layouts!LayoutDoesNotLoad(c)
  PROVE  LayoutsInv' /\ LayoutsOnward
<1> DEFINE u == [ui EXCEPT !.synced = Layouts!DefaultWidgets, !.loaded = TRUE]
<1>1. /\ page = "dashboard" /\ OwnGet(c) /\ c.st = "failed" /\ UNCHANGED <<page, server>>
      /\ calls' = calls \ {c} /\ ui' = Layouts!Autosave(u) /\ log' = [log EXCEPT !.blind = TRUE]
  BY Zenon DEF Layouts!LayoutDoesNotLoad, Layouts!On, OwnGet
<1>2. Grid(ui) /\ Log(log)
  BY <1>1 DEF LayoutsInv, LayoutsTyped
<1>3. /\ Grid(u) /\ u.widgets = ui.widgets /\ u.loaded /\ u.save = ui.save
  BY <1>2 DEF Grid
<1> HIDE DEF u
<1>4. /\ Grid(ui') /\ ui'.loaded /\ (ui'.timer => ui'.save = "saving")
      /\ ui'.save = ui.save \/ ui'.save = "saving"
  BY <1>1, <1>3, AutosaveMade
<1>5. Log(log') /\ log'.blind /\ log'.raced = log.raced
  BY <1>1, <1>2 DEF Log
<1>6. LayoutsTyped'
  BY <1>1, <1>4, <1>5 DEF LayoutsInv, LayoutsTyped
<1>7. LayoutsKept'
  BY <1>5 DEF LayoutsKept, Intact
<1>8. ~ui.loaded /\ ui.save = "idle" /\ Still
  BY <1>1 DEF LayoutsInv, LayoutsOwn, Still
<1>9. LayoutsOwn' /\ LayoutsSettled'
  BY <1>1, <1>4, <1>8 DEF LayoutsInv, LayoutsOwn, LayoutsSettled, OwnGet, OwnPut, Still
<1>10. LayoutsOnward
  BY <1>1 DEF LayoutsOnward
<1> QED BY <1>6, <1>7, <1>9, <1>10 DEF LayoutsInv

\* Whatever is edited: a tile leaves the grid only if the operator takes it off.
LEMMA LayoutsEditStep ==
  ASSUME LayoutsInv, NEW u, NEW ids, NEW gone, page = "dashboard", Layouts!Edit(u, ids, gone),
         Grid(u),
         u.loaded = ui.loaded, u.save = ui.save, u.synced = ui.synced, u.timer = ui.timer,
         Has(ui.widgets) => Has(u.widgets) \/ "saved" \in gone,
         Has(u.widgets) => Has(ui.widgets) \/ \E l \in ui.previous : Has(l),
         \A l \in u.previous : l \in ui.previous \/ l = ui.widgets
  PROVE  LayoutsInv' /\ LayoutsOnward
<1>1. Grid(ui) /\ Log(log)
  BY DEF LayoutsInv, LayoutsTyped
<1> DEFINE b == log.raced \/ (Layouts!OwnSaves # {} /\ u.widgets = u.synced)
<1>2. b \in BOOLEAN /\ log.edits + 1 \in Nat
  BY <1>1 DEF Log
<1>3. /\ UNCHANGED <<page, server, calls>> /\ ui' = Layouts!Autosave(u)
      /\ log' = [log EXCEPT !.edits = log.edits + 1, !.used = log.used \cup ids,
                            !.removed = log.removed \cup gone, !.raced = b]
  BY Zenon DEF Layouts!Edit
<1>4. ~b => ~log.raced /\ (Still \/ u.widgets # u.synced)
  BY DEF Layouts!OwnSaves, Still, OwnPut
<1> HIDE DEF b
<1>5. /\ Log(log') /\ log'.blind = log.blind /\ log'.removed = log.removed \cup gone
      /\ log'.raced = b
  BY <1>1, <1>2, <1>3 DEF Log
<1>6. /\ Grid(ui') /\ ui'.widgets = u.widgets /\ ui'.loaded = u.loaded /\ ui'.synced = u.synced
      /\ ui'.previous = u.previous
      /\ ~u.loaded => ui' = u
      /\ u.loaded /\ u.widgets = u.synced => ~ui'.timer /\ ui'.save = u.save
      /\ u.loaded /\ u.widgets # u.synced => ui'.timer /\ ui'.save = "saving"
  BY <1>3, AutosaveMade
<1>7. LayoutsTyped'
  BY <1>1, <1>3, <1>5, <1>6 DEF LayoutsInv, LayoutsTyped
<1>8. LayoutsKept'
  BY <1>3, <1>5, <1>6 DEF LayoutsInv, LayoutsKept, Intact, Everywhere, Nowhere
<1>9. LayoutsOwn'
  BY <1>3, <1>6 DEF LayoutsInv, LayoutsTyped, LayoutsOwn, OwnGet, OwnPut
<1>10. LayoutsSettled'
  <2> SUFFICES ASSUME ~b PROVE LayoutsSettled'
    BY <1>5 DEF LayoutsSettled
  <2>1. CASE u.loaded /\ u.widgets # u.synced
    BY <1>3, <1>4, <1>6, <2>1 DEF LayoutsInv, LayoutsSettled, OwnPut, Still
  <2>2. CASE u.loaded /\ u.widgets = u.synced
    BY <1>3, <1>4, <1>6, <2>2 DEF LayoutsInv, LayoutsSettled, Still
  <2>3. CASE ~u.loaded
    BY <1>3, <1>6, <2>3 DEF LayoutsInv, LayoutsOwn, LayoutsSettled, OwnPut, Still
  <2> QED BY <2>1, <2>2, <2>3
<1>11. LayoutsOnward
  BY <1>3 DEF LayoutsOnward
<1> QED BY <1>7, <1>8, <1>9, <1>10, <1>11 DEF LayoutsInv

LEMMA LayoutsEditsStep ==
  ASSUME LayoutsInv, \/ \E t \in Fresh : Layouts!AddWidget(t) \/ Layouts!ReplaceLayout(t)
              \/ \E t \in {"saved", "default"} \cup Fresh \cup Chart : Layouts!RemoveWidget(t)
              \/ Layouts!Rearrange \/ Layouts!UndoReplace
  PROVE  LayoutsInv' /\ LayoutsOnward
<1>1. page = "dashboard" /\ Grid(ui) /\ IsLayout(ui.widgets)
        /\ \A l \in ui.previous : IsLayout(l)
  BY DEF LayoutsInv, LayoutsTyped, Layouts!AddWidget, Layouts!ReplaceLayout,
         Layouts!RemoveWidget, Layouts!Rearrange, Layouts!UndoReplace, Layouts!On, Grid
<1>2. ASSUME NEW t \in Fresh, Layouts!AddWidget(t) PROVE LayoutsInv' /\ LayoutsOnward
  <2> DEFINE w == [ui.widgets EXCEPT !.tiles = ui.widgets.tiles \cup {t}]
             u == [ui EXCEPT !.widgets = w]
  <2>1. Layouts!Edit(u, {t}, {})
    BY <1>2, Zenon DEF Layouts!AddWidget
  <2>2. IsLayout(w) /\ (Has(w) <=> Has(ui.widgets))
    BY <1>1, IdAssumption DEF IsLayout, Has
  <2> HIDE DEF w
  <2>3. /\ Grid(u) /\ u.widgets = w /\ u.loaded = ui.loaded /\ u.save = ui.save
        /\ u.synced = ui.synced /\ u.timer = ui.timer /\ u.previous = ui.previous
    BY <1>1, <2>2 DEF Grid
  <2> HIDE DEF u
  <2> QED BY <1>1, <2>1, <2>2, <2>3, LayoutsEditStep
<1>3. ASSUME NEW t \in Fresh, Layouts!ReplaceLayout(t) PROVE LayoutsInv' /\ LayoutsOnward
  <2> DEFINE w == Layouts!Layout({t})
             u == [ui EXCEPT !.previous = {ui.widgets}, !.widgets = w]
  <2>1. Layouts!Edit(u, {t}, ui.widgets.tiles)
    BY <1>3, Zenon DEF Layouts!ReplaceLayout
  <2>2. IsLayout(w) /\ ~Has(w)
    BY IdAssumption DEF IsLayout, Has, Layouts!Layout
  <2> HIDE DEF w
  <2>3. /\ Grid(u) /\ u.widgets = w /\ u.loaded = ui.loaded /\ u.save = ui.save
        /\ u.synced = ui.synced /\ u.timer = ui.timer /\ u.previous = {ui.widgets}
    BY <1>1, <2>2 DEF Grid
  <2>4. Has(ui.widgets) => "saved" \in ui.widgets.tiles
    BY DEF Has
  <2> HIDE DEF u
  <2> QED BY <1>1, <2>1, <2>2, <2>3, <2>4, LayoutsEditStep
<1>4. ASSUME NEW t, Layouts!RemoveWidget(t) PROVE LayoutsInv' /\ LayoutsOnward
  <2> DEFINE w == [ui.widgets EXCEPT !.tiles = ui.widgets.tiles \ {t}]
             u == [ui EXCEPT !.widgets = w]
  <2>1. Layouts!Edit(u, {}, {t})
    BY <1>4, Zenon DEF Layouts!RemoveWidget
  <2>2. IsLayout(w) /\ (Has(w) => Has(ui.widgets))
          /\ (Has(ui.widgets) => Has(w) \/ "saved" \in {t})
    BY <1>1 DEF IsLayout, Has
  <2> HIDE DEF w
  <2>3. /\ Grid(u) /\ u.widgets = w /\ u.loaded = ui.loaded /\ u.save = ui.save
        /\ u.synced = ui.synced /\ u.timer = ui.timer /\ u.previous = ui.previous
    BY <1>1, <2>2 DEF Grid
  <2> HIDE DEF u
  <2> QED BY <1>1, <2>1, <2>2, <2>3, LayoutsEditStep
<1>5. ASSUME Layouts!Rearrange PROVE LayoutsInv' /\ LayoutsOnward
  <2> DEFINE n == 1 - ui.widgets.look
             w == [ui.widgets EXCEPT !.look = n]
             u == [ui EXCEPT !.widgets = w]
  <2>1. Layouts!Edit(u, {}, {})
    BY <1>5, Zenon DEF Layouts!Rearrange
  <2> HIDE DEF n
  <2>2. IsLayout(w) /\ (Has(w) <=> Has(ui.widgets))
    BY <1>1 DEF IsLayout, Has
  <2> HIDE DEF w
  <2>3. /\ Grid(u) /\ u.widgets = w /\ u.loaded = ui.loaded /\ u.save = ui.save
        /\ u.synced = ui.synced /\ u.timer = ui.timer /\ u.previous = ui.previous
    BY <1>1, <2>2 DEF Grid
  <2> HIDE DEF u
  <2> QED BY <1>1, <2>1, <2>2, <2>3, LayoutsEditStep
<1>6. ASSUME Layouts!UndoReplace PROVE LayoutsInv' /\ LayoutsOnward
  <2>1. PICK l \in ui.previous :
          Layouts!Edit([ui EXCEPT !.widgets = l, !.previous = {}], {}, ui.widgets.tiles)
    BY <1>6, Zenon DEF Layouts!UndoReplace
  <2> DEFINE u == [ui EXCEPT !.widgets = l, !.previous = {}]
  <2>2. IsLayout(l) /\ (Has(l) => \E k \in ui.previous : Has(k))
    BY <1>1
  <2>3. /\ Grid(u) /\ u.widgets = l /\ u.loaded = ui.loaded /\ u.save = ui.save
        /\ u.synced = ui.synced /\ u.timer = ui.timer /\ u.previous = {}
    BY <1>1, <2>2 DEF Grid
  <2>4. Has(ui.widgets) => "saved" \in ui.widgets.tiles
    BY DEF Has
  <2>5. Layouts!Edit(u, {}, ui.widgets.tiles)
    BY <2>1
  <2> HIDE DEF u
  <2> QED BY <1>1, <2>2, <2>3, <2>4, <2>5, LayoutsEditStep
<1> QED BY <1>2, <1>3, <1>4, <1>5, <1>6

LEMMA LayoutsCustomizeStep ==
  ASSUME LayoutsInv, Layouts!Customize
  PROVE  LayoutsInv' /\ LayoutsOnward
<1>1. page = "dashboard" /\ Grid(ui)
  BY DEF LayoutsInv, LayoutsTyped, Layouts!Customize, Layouts!On
<1>2. ui' = [ui EXCEPT !.editing = ~ui.editing] /\ UNCHANGED <<page, server, calls, log>>
  BY Zenon DEF Layouts!Customize
<1>3. /\ Grid(ui') /\ ui'.widgets = ui.widgets /\ ui'.loaded = ui.loaded /\ ui'.save = ui.save
      /\ ui'.synced = ui.synced /\ ui'.timer = ui.timer /\ ui'.previous = ui.previous
  BY <1>1, <1>2 DEF Grid
<1>4. LayoutsTyped'
  BY <1>2, <1>3 DEF LayoutsInv, LayoutsTyped
<1>5. LayoutsKept'
  BY <1>2, <1>3 DEF LayoutsInv, LayoutsKept, Intact, Everywhere, Nowhere
<1>6. LayoutsOwn' /\ LayoutsSettled'
  BY <1>2, <1>3 DEF LayoutsInv, LayoutsOwn, LayoutsSettled, OwnGet, OwnPut, Still
<1>7. LayoutsOnward
  BY <1>2 DEF LayoutsOnward
<1> QED BY <1>4, <1>5, <1>6, <1>7 DEF LayoutsInv

\* The timer saves what the grid shows.
LEMMA LayoutsSaveTimerStep ==
  ASSUME LayoutsInv, Layouts!SaveTimer
  PROVE  LayoutsInv' /\ LayoutsOnward
<1>1. page = "dashboard" /\ ui.timer /\ Grid(ui) /\ ui.loaded /\ Log(log)
  BY DEF LayoutsInv, LayoutsTyped, Layouts!SaveTimer, Layouts!On
<1> DEFINE c == [kind |-> "put", by |-> "dashboard", st |-> "sent", body |-> ui.widgets]
           b == log.raced \/ Layouts!OwnSaves # {}
<1>2. /\ calls' = calls \cup {c} /\ ui' = [ui EXCEPT !.timer = FALSE]
         /\ UNCHANGED <<page, server>>
      /\ log' = [log EXCEPT !.raced = b]
  BY Zenon DEF Layouts!SaveTimer
<1>3. Call(c) /\ c.kind = "put" /\ c.by = "dashboard" /\ c.st = "sent" /\ c.body = ui.widgets
  BY <1>1 DEF Call, Put, Grid
<1> HIDE DEF c
<1>4. b \in BOOLEAN /\ (~b => ~log.raced /\ Still)
  BY <1>1 DEF Log, Layouts!OwnSaves, Still, OwnPut
<1> HIDE DEF b
<1>5. /\ Log(log') /\ log'.blind = log.blind /\ log'.removed = log.removed /\ log'.raced = b
  BY <1>1, <1>2, <1>4 DEF Log
<1>6. /\ Grid(ui') /\ ui'.widgets = ui.widgets /\ ui'.loaded = ui.loaded /\ ui'.save = ui.save
      /\ ui'.synced = ui.synced /\ ~ui'.timer /\ ui'.previous = ui.previous
  BY <1>1, <1>2 DEF Grid
<1>7. LayoutsTyped'
  BY <1>2, <1>3, <1>5, <1>6 DEF LayoutsInv, LayoutsTyped
<1>8. LayoutsKept'
  BY <1>1, <1>2, <1>3, <1>5, <1>6 DEF LayoutsInv, LayoutsKept, Intact, Everywhere, Nowhere
<1>9. LayoutsOwn'
  BY <1>1, <1>2, <1>3, <1>6 DEF LayoutsInv, LayoutsOwn, OwnGet, OwnPut
<1>10. LayoutsSettled'
  BY <1>2, <1>3, <1>4, <1>5, <1>6 DEF LayoutsSettled, OwnPut, Still
<1>11. LayoutsOnward
  BY <1>2 DEF LayoutsOnward
<1> QED BY <1>7, <1>8, <1>9, <1>10, <1>11 DEF LayoutsInv

LEMMA LayoutsSaveAnsweredStep ==
  ASSUME LayoutsInv, NEW c \in calls, Layouts!SaveAnswered(c)
  PROVE  LayoutsInv' /\ LayoutsOnward
<1>1. /\ c.kind = "put" /\ c.by \in {"dashboard", "left"} /\ c.st \in {"ok", "failed"}
      /\ calls' = calls \ {c} /\ UNCHANGED <<page, server, log>>
  BY Zenon DEF Layouts!SaveAnswered
<1>2. CASE c.by = "left"
  <2>1. ui' = ui
    BY <1>2 DEF Layouts!SaveAnswered
  <2>2. LayoutsTyped' /\ LayoutsKept' /\ LayoutsOnward
    BY <1>1, <2>1 DEF LayoutsInv, LayoutsTyped, LayoutsKept, Intact, Everywhere, Nowhere, LayoutsOnward
  <2>3. LayoutsOwn' /\ LayoutsSettled'
    BY <1>1, <1>2, <2>1 DEF LayoutsInv, LayoutsOwn, LayoutsSettled, OwnGet, OwnPut, Still
  <2> QED BY <2>2, <2>3 DEF LayoutsInv
<1>3. CASE c.by = "dashboard"
  <2>1. /\ c.st = "ok" => ui' = [ui EXCEPT !.synced = c.body, !.save = "saved"]
        /\ c.st # "ok" => ui' = [ui EXCEPT !.save = "idle"]
    BY Zenon, <1>3 DEF Layouts!SaveAnswered
  <2>2. page = "dashboard" /\ Grid(ui) /\ ui.loaded
    BY <1>1, <1>3 DEF LayoutsInv, LayoutsTyped, LayoutsOwn, OwnPut
  <2>3. /\ Grid(ui') /\ ui'.widgets = ui.widgets /\ ui'.loaded = ui.loaded
        /\ ui'.timer = ui.timer /\ ui'.previous = ui.previous
        /\ c.st = "ok" => ui'.synced = c.body /\ ui'.save = "saved"
        /\ c.st # "ok" => ui'.save = "idle"
    <3>1. CASE c.st = "ok"
      BY <2>1, <2>2, <3>1 DEF Grid
    <3>2. CASE c.st # "ok"
      BY <2>1, <2>2, <3>2 DEF Grid
    <3> QED BY <3>1, <3>2
  <2>4. LayoutsTyped'
    BY <1>1, <2>3 DEF LayoutsInv, LayoutsTyped
  <2>5. LayoutsKept'
    BY <1>1, <2>3 DEF LayoutsInv, LayoutsKept, Intact, Everywhere, Nowhere
  <2>6. LayoutsOwn'
    BY <1>1, <2>2, <2>3 DEF LayoutsInv, LayoutsOwn, OwnGet, OwnPut
  <2>7. LayoutsSettled'
    BY <1>1, <1>3, <2>2, <2>3 DEF LayoutsInv, LayoutsSettled, OwnPut, Still
  <2>8. LayoutsOnward
    BY <1>1 DEF LayoutsOnward
  <2> QED BY <2>4, <2>5, <2>6, <2>7, <2>8 DEF LayoutsInv
<1> QED BY <1>1, <1>2, <1>3

\* The explorer adds a tile to what it read.
LEMMA LayoutsAddToDashboardStep ==
  ASSUME LayoutsInv, NEW t \in Chart, Layouts!AddToDashboard(t)
  PROVE  LayoutsInv' /\ LayoutsOnward
<1> DEFINE c == [kind |-> "get", by |-> t, st |-> "sent", got |-> Layouts!Empty]
<1>1. /\ page = "charts" /\ calls' = calls \cup {c} /\ UNCHANGED <<page, server, ui>>
      /\ log' = [log EXCEPT !.used = log.used \cup {t}]
  BY Zenon DEF Layouts!AddToDashboard, Layouts!On
<1>2. Call(c) /\ c.kind = "get" /\ c.st = "sent" /\ c.by # "dashboard"
  BY LayoutFacts, IdAssumption DEF Call, Get
<1> HIDE DEF c
<1>3. Log(log)
  BY DEF LayoutsInv, LayoutsTyped
<1>4. /\ Log(log') /\ log'.blind = log.blind /\ log'.removed = log.removed
  BY <1>1, <1>3 DEF Log
<1>5. LayoutsTyped'
  BY <1>1, <1>2, <1>4 DEF LayoutsInv, LayoutsTyped
<1>6. LayoutsKept'
  BY <1>1, <1>2, <1>4 DEF LayoutsInv, LayoutsKept, Intact, Everywhere, Nowhere
<1>7. LayoutsOwn' /\ LayoutsSettled' /\ LayoutsOnward
  BY <1>1, <1>2 DEF LayoutsInv, LayoutsOwn, LayoutsSettled, LayoutsOnward
<1> QED BY <1>5, <1>6, <1>7 DEF LayoutsInv

LEMMA LayoutsAppendStep ==
  ASSUME LayoutsInv, NEW c \in calls, Layouts!AppendChart(c)
  PROVE  LayoutsInv' /\ LayoutsOnward
<1> DEFINE l == Layouts!OrDefault(c.got)
           w == [l EXCEPT !.tiles = l.tiles \cup {c.by}]
           d == [kind |-> "put", by |-> c.by, st |-> "sent", body |-> w]
<1>1. /\ c.kind = "get" /\ c.by \in Chart /\ c.st = "ok" /\ calls' = (calls \ {c}) \cup {d}
      /\ UNCHANGED <<page, server, ui, log>>
  BY Zenon DEF Layouts!AppendChart
<1>2. IsLayout(c.got)
  BY <1>1 DEF LayoutsInv, LayoutsTyped, Call, Get, Put
<1>3. IsLayout(l) /\ (Has(l) <=> Has(c.got))
  BY <1>2, LayoutFacts
<1> HIDE DEF l
<1>4. IsLayout(w) /\ (Has(w) <=> Has(c.got))
  BY <1>1, <1>3, IdAssumption DEF IsLayout, Has
<1> HIDE DEF w
<1>5. Call(d) /\ d.kind = "put" /\ d.by = c.by /\ d.body = w
  BY <1>4 DEF Call, Put
<1> HIDE DEF d
<1>6. LayoutsTyped'
  BY <1>1, <1>5 DEF LayoutsInv, LayoutsTyped
<1>7. LayoutsKept'
  BY <1>1, <1>4, <1>5 DEF LayoutsInv, LayoutsKept, Intact, Everywhere, Nowhere
<1>8. c.by # "dashboard" /\ d.by # "dashboard"
  BY <1>1, <1>5, IdAssumption
<1>9. LayoutsOwn' /\ LayoutsSettled'
  BY <1>1, <1>8 DEF LayoutsInv, LayoutsOwn, LayoutsSettled, OwnGet, OwnPut, Still
<1>10. LayoutsOnward
  BY <1>1 DEF LayoutsOnward
<1> QED BY <1>6, <1>7, <1>9, <1>10 DEF LayoutsInv

LEMMA LayoutsChartAnsweredStep ==
  ASSUME LayoutsInv, NEW c \in calls, Layouts!ChartAnswered(c)
  PROVE  LayoutsInv' /\ LayoutsOnward
<1>1. /\ c.by \in Chart /\ calls' = calls \ {c} /\ UNCHANGED <<page, server, log>>
      /\ page = "dashboard" => ui' = ui
  BY Zenon DEF Layouts!ChartAnswered, Layouts!On
<1>2. LayoutsTyped'
  BY <1>1 DEF LayoutsInv, LayoutsTyped
<1>3. LayoutsKept'
  BY <1>1 DEF LayoutsInv, LayoutsKept, Intact, Everywhere, Nowhere
<1>4. c.by # "dashboard"
  BY <1>1, IdAssumption
<1>5. LayoutsOwn' /\ LayoutsSettled' /\ LayoutsOnward
  BY <1>1, <1>4 DEF LayoutsInv, LayoutsOwn, LayoutsSettled, OwnGet, OwnPut, Still, LayoutsOnward
<1> QED BY <1>2, <1>3, <1>5 DEF LayoutsInv

\* Another page is opened: what goes on is a write, or the explorer's read.
LEMMA LayoutsGoToStep ==
  ASSUME LayoutsInv, NEW p \in Layouts!Pages, Layouts!GoTo(p)
  PROVE  LayoutsInv' /\ LayoutsOnward
<1> DEFINE r == [kind |-> "get", by |-> "dashboard", st |-> "sent", got |-> Layouts!Empty]
           left == {[c EXCEPT !.by = "left"] : c \in Layouts!OwnSaves}
<1>1. /\ page' = p /\ UNCHANGED server
      /\ p = "dashboard" => ui' = Layouts!Opened
      /\ \A c \in calls' : \/ c \in calls /\ c.by # "dashboard"
                           \/ c \in left
                           \/ c = r /\ p = "dashboard"
      /\ log' = [log EXCEPT !.visits = log.visits + 1, !.raced = FALSE]
  BY Zenon DEF Layouts!GoTo, Layouts!OpenedOn, Layouts!FirstRead
<1>2. Log(log) /\ log.visits + 1 \in Nat
  BY DEF LayoutsInv, LayoutsTyped, Log
<1>3. \A c \in left : /\ Call(c) /\ c.kind = "put" /\ c.by = "left"
                      /\ \E d \in calls : d.kind = "put" /\ d.body = c.body
  <2> SUFFICES ASSUME NEW d \in calls, d.kind = "put", NEW c, c = [d EXCEPT !.by = "left"]
               PROVE  Call(c) /\ c.kind = "put" /\ c.by = "left" /\ d.body = c.body
    BY DEF Layouts!OwnSaves
  <2>1. Call(d)
    BY DEF LayoutsInv, LayoutsTyped
  <2> QED BY <2>1 DEF Call, Get, Put
<1> HIDE DEF left
<1>4. Log(log') /\ log'.blind = log.blind /\ log'.removed = log.removed
  BY <1>1, <1>2 DEF Log
<1>5. Call(r) /\ r.kind = "get" /\ r.st = "sent" /\ r.by = "dashboard"
  BY LayoutFacts DEF Call, Get
<1> HIDE DEF r
<1>6. Grid(Layouts!Opened) /\ ~Layouts!Opened.timer /\ ~Layouts!Opened.loaded
        /\ Layouts!Opened.save = "idle"
      /\ Layouts!Opened.previous = {} /\ Layouts!Opened.widgets = Layouts!DefaultWidgets
  BY LayoutFacts DEF Grid, Layouts!Opened
<1>7. LayoutsTyped'
  BY <1>1, <1>3, <1>4, <1>5, <1>6 DEF LayoutsInv, LayoutsTyped
<1>8. LayoutsKept'
  BY <1>1, <1>3, <1>4, <1>5, <1>6, LayoutFacts DEF LayoutsInv, LayoutsKept, Intact, Everywhere,
         Nowhere
<1>9. LayoutsOwn' /\ LayoutsSettled'
  BY <1>1, <1>3, <1>5, <1>6 DEF LayoutsOwn, LayoutsSettled, OwnGet, OwnPut, Still
<1>10. LayoutsOnward
  BY <1>1 DEF LayoutsOnward
<1> QED BY <1>7, <1>8, <1>9, <1>10 DEF LayoutsInv

LEMMA LayoutsNextInv == ASSUME LayoutsInv, [Layouts!Next]_vars PROVE LayoutsInv' /\ LayoutsOnward
<1>1. ASSUME UNCHANGED vars PROVE LayoutsInv' /\ LayoutsOnward
  <2>1. UNCHANGED <<page, server, ui, calls, log>>
    BY <1>1 DEF vars
  <2> QED BY <2>1 DEF LayoutsInv, LayoutsTyped, LayoutsKept, Intact, Everywhere, Nowhere,
                 LayoutsOwn, LayoutsSettled, OwnGet, OwnPut, Still, LayoutsOnward
<1> QED BY <1>1, LayoutsServeStep, LayoutsLoseStep, LayoutsLoadsStep, LayoutsNotLoadsStep,
           LayoutsEditsStep, LayoutsCustomizeStep, LayoutsSaveTimerStep,
           LayoutsSaveAnsweredStep, LayoutsAddToDashboardStep, LayoutsAppendStep,
             LayoutsChartAnsweredStep, LayoutsGoToStep DEF Layouts!Next

-----------------------------------------------------------------------------
(* The compliance page and the widgets.  What they say of an agent is said  *)
(* of sequences: a page, and every request, has a finite list of agents.    *)

FleetPages == {"compliance", "widgets"}
FleetCall  == [st : {"sent", "half", "ok"}, agents : Seq(Profiles), alerted : SUBSET Nat, total : Nat]

\* What an answer says of the alerts: no more agents than alerts, and if no
\* alert was left out, all the agents that have one.
AlertsTold(u) ==
  /\ IsFiniteSet(u.alerted) /\ Cardinality(u.alerted) <= u.total
  /\ u.total <= AlertLimit => \A i \in DOMAIN u.agents : i \in u.alerted <=> u.agents[i].alerts
\* Agents only come on: a list read before is where the list now begins.
Begins(agents) == Len(agents) <= Len(server) /\ \A i \in DOMAIN agents : agents[i] = server[i]

FleetInv ==
  /\ page \in FleetPages
  /\ server \in Seq(Profiles)
  /\ ui \in [agents : Seq(Profiles), alerted : SUBSET Nat, total : Nat, error : BOOLEAN]
  /\ calls \subseteq FleetCall
  /\ AlertsTold(ui)
  /\ \A c \in calls : /\ c.st = "half" => Begins(c.agents)
                      /\ c.st = "ok" => AlertsTold(c)

\* Fleet counts as we do.
LEMMA CountsSame == \A S : FleetViews!Cardinality(S) = Cardinality(S)
<1> SUFFICES ASSUME NEW S PROVE FleetViews!Cardinality(S) = Cardinality(S)
  OBVIOUS
<1> QED BY DEF FleetViews!Cardinality, Cardinality

\* Positions in a list can be counted.
LEMMA PositionsFinite ==
  ASSUME NEW S, NEW s \in Seq(S), NEW T \in SUBSET DOMAIN s
  PROVE  IsFiniteSet(T) /\ Cardinality(T) \in Nat /\ T \subseteq Nat
<1>1. DOMAIN s = 1..Len(s) /\ Len(s) \in Nat
  BY LenProperties
<1>2. IsFiniteSet(DOMAIN s)
  BY <1>1, FS_Interval
<1>3. IsFiniteSet(T)
  BY <1>2, FS_Subset
<1> QED BY <1>1, <1>3, FS_CardinalityType

LEMMA AlertsRead ==
  ASSUME server \in Seq(Profiles)
  PROVE  /\ FleetViews!Alerted(server) \in SUBSET Nat /\ FleetViews!OpenAlerts(server) \in Nat
         /\ \A agents \in Seq(Profiles) : Begins(agents) =>
              AlertsTold([st |-> "ok", agents |-> agents, alerted |-> FleetViews!Alerted(server),
                          total |-> FleetViews!OpenAlerts(server)])
<1> DEFINE with == {i \in DOMAIN server : server[i].alerts}
           later(i) == {j \in i..Len(server) : server[j].alerts}
           alerted == FleetViews!Alerted(server)
<1>1. DOMAIN server = 1..Len(server) /\ Len(server) \in Nat
  BY LenProperties
<1>2. \A i \in DOMAIN server : later(i) \in SUBSET with /\ later(i) \in SUBSET DOMAIN server
  BY <1>1
<1>3. alerted = {i \in with : Cardinality(later(i)) <= AlertLimit}
  BY CountsSame DEF FleetViews!Alerted
<1>4. FleetViews!OpenAlerts(server) = Cardinality(with)
  BY CountsSame DEF FleetViews!OpenAlerts, FleetViews!Count, FleetViews!Indices
<1>5. with \in SUBSET DOMAIN server /\ alerted \in SUBSET with
  BY <1>3
<1>6. IsFiniteSet(with) /\ Cardinality(with) \in Nat /\ with \subseteq Nat
  BY <1>5, PositionsFinite
<1>7. IsFiniteSet(alerted) /\ Cardinality(alerted) <= Cardinality(with)
  BY <1>5, <1>6, FS_Subset
<1>8. ASSUME Cardinality(with) <= AlertLimit PROVE with \subseteq alerted
  <2> SUFFICES ASSUME NEW i \in with PROVE Cardinality(later(i)) <= AlertLimit
    BY <1>3
  <2>1. later(i) \in SUBSET with
    BY <1>2
  <2>2. Cardinality(later(i)) \in Nat /\ Cardinality(later(i)) <= Cardinality(with)
    <3> HIDE DEF with, later
    <3> QED BY <1>6, <2>1, FS_Subset, FS_CardinalityType
  <2> HIDE DEF with, later
  <2> QED BY <1>6, <1>8, <2>2, FleetAssumption
<1>9. ASSUME NEW agents \in Seq(Profiles), Begins(agents)
      PROVE  AlertsTold([st |-> "ok", agents |-> agents, alerted |-> alerted, total |-> Cardinality(with)])
  <2>1. \A i \in DOMAIN agents : i \in DOMAIN server /\ agents[i] = server[i]
    <3>1. DOMAIN agents = 1..Len(agents) /\ Len(agents) \in Nat
      BY LenProperties
    <3> QED BY <1>1, <1>9, <3>1 DEF Begins
  <2>2. Cardinality(with) <= AlertLimit => \A i \in DOMAIN agents : i \in alerted <=> agents[i].alerts
    <3> SUFFICES ASSUME Cardinality(with) <= AlertLimit, NEW i \in DOMAIN agents
                 PROVE  i \in alerted <=> agents[i].alerts
      OBVIOUS
    <3>1. alerted = with
      BY <1>5, <1>8
    <3> QED BY <2>1, <3>1
  <2> QED BY <1>7, <2>2 DEF AlertsTold
<1> QED BY <1>4, <1>5, <1>6, <1>9

LEMMA FleetInitInv == FleetViews!Init => FleetInv
<1>1. <<>> \in Seq(Profiles)
  BY EmptySeq
<1>2. IsFiniteSet({}) /\ Cardinality({}) = 0
  BY FS_EmptySet
<1>3. ASSUME FleetViews!Init PROVE FleetInv
  <2>1. /\ page \in FleetPages /\ server = <<>>
        /\ ui = [agents |-> <<>>, alerted |-> {}, total |-> 0, error |-> FALSE]
        /\ calls = {[st |-> "sent", agents |-> <<>>, alerted |-> {}, total |-> 0]}
    BY <1>3 DEF FleetViews!Init, FleetPages
  <2>2. AlertsTold(ui)
    <3>1. ui.agents = <<>> /\ ui.alerted = {} /\ ui.total = 0 /\ DOMAIN <<>> = {}
      BY <2>1
    <3> QED BY <1>2, <3>1 DEF AlertsTold
  <2>3. ui \in [agents : Seq(Profiles), alerted : SUBSET Nat, total : Nat, error : BOOLEAN]
    BY <1>1, <2>1
  <2>4. calls \subseteq FleetCall /\ \A c \in calls : c.st = "sent"
    BY <1>1, <2>1 DEF FleetCall
  <2>5. server \in Seq(Profiles)
    BY <1>1, <2>1
  <2> HIDE <1>3
  <2> QED BY <2>1, <2>2, <2>3, <2>4, <2>5 DEF FleetInv
<1> QED BY <1>3

LEMMA FleetNextInv == ASSUME FleetInv, [FleetViews!Next]_vars PROVE FleetInv'
<1> USE DEF FleetInv
<1>1. CASE UNCHANGED vars
  BY <1>1 DEF vars, AlertsTold, Begins
<1>2. ASSUME NEW a \in Profiles, FleetViews!Enroll(a) PROVE FleetInv'
  <2>1. Append(server, a) \in Seq(Profiles) /\ Len(Append(server, a)) = Len(server) + 1
        /\ \A i \in 1..Len(server) : Append(server, a)[i] = server[i]
    BY <1>2, AppendProperties
  <2>2. UNCHANGED <<page, ui, calls>> /\ server' = Append(server, a)
    BY <1>2 DEF FleetViews!Enroll
  <2>3. ASSUME NEW c \in calls, c.st = "half" PROVE Begins(c.agents)'
    <3>1. c.agents \in Seq(Profiles) /\ Begins(c.agents)
      BY <2>3 DEF FleetCall
    <3>2. DOMAIN c.agents = 1..Len(c.agents) /\ Len(c.agents) \in Nat /\ Len(server) \in Nat
      BY <3>1, LenProperties
    <3> QED BY <2>1, <2>2, <3>1, <3>2 DEF Begins
  <2> QED BY <2>1, <2>2, <2>3 DEF AlertsTold
<1>3. CASE FleetViews!Poll
  <2> DEFINE c == [st |-> "sent", agents |-> <<>>, alerted |-> {}, total |-> 0]
  <2>1. c \in FleetCall
    BY EmptySeq DEF FleetCall
  <2>2. UNCHANGED <<page, server, ui>> /\ calls' = calls \cup {c}
    BY <1>3 DEF FleetViews!Poll
  <2>3. c.st = "sent"
    OBVIOUS
  <2> HIDE DEF c
  <2>4. \A d \in calls' : d \in FleetCall /\ (d \in calls \/ d.st = "sent")
    BY <2>1, <2>2, <2>3
  <2> QED BY <2>2, <2>4 DEF AlertsTold, Begins
<1>4. ASSUME NEW c \in calls, FleetViews!AgentsRead(c) PROVE FleetInv'
  <2> DEFINE d == [c EXCEPT !.st = "half", !.agents = server]
  <2>1. d \in FleetCall /\ d.st = "half" /\ d.agents = server
    BY DEF FleetCall
  <2>2. UNCHANGED <<page, server, ui>> /\ calls' = (calls \ {c}) \cup {d}
    BY <1>4 DEF FleetViews!AgentsRead
  <2>3. Begins(d.agents)
    BY <2>1, LenProperties DEF Begins
  <2> HIDE DEF d
  <2> QED BY <2>1, <2>2, <2>3 DEF AlertsTold, Begins
<1>5. ASSUME NEW c \in calls, FleetViews!AlertsRead(c) PROVE FleetInv'
  <2> DEFINE d == [c EXCEPT !.st = "ok", !.alerted = FleetViews!Alerted(server),
                            !.total = FleetViews!OpenAlerts(server)]
  <2>1. d \in FleetCall /\ d.st = "ok"
    BY AlertsRead DEF FleetCall
  <2>2. UNCHANGED <<page, server, ui>> /\ calls' = (calls \ {c}) \cup {d} /\ c.st = "half"
    BY <1>5 DEF FleetViews!AlertsRead
  <2>3. AlertsTold(d)
    <3>1. c.agents \in Seq(Profiles) /\ Begins(c.agents)
      BY <2>2 DEF FleetCall
    <3>2. AlertsTold([st |-> "ok", agents |-> c.agents, alerted |-> FleetViews!Alerted(server),
                      total |-> FleetViews!OpenAlerts(server)])
      BY <3>1, AlertsRead
    <3>3. c \in FleetCall
      OBVIOUS
    <3> QED BY <3>2, <3>3 DEF AlertsTold, FleetCall
  <2> HIDE DEF d
  <2> QED BY <2>1, <2>2, <2>3 DEF AlertsTold, Begins
<1>6. ASSUME NEW c \in calls, FleetViews!PollFails(c) PROVE FleetInv'
  BY <1>6 DEF FleetViews!PollFails, AlertsTold, Begins
<1>7. ASSUME NEW c \in calls, FleetViews!ComplianceLoads(c) \/ FleetViews!WidgetsLoad(c) PROVE FleetInv'
  <2>1. /\ ui' = [agents |-> c.agents, alerted |-> c.alerted, total |-> c.total, error |-> FALSE]
        /\ calls' = calls \ {c} /\ page' = page /\ server' = server /\ c.st = "ok"
    BY <1>7 DEF FleetViews!ComplianceLoads, FleetViews!WidgetsLoad
  <2>2. c \in FleetCall /\ AlertsTold(c)
    BY <2>1
  <2> QED BY <2>1, <2>2 DEF FleetCall, AlertsTold, Begins
<1> QED BY <1>1, <1>2, <1>3, <1>4, <1>5, <1>6, <1>7 DEF FleetViews!Next

\* A score is rounded, but four checks are few enough: an agent that fails one
\* is not at 100 %.
LEMMA OneFailureShows ==
  ASSUME NEW fleet, NEW i, NEW alerted, NEW id \in FleetViews!Checks,
         FleetViews!Check(id, fleet, i, alerted) = "fail"
  PROVE  FleetViews!Score(fleet, i, alerted) # 100
<1> DEFINE status(s) == {k \in FleetViews!Checks : FleetViews!Check(k, fleet, i, alerted) = s}
           applicable == FleetViews!Checks \ status("unknown")
           p == Cardinality(status("pass"))
           n == Cardinality(applicable)
<1>1. IsFiniteSet(FleetViews!Checks) /\ Cardinality(FleetViews!Checks) <= 4
  <2> DEFINE A == {} \cup {"enforcing"}
             B == A \cup {"connected"}
             C == B \cup {"policy"}
             D == C \cup {"no_open_alerts"}
  <2>1. IsFiniteSet({}) /\ Cardinality({}) = 0
    BY FS_EmptySet
  <2>2. IsFiniteSet(A) /\ Cardinality(A) = 1
    <3>1. A = {"enforcing"}
      OBVIOUS
    <3> QED BY <3>1, FS_Singleton
  <2> HIDE DEF A
  <2>3. IsFiniteSet(B) /\ Cardinality(B) \in Nat /\ Cardinality(B) <= 2
    BY <2>2, FS_AddElement
  <2> HIDE DEF B
  <2>4. IsFiniteSet(C) /\ Cardinality(C) \in Nat /\ Cardinality(C) <= 3
    <3>1. IsFiniteSet(C) /\ Cardinality(C) \in {Cardinality(B), Cardinality(B) + 1}
      BY <2>3, FS_AddElement
    <3> QED BY <2>3, <3>1
  <2> HIDE DEF C
  <2>5. IsFiniteSet(D) /\ Cardinality(D) <= 4
    BY <2>4, FS_AddElement
  <2>6. D = FleetViews!Checks
    BY DEF A, B, C, FleetViews!Checks
  <2> QED BY <2>5, <2>6
<1>2. id \in applicable /\ status("pass") \in SUBSET (applicable \ {id})
  OBVIOUS
<1>3. IsFiniteSet(applicable) /\ n \in Nat /\ n <= 4
  BY <1>1, FS_Subset, FS_CardinalityType
<1> HIDE DEF status, applicable
<1>4. IsFiniteSet(applicable \ {id}) /\ Cardinality(applicable \ {id}) = n - 1
  BY <1>2, <1>3, FS_RemoveElement
<1>5. p \in Nat /\ p <= n - 1
  BY <1>2, <1>4, FS_Subset, FS_CardinalityType
<1>6. FleetViews!Score(fleet, i, alerted) = FleetViews!RoundDiv(100 * p, n)
  BY CountsSame DEF FleetViews!Score, status, applicable
<1> HIDE DEF p, n
<1>7. n \in {1, 2, 3, 4}
  BY <1>3, <1>5
<1>8. (2 * (100 * p) + n) \div (2 * n) # 100
  BY <1>5, <1>7
<1> QED BY <1>6, <1>8 DEF FleetViews!RoundDiv

LEMMA NotAtMost == \A a, b \in Nat : ~(a <= b) => a > b
  OBVIOUS

\* Whoever has not the value of the majority has one that fewer have.
LEMMA MinorityIsOutnumbered ==
  ASSUME NEW S, NEW values \in Seq(S), NEW i \in DOMAIN values, FleetViews!Minority(values, i)
  PROVE  \E v \in FleetViews!Range(values) \ {""} :
           Cardinality({j \in DOMAIN values : values[j] = v})
             > Cardinality({j \in DOMAIN values : values[j] = values[i]})
<1> DEFINE n(v) == Cardinality({j \in DOMAIN values : values[j] = v})
           all  == {values[j] : j \in DOMAIN values}
           used == all \ {""}
           top  == {v \in used : \A w \in used : n(w) <= n(v)}
<1>1. FleetViews!Range(values) = all
  BY DEF FleetViews!Range
<1>2. \A v : n(v) \in Nat
  BY PositionsFinite
<1>3. FleetViews!Majority(values) =
        IF Cardinality(used) < 2 \/ Cardinality(top) # 1 THEN FleetViews!NoMajority
        ELSE CHOOSE v \in top : TRUE
  <2> DEFINE m(v)  == FleetViews!Cardinality({j \in DOMAIN values : values[j] = v})
             most == {v \in FleetViews!Range(values) \ {""} :
                        \A w \in FleetViews!Range(values) \ {""} : m(w) <= m(v)}
  <2>1. FleetViews!Majority(values) =
          IF FleetViews!Cardinality(FleetViews!Range(values) \ {""}) < 2
               \/ FleetViews!Cardinality(most) # 1
          THEN FleetViews!NoMajority
          ELSE CHOOSE v \in most : TRUE
    BY DEF FleetViews!Majority, FleetViews!Count, FleetViews!Indices
  <2>2. \A v : m(v) = n(v)
    BY CountsSame
  <2> HIDE DEF m, n
  <2>3. most = top
    BY <1>1, <2>2
  <2> HIDE DEF most, top, used
  <2>4. FleetViews!Range(values) \ {""} = used
    BY <1>1 DEF used
  <2> QED BY <2>1, <2>3, <2>4, CountsSame
<1>4. FleetViews!Majority(values) # FleetViews!NoMajority
      /\ values[i] # "" /\ values[i] # FleetViews!Majority(values)
  BY DEF FleetViews!Minority
<1>5. Cardinality(top) = 1 /\ FleetViews!Majority(values) = CHOOSE v \in top : TRUE
  BY <1>3, <1>4
<1>6. IsFiniteSet(all)
  <2>1. IsFiniteSet(DOMAIN values)
    BY PositionsFinite
  <2>2. DOMAIN values = 1..Len(values) /\ Len(values) \in Nat
    BY LenProperties
  <2>3. values \in Surjection(DOMAIN values, all)
    BY <2>2 DEF Surjection
  <2> QED BY <2>1, <2>3, FS_Surjection
<1>7. IsFiniteSet(top)
  <2>1. top \in SUBSET all
    OBVIOUS
  <2> QED BY <1>6, <2>1, FS_Subset
<1>8. PICK x : top = {x}
  BY <1>5, <1>7, FS_Singleton
<1>9. FleetViews!Majority(values) = x
  BY <1>5, <1>8
<1>10. values[i] \in used /\ values[i] \notin top
  BY <1>4, <1>8, <1>9
<1>11. PICK w \in used : ~(n(w) <= n(values[i]))
  BY <1>10
<1>12. n(w) > n(values[i])
  <2>1. n(w) \in Nat /\ n(values[i]) \in Nat
    BY <1>2
  <2> HIDE DEF n
  <2> QED BY <2>1, <1>11, NotAtMost, Zenon
<1> QED BY <1>1, <1>12

\* What a page draws of an agent is what OneVerdictPerAgent says.
LEMMA FleetInvImplies == ASSUME FleetInv PROVE FleetViews!OneVerdictPerAgent
<1> SUFFICES ASSUME NEW i \in DOMAIN ui.agents
             PROVE  LET why == FleetViews!Reasons(ui.agents, i)
                        Outnumbered(values) ==
                          LET like(v) == FleetViews!Count(values, LAMBDA w : w = v) IN
                          \E v \in FleetViews!Range(values) \ {""} : like(v) > like(values[i])
                    IN /\ FleetViews!Score(ui.agents, i, ui.alerted) = 100 =>
                            /\ {"offline", "permissive"} \cap why = {}
                            /\ "disabled" \in why => ui.agents[i].mode = "unknown"
                       /\ "outdated" \in why => Outnumbered(FleetViews!Versions(ui.agents))
                       /\ "policyMismatch" \in why => Outnumbered(FleetViews!PolicyVersions(ui.agents))
  BY DEF FleetViews!OneVerdictPerAgent
<1> DEFINE why == FleetViews!Reasons(ui.agents, i)
           checked(id) == FleetViews!Check(id, ui.agents, i, ui.alerted)
           outnumbered(values) ==
             \E v \in FleetViews!Range(values) \ {""} :
               Cardinality({j \in DOMAIN values : values[j] = v})
                 > Cardinality({j \in DOMAIN values : values[j] = values[i]})
<1>1. /\ "offline" \in why => checked("connected") = "fail"
      /\ "permissive" \in why => checked("enforcing") = "fail"
      /\ "disabled" \in why /\ ui.agents[i].mode # "unknown" => checked("enforcing") = "fail"
  BY DEF FleetViews!Reasons, FleetViews!Check
<1>2. /\ "outdated" \in why => FleetViews!Minority(FleetViews!Versions(ui.agents), i)
      /\ "policyMismatch" \in why => FleetViews!Minority(FleetViews!PolicyVersions(ui.agents), i)
  BY DEF FleetViews!Reasons
<1>3. ASSUME NEW id \in FleetViews!Checks, checked(id) = "fail"
      PROVE  FleetViews!Score(ui.agents, i, ui.alerted) # 100
  BY <1>3, OneFailureShows
<1>4. {"connected", "enforcing"} \subseteq FleetViews!Checks
  BY DEF FleetViews!Checks
<1>5. ui.agents \in Seq(Profiles)
  BY DEF FleetInv
<1>6. /\ FleetViews!Versions(ui.agents) \in Seq({ui.agents[j].version : j \in DOMAIN ui.agents})
      /\ i \in DOMAIN FleetViews!Versions(ui.agents)
  BY <1>5, LenProperties, SeqDef DEF FleetViews!Versions
<1>7. /\ FleetViews!PolicyVersions(ui.agents)
           \in Seq({ui.agents[j].policyVersion : j \in DOMAIN ui.agents})
      /\ i \in DOMAIN FleetViews!PolicyVersions(ui.agents)
  BY <1>5, LenProperties, SeqDef DEF FleetViews!PolicyVersions
<1>8. /\ "outdated" \in why => outnumbered(FleetViews!Versions(ui.agents))
      /\ "policyMismatch" \in why => outnumbered(FleetViews!PolicyVersions(ui.agents))
  BY <1>2, <1>6, <1>7, MinorityIsOutnumbered
<1>9. FleetViews!Score(ui.agents, i, ui.alerted) = 100 =>
        /\ {"offline", "permissive"} \cap why = {}
        /\ "disabled" \in why => ui.agents[i].mode = "unknown"
  BY <1>1, <1>3, <1>4
<1> HIDE DEF checked
<1> HIDE DEF why
<1> QED BY <1>8, <1>9, CountsSame DEF why, FleetViews!Count, FleetViews!Indices

-----------------------------------------------------------------------------
(* The layouts made for a screen.                                          *)

AnyKind    == Tilings!Tiles \cup Tilings!Panels \cup {"chart"}
Cells      == [x : Nat, y : Nat, w : Nat, h : Nat]
Placements == [kind : AnyKind, cell : Cells, limit : Int]

\* Cells fill a screen of so many rows.
Tiled(S, rows) ==
  /\ \A c \in S : c.x + c.w <= GridCols /\ c.y + c.h <= rows
  /\ \A c, d \in S : c # d => Tilings!Disjoint(c, d)
  /\ \A x \in 0..(GridCols - 1), y \in 0..(rows - 1) : \E c \in S : Tilings!Covers(c, x, y)

\* what is in a cell fits there
Suits(p) ==
  /\ Tilings!Fits(p.kind, p.cell)
  /\ p.kind = "list" => p.limit * 38 <= p.cell.h * Tilings!RowPitch - 75

Filled(P, rows) ==
  /\ Tiled({p.cell : p \in P}, rows)
  /\ \A p \in P : Suits(p)
  /\ \A p, q \in P : p.cell = q.cell => p = q

TilingTyped ==
  ui \in [step : {"choose", "split", "done"}, rows : Nat, target : Targets \cup {0},
          cells : SUBSET Cells, placed : SUBSET Placements,
          used : [Tilings!Tiles \cup Tilings!Panels -> Nat]]

\* While cells are cut and dressed, they fill the screen, none is too small,
\* and each is dressed once with what fits; when all are dressed, so do those.
Cut ==
  ui.step = "split" =>
    /\ Tiled(ui.cells, ui.rows)
    /\ \A c \in ui.cells : c.w >= Tilings!Smallest /\ c.h >= Tilings!Smallest
    /\ \A p \in ui.placed : p.cell \in ui.cells /\ Suits(p)
    /\ \A p, q \in ui.placed : p.cell = q.cell => p = q

Dressed == ui.step = "done" => Filled(ui.placed, ui.rows)
Chosen  == ui.step = "choose" => ui.placed = {}

TilingInv == page = "tiling" /\ TilingTyped /\ Chosen /\ Cut /\ Dressed

LEMMA TilingInitInv == Tilings!Init => TilingInv
<1> SUFFICES ASSUME Tilings!Init PROVE TilingInv
  OBVIOUS
<1> DEFINE u == [k \in Tilings!Tiles \cup Tilings!Panels |-> 0]
<1>1. u \in [Tilings!Tiles \cup Tilings!Panels -> Nat]
  OBVIOUS
<1>2. page = "tiling" /\ ui = [step |-> "choose", rows |-> 0, target |-> 0, cells |-> {},
                               placed |-> {}, used |-> u]
  BY DEF Tilings!Init
<1> HIDE DEF u
<1> QED BY <1>1, <1>2 DEF TilingInv, TilingTyped, Chosen, Cut, Dressed

\* A list asks for no more rows than its cell is high.
LEMMA ListFits ==
  ASSUME NEW kind \in AnyKind, NEW c \in Cells, Tilings!Fits(kind, c)
  PROVE  Suits(Tilings!Put(kind, c))
<1> DEFINE l == Tilings!FitLimit(kind, c.w, c.h)
<1>1. Tilings!Put(kind, c) = [kind |-> kind, cell |-> c, limit |-> l]
  BY DEF Tilings!Put
<1>2. ASSUME kind = "list" PROVE l * 38 <= c.h * Tilings!RowPitch - 75
  <2>1. c.h \in Nat /\ c.h >= 4
    BY <1>2 DEF Cells, Tilings!Fits, Tilings!MinSize
  <2>2. l = Tilings!Clamp((c.h * 43 - 75) \div 38, 2, 50)
    BY <1>2 DEF Tilings!FitLimit, Tilings!RowPitch
  <2> HIDE DEF l
  <2> QED BY <2>1, <2>2 DEF Tilings!Clamp, Tilings!RowPitch
<1> HIDE DEF l
<1> QED BY <1>1, <1>2 DEF Suits

LEMMA Puts ==
  ASSUME NEW kind \in AnyKind, NEW c \in Cells
  PROVE  /\ Tilings!Put(kind, c) \in Placements
         /\ Tilings!Put(kind, c).cell = c /\ Tilings!Put(kind, c).kind = kind
<1>1. Tilings!FitLimit(kind, c.w, c.h) \in Int
  <2>1. c.w \in Nat /\ c.h \in Nat
    BY DEF Cells
  <2>2. CASE kind = "list"
    BY <2>1, <2>2 DEF Tilings!FitLimit, Tilings!Clamp, Tilings!RowPitch
  <2>3. CASE kind = "vignettes"
    <3> DEFINE n == Tilings!FitLimit(kind, c.w, c.h)
               a == (c.w * 100 - 32) \div 136
               b == (c.h * Tilings!RowPitch - 75) \div 72
               AtLeast1(k) == IF k < 1 THEN 1 ELSE k
    <3>1. a \in Int /\ b \in Int
      BY <2>1 DEF Tilings!RowPitch
    <3>2. n = Tilings!Clamp(AtLeast1(a) * AtLeast1(b), 2, 50)
      BY <2>3 DEF Tilings!FitLimit
    <3> HIDE DEF a, b, n
    <3>3. AtLeast1(a) \in Int /\ AtLeast1(b) \in Int
      BY <3>1
    <3> HIDE DEF AtLeast1
    <3>4. AtLeast1(a) * AtLeast1(b) \in Int
      BY <3>3
    <3>5. n \in Int
      BY <3>2, <3>4 DEF Tilings!Clamp
    <3> QED BY <3>5 DEF n
  <2>4. CASE kind \notin {"list", "vignettes"}
    BY <2>4 DEF Tilings!FitLimit
  <2> QED BY <2>2, <2>3, <2>4
<1> QED BY <1>1 DEF Tilings!Put, Placements

\* A screen filled is what FillsScreen asks for.
LEMMA FilledScreen ==
  ASSUME NEW P, P \in SUBSET Placements, NEW rows \in Nat, Filled(P, rows)
  PROVE  /\ \A p \in P :
              /\ p.cell.x >= 0 /\ p.cell.x + p.cell.w <= GridCols
              /\ p.cell.y >= 0 /\ p.cell.y + p.cell.h <= rows
              /\ Tilings!Fits(p.kind, p.cell)
              /\ p.kind = "list" => p.limit * 38 <= p.cell.h * Tilings!RowPitch - 75
              /\ \A q \in P : p # q => Tilings!Disjoint(p.cell, q.cell)
         /\ \A x \in 0..(GridCols - 1), y \in 0..(rows - 1) :
              \E p \in P : Tilings!Covers(p.cell, x, y)
<1>1. \A p \in P : p.cell.x >= 0 /\ p.cell.y >= 0
  BY DEF Placements, Cells
<1>2. \A p \in P : p.cell.x + p.cell.w <= GridCols /\ p.cell.y + p.cell.h <= rows
  BY DEF Filled, Tiled
<1>3. \A p, q \in P : p # q => Tilings!Disjoint(p.cell, q.cell)
  BY DEF Filled, Tiled
<1>4. \A x \in 0..(GridCols - 1), y \in 0..(rows - 1) : \E p \in P : Tilings!Covers(p.cell, x, y)
  BY DEF Filled, Tiled
<1> QED BY <1>1, <1>2, <1>3, <1>4 DEF Filled, Suits

\* The cells a tiling has have room, and are found by what they cover.
LEMMA TilingOfHalves ==
  ASSUME NEW S, S \in SUBSET Cells, NEW rows \in Nat, Tiled(S, rows), NEW c \in S,
         NEW wide \in BOOLEAN, NEW a \in Nat,
         3 <= a, a <= (IF wide THEN c.w ELSE c.h) - 3,
         c.w >= 3, c.h >= 3
  PROVE  LET T == (S \ {c}) \cup Tilings!Halves(c, wide, a) IN
         /\ T \in SUBSET Cells /\ Tiled(T, rows)
         /\ \A d \in Tilings!Halves(c, wide, a) : d.w >= 3 /\ d.h >= 3
<1> DEFINE T == (S \ {c}) \cup Tilings!Halves(c, wide, a)
<1>0. c \in Cells
  OBVIOUS
<1>1. c.x \in Nat /\ c.y \in Nat /\ c.w \in Nat /\ c.h \in Nat
      /\ c.x + c.w <= GridCols /\ c.y + c.h <= rows /\ GridCols \in Nat
  BY ScreenAssumption DEF Cells, Tiled
<1>2. PICK l \in Cells, r \in Cells :
        /\ Tilings!Halves(c, wide, a) = {l, r}
        /\ wide => /\ l.x = c.x /\ l.w = a /\ r.x = c.x + a /\ r.w = c.w - a
                   /\ l.y = c.y /\ l.h = c.h /\ r.y = c.y /\ r.h = c.h
        /\ ~wide => /\ l.y = c.y /\ l.h = a /\ r.y = c.y + a /\ r.h = c.h - a
                    /\ l.x = c.x /\ l.w = c.w /\ r.x = c.x /\ r.w = c.w
  <2>1. CASE wide
    <3> DEFINE l == [c EXCEPT !.w = a]
               r == [c EXCEPT !.x = @ + a, !.w = @ - a]
    <3>1. c.w - a \in Nat /\ c.x + a \in Nat
      BY <1>1, <2>1
    <3>2. l \in Cells /\ l.x = c.x /\ l.w = a /\ l.y = c.y /\ l.h = c.h
      BY <1>0 DEF Cells
    <3>3. r \in Cells /\ r.x = c.x + a /\ r.w = c.w - a /\ r.y = c.y /\ r.h = c.h
      BY <1>0, <3>1 DEF Cells
    <3>4. Tilings!Halves(c, wide, a) = {l, r}
      BY <2>1 DEF Tilings!Halves
    <3> HIDE DEF l, r
    <3> QED BY <2>1, <3>2, <3>3, <3>4
  <2>2. CASE ~wide
    <3> DEFINE l == [c EXCEPT !.h = a]
               r == [c EXCEPT !.y = @ + a, !.h = @ - a]
    <3>1. c.h - a \in Nat /\ c.y + a \in Nat
      BY <1>1, <2>2
    <3>2. l \in Cells /\ l.y = c.y /\ l.h = a /\ l.x = c.x /\ l.w = c.w
      BY <1>0 DEF Cells
    <3>3. r \in Cells /\ r.y = c.y + a /\ r.h = c.h - a /\ r.x = c.x /\ r.w = c.w
      BY <1>0, <3>1 DEF Cells
    <3>4. Tilings!Halves(c, wide, a) = {l, r}
      BY <2>2 DEF Tilings!Halves
    <3> HIDE DEF l, r
    <3> QED BY <2>2, <3>2, <3>3, <3>4
  <2> QED BY <2>1, <2>2
<1>3. T = (S \ {c}) \cup {l, r}
  BY <1>2
<1> HIDE DEF T
<1>4. /\ l.x + l.w <= GridCols /\ l.y + l.h <= rows
      /\ r.x + r.w <= GridCols /\ r.y + r.h <= rows
      /\ l.w >= 3 /\ l.h >= 3 /\ r.w >= 3 /\ r.h >= 3
  BY <1>1, <1>2
<1>5. Tilings!Disjoint(l, r) /\ Tilings!Disjoint(r, l)
  BY <1>1, <1>2 DEF Tilings!Disjoint
<1>6. ASSUME NEW d \in Cells, Tilings!Disjoint(c, d)
      PROVE  /\ Tilings!Disjoint(l, d) /\ Tilings!Disjoint(d, l)
             /\ Tilings!Disjoint(r, d) /\ Tilings!Disjoint(d, r)
  BY <1>1, <1>2, <1>6 DEF Tilings!Disjoint, Cells
<1>7. ASSUME NEW x \in Int, NEW y \in Int, Tilings!Covers(c, x, y)
      PROVE  Tilings!Covers(l, x, y) \/ Tilings!Covers(r, x, y)
  BY <1>1, <1>2, <1>7 DEF Tilings!Covers
<1>8. Tiled(T, rows)
  <2>1. \A d \in T : d.x + d.w <= GridCols /\ d.y + d.h <= rows
    BY <1>3, <1>4 DEF Tiled
  <2>2. \A d, e \in T : d # e => Tilings!Disjoint(d, e)
    <3>1. \A d \in S \ {c} : d \in Cells /\ Tilings!Disjoint(c, d)
      BY DEF Tiled
    <3>2. \A d, e \in S \ {c} : d # e => Tilings!Disjoint(d, e)
      BY DEF Tiled
    <3> QED BY <1>3, <1>5, <1>6, <3>1, <3>2
  <2>3. ASSUME NEW x \in 0..(GridCols - 1), NEW y \in 0..(rows - 1)
        PROVE  \E d \in T : Tilings!Covers(d, x, y)
    <3>1. PICK d \in S : Tilings!Covers(d, x, y)
      BY DEF Tiled
    <3>2. CASE d # c
      BY <1>3, <3>1, <3>2
    <3>3. CASE d = c
      BY <1>3, <1>7, <3>1, <3>3
    <3> QED BY <3>2, <3>3
  <2> QED BY <2>1, <2>2, <2>3 DEF Tiled
<1>9. T \in SUBSET Cells
  BY <1>2, <1>3
<1> QED BY <1>2, <1>4, <1>8, <1>9 DEF T

LEMMA SplitStep ==
  ASSUME TilingInv, NEW c \in ui.cells, NEW wide \in BOOLEAN, Tilings!Split(c, wide)
  PROVE  TilingInv'
<1> USE DEF TilingInv
<1>1. /\ ui.step = "split" /\ ui.placed = {}
      /\ UNCHANGED page
      /\ (IF wide THEN c.w ELSE c.h) >= 2 * Tilings!Smallest
  BY DEF Tilings!Split, Tilings!Splitting
<1>2. PICK a \in Tilings!Smallest..((IF wide THEN c.w ELSE c.h) - Tilings!Smallest) :
        ui' = [ui EXCEPT !.cells = (@ \ {c}) \cup Tilings!Halves(c, wide, a)]
  BY DEF Tilings!Split
<1> DEFINE T == (ui.cells \ {c}) \cup Tilings!Halves(c, wide, a)
<1>3. /\ ui.cells \in SUBSET Cells /\ ui.rows \in Nat /\ Tiled(ui.cells, ui.rows)
      /\ \A d \in ui.cells : d.w >= 3 /\ d.h >= 3
  BY <1>1 DEF TilingTyped, Cut, Tilings!Smallest
<1>4. c \in Cells /\ c.w \in Nat /\ c.h \in Nat /\ c.w >= 3 /\ c.h >= 3
  BY <1>3 DEF Cells
<1>5. a \in Nat /\ 3 <= a /\ a <= (IF wide THEN c.w ELSE c.h) - 3
  BY <1>4 DEF Tilings!Smallest
<1>6. /\ T \in SUBSET Cells /\ Tiled(T, ui.rows)
      /\ \A d \in Tilings!Halves(c, wide, a) : d.w >= 3 /\ d.h >= 3
  BY <1>3, <1>4, <1>5, TilingOfHalves
<1>7. \A d \in T : d.w >= 3 /\ d.h >= 3
  BY <1>3, <1>6
<1>8. ui' = [ui EXCEPT !.cells = T]
  BY <1>2
<1> HIDE DEF T
<1>9. /\ TilingTyped' /\ ui'.step = "split" /\ ui'.cells = T /\ ui'.placed = {} /\ ui'.rows = ui.rows
  BY <1>1, <1>6, <1>8 DEF TilingTyped
<1> QED BY <1>1, <1>6, <1>7, <1>9 DEF Chosen, Cut, Dressed, Tilings!Smallest

LEMMA DressStep ==
  ASSUME TilingInv, NEW c \in ui.cells, NEW k \in AnyKind, Tilings!Dress(c, k)
  PROVE  TilingInv'
<1> USE DEF TilingInv
<1> DEFINE p == Tilings!Put(k, c)
           done == Tilings!Bare = {c}
           u == [j \in Tilings!Tiles \cup Tilings!Panels |-> IF j = k THEN ui.used[j] + 1 ELSE ui.used[j]]
<1>1. ui.step = "split" /\ c \in Tilings!Bare /\ UNCHANGED page
  BY DEF Tilings!Dress, Tilings!Dressing
<1>2. ui' = [ui EXCEPT !.placed = @ \cup {p}, !.used = u,
                       !.step = IF done THEN "done" ELSE @]
  BY Zenon DEF Tilings!Dress
<1>3. /\ c \in Cells /\ Tiled(ui.cells, ui.rows) /\ c.w \in Nat /\ c.h \in Nat
      /\ c.w >= 3 /\ c.h >= 3
      /\ \A q \in ui.placed : q.cell \in ui.cells /\ Suits(q)
      /\ \A q, s \in ui.placed : q.cell = s.cell => q = s
  BY <1>1 DEF Cut, TilingTyped, Cells, Tilings!Smallest
<1>4. Tilings!Fits(k, c)
  <2>1. k \in Tilings!Kinds(c)
    BY DEF Tilings!Dress
  <2>2. Tilings!Fits("chart", c)
    BY <1>3 DEF Tilings!Fits, Tilings!MinSize
  <2>3. \A A, B : \A m \in Tilings!Pick(A, B, c) : Tilings!Fits(m, c)
    BY DEF Tilings!Pick, Tilings!Unused
  <2> QED BY <2>1, <2>2, <2>3 DEF Tilings!Kinds
<1>5. p \in Placements /\ p.cell = c /\ Suits(p)
  BY <1>3, <1>4, Puts, ListFits
<1>6. u \in [Tilings!Tiles \cup Tilings!Panels -> Nat]
  <2>1. ui.used \in [Tilings!Tiles \cup Tilings!Panels -> Nat]
    BY DEF TilingTyped
  <2> QED BY <2>1
<1>7a. ui' = [step |-> IF done THEN "done" ELSE "split", rows |-> ui.rows, target |-> ui.target,
              cells |-> ui.cells, placed |-> ui.placed \cup {p}, used |-> u]
  <2> HIDE DEF p, done, u
  <2> QED BY <1>1, <1>2 DEF TilingTyped
<1> HIDE DEF p, u
<1>7. /\ TilingTyped'
      /\ ui'.placed = ui.placed \cup {p} /\ ui'.cells = ui.cells /\ ui'.rows = ui.rows
      /\ ui'.step = IF done THEN "done" ELSE "split"
  BY <1>1, <1>7a, <1>5, <1>6 DEF TilingTyped
<1>8. \A q \in ui.placed : q.cell # c
  BY <1>1 DEF Tilings!Bare
<1>9. /\ \A q \in ui'.placed : q.cell \in ui.cells /\ Suits(q)
      /\ \A q, s \in ui'.placed : q.cell = s.cell => q = s
  BY <1>3, <1>5, <1>7, <1>8
<1>10. Chosen' /\ Cut'
  BY <1>1, <1>3, <1>7, <1>9, <1>1 DEF Chosen, Cut
<1>11. Dressed'
  <2> SUFFICES ASSUME done PROVE Filled(ui'.placed, ui'.rows)
    BY <1>7 DEF Dressed
  <2>1. {q.cell : q \in ui'.placed} = ui.cells
    BY <1>5, <1>7, <1>9 DEF Tilings!Bare
  <2> QED BY <1>3, <1>7, <1>9, <2>1 DEF Filled
<1> QED BY <1>1, <1>7, <1>10, <1>11

LEMMA RandomizeStep ==
  ASSUME TilingInv, NEW n \in Targets, NEW view \in ViewRows, Tilings!Randomize(n, view)
  PROVE  TilingInv'
<1> USE DEF TilingInv
<1> DEFINE rows == Tilings!Clamp(view, MinRows, MaxRandomRows)
           c == Tilings!Cell(0, 0, GridCols, rows)
<1>1. rows \in Nat /\ rows >= 3 /\ GridCols = 12
  BY ScreenAssumption DEF Tilings!Clamp
<1>2. /\ ui.step = "choose" /\ UNCHANGED page
      /\ ui' = [ui EXCEPT !.step = "split", !.rows = rows, !.target = n, !.cells = {c}]
  BY DEF Tilings!Randomize
<1> HIDE DEF rows
<1>3. /\ c \in Cells /\ c.x = 0 /\ c.y = 0 /\ c.w = 12 /\ c.h = rows
  BY <1>1 DEF Tilings!Cell, Cells
<1> HIDE DEF c
<1>4. Tiled({c}, rows)
  BY <1>1, <1>3 DEF Tiled, Tilings!Covers
<1>5. /\ TilingTyped' /\ ui'.step = "split" /\ ui'.rows = rows /\ ui'.cells = {c} /\ ui'.placed = {}
  BY <1>1, <1>2, <1>3 DEF TilingTyped, Chosen
<1> QED BY <1>1, <1>2, <1>3, <1>4, <1>5 DEF Chosen, Cut, Dressed, Tilings!Smallest

\* Where the bands of a template begin and end once stretched.
LEMMA Bands ==
  ASSUME NEW rows \in 15..28
  PROVE  \E a \in Nat, b \in Nat :
           /\ Tilings!Scaled(0, rows) = 0 /\ Tilings!Scaled(3, rows) = a
           /\ Tilings!Scaled(9, rows) = b /\ Tilings!Scaled(15, rows) = rows
           /\ a >= 3 /\ b >= a + 5 /\ rows >= b + 5
<1> DEFINE a == (6 * rows + 15) \div 30
           b == (18 * rows + 15) \div 30
<1>1. a \in Nat /\ b \in Nat /\ a >= 3 /\ b >= a + 5 /\ rows >= b + 5
  OBVIOUS
<1>2. (0 + 15) \div 30 = 0 /\ (30 * rows + 15) \div 30 = rows
  OBVIOUS
<1>3. /\ Tilings!Scaled(0, rows) = 0 /\ Tilings!Scaled(3, rows) = a
      /\ Tilings!Scaled(9, rows) = b /\ Tilings!Scaled(15, rows) = rows
  BY <1>2 DEF Tilings!Scaled, Tilings!BaseRows
<1> QED BY <1>1, <1>3

\* The cells of a template stretched to so many rows.
LEMMA Stretch ==
  ASSUME NEW rows \in 15..28
  PROVE  \E a \in Nat, b \in Nat :
           /\ a >= 3 /\ b >= a + 5 /\ rows >= b + 5
           /\ \A i \in 1..9 : Tilings!Stretched(Tilings!Skeleton[i], rows) =
                CASE i \in 1..4 -> [x |-> 3 * (i - 1), y |-> 0, w |-> 3, h |-> a]
                  [] i = 5 -> [x |-> 0, y |-> a, w |-> 8, h |-> b - a]
                  [] i = 6 -> [x |-> 8, y |-> a, w |-> 4, h |-> b - a]
                  [] i \in 7..9 -> [x |-> 4 * (i - 7), y |-> b, w |-> 4, h |-> rows - b]
<1>1. PICK a \in Nat, b \in Nat :
           /\ Tilings!Scaled(0, rows) = 0 /\ Tilings!Scaled(3, rows) = a
           /\ Tilings!Scaled(9, rows) = b /\ Tilings!Scaled(15, rows) = rows
           /\ a >= 3 /\ b >= a + 5 /\ rows >= b + 5
  BY Bands
<1>3. /\ Tilings!Skeleton[1] = [x |-> 0, y |-> 0, w |-> 3, h |-> 3]
      /\ Tilings!Skeleton[2] = [x |-> 3, y |-> 0, w |-> 3, h |-> 3]
      /\ Tilings!Skeleton[3] = [x |-> 6, y |-> 0, w |-> 3, h |-> 3]
      /\ Tilings!Skeleton[4] = [x |-> 9, y |-> 0, w |-> 3, h |-> 3]
      /\ Tilings!Skeleton[5] = [x |-> 0, y |-> 3, w |-> 8, h |-> 6]
      /\ Tilings!Skeleton[6] = [x |-> 8, y |-> 3, w |-> 4, h |-> 6]
      /\ Tilings!Skeleton[7] = [x |-> 0, y |-> 9, w |-> 4, h |-> 6]
      /\ Tilings!Skeleton[8] = [x |-> 4, y |-> 9, w |-> 4, h |-> 6]
      /\ Tilings!Skeleton[9] = [x |-> 8, y |-> 9, w |-> 4, h |-> 6]
  BY DEF Tilings!Skeleton, Tilings!Cell
<1>4. rows \in Nat /\ 0 + 3 = 3 /\ 3 + 6 = 9 /\ 9 + 6 = 15 /\ a - 0 = a
  BY <1>1
<1>5. ASSUME NEW x \in Nat, NEW w \in Nat
      PROVE  /\ Tilings!Stretched([x |-> x, y |-> 0, w |-> w, h |-> 3], rows) =
                  [x |-> x, y |-> 0, w |-> w, h |-> a]
             /\ Tilings!Stretched([x |-> x, y |-> 3, w |-> w, h |-> 6], rows) =
                  [x |-> x, y |-> a, w |-> w, h |-> b - a]
             /\ Tilings!Stretched([x |-> x, y |-> 9, w |-> w, h |-> 6], rows) =
                  [x |-> x, y |-> b, w |-> w, h |-> rows - b]
  <2>2. Tilings!Stretched([x |-> x, y |-> 0, w |-> w, h |-> 3], rows) =
          [x |-> x, y |-> Tilings!Scaled(0, rows), w |-> w,
           h |-> Tilings!Scaled(0 + 3, rows) - Tilings!Scaled(0, rows)]
    BY Zenon DEF Tilings!Stretched, Tilings!Cell
  <2>3. Tilings!Stretched([x |-> x, y |-> 3, w |-> w, h |-> 6], rows) =
          [x |-> x, y |-> Tilings!Scaled(3, rows), w |-> w,
           h |-> Tilings!Scaled(3 + 6, rows) - Tilings!Scaled(3, rows)]
    BY Zenon DEF Tilings!Stretched, Tilings!Cell
  <2>4. Tilings!Stretched([x |-> x, y |-> 9, w |-> w, h |-> 6], rows) =
          [x |-> x, y |-> Tilings!Scaled(9, rows), w |-> w,
           h |-> Tilings!Scaled(9 + 6, rows) - Tilings!Scaled(9, rows)]
    BY Zenon DEF Tilings!Stretched, Tilings!Cell
  <2> QED BY <1>1, <1>4, <2>2, <2>3, <2>4, Zenon
<1>6. /\ \A i \in 1..4 : Tilings!Stretched(Tilings!Skeleton[i], rows) =
                           [x |-> 3 * (i - 1), y |-> 0, w |-> 3, h |-> a]
      /\ Tilings!Stretched(Tilings!Skeleton[5], rows) = [x |-> 0, y |-> a, w |-> 8, h |-> b - a]
      /\ Tilings!Stretched(Tilings!Skeleton[6], rows) = [x |-> 8, y |-> a, w |-> 4, h |-> b - a]
      /\ \A i \in 7..9 : Tilings!Stretched(Tilings!Skeleton[i], rows) =
                           [x |-> 4 * (i - 7), y |-> b, w |-> 4, h |-> rows - b]
  <2>1. ASSUME NEW i \in 1..4
        PROVE  Tilings!Stretched(Tilings!Skeleton[i], rows) =
                 [x |-> 3 * (i - 1), y |-> 0, w |-> 3, h |-> a]
    <3>1. Tilings!Skeleton[i] = [x |-> 3 * (i - 1), y |-> 0, w |-> 3, h |-> 3]
      <4>1. i = 1 \/ i = 2 \/ i = 3 \/ i = 4
        OBVIOUS
      <4> QED BY <1>3, <4>1
    <3>2. 3 * (i - 1) \in Nat
      OBVIOUS
    <3> QED BY <1>5, <3>1, <3>2
  <2>2. ASSUME NEW i \in 7..9
        PROVE  Tilings!Stretched(Tilings!Skeleton[i], rows) =
                 [x |-> 4 * (i - 7), y |-> b, w |-> 4, h |-> rows - b]
    <3>1. Tilings!Skeleton[i] = [x |-> 4 * (i - 7), y |-> 9, w |-> 4, h |-> 6]
      <4>1. i = 7 \/ i = 8 \/ i = 9
        OBVIOUS
      <4> QED BY <1>3, <4>1
    <3>2. 4 * (i - 7) \in Nat
      OBVIOUS
    <3> QED BY <1>5, <3>1, <3>2
  <2>3. 0 \in Nat /\ 4 \in Nat /\ 8 \in Nat
    OBVIOUS
  <2>4. Tilings!Stretched(Tilings!Skeleton[5], rows) = [x |-> 0, y |-> a, w |-> 8, h |-> b - a]
    <3>1. Tilings!Stretched([x |-> 0, y |-> 3, w |-> 8, h |-> 6], rows) =
            [x |-> 0, y |-> a, w |-> 8, h |-> b - a]
      BY <1>5, <2>3
    <3> QED BY <1>3, <3>1
  <2>5. Tilings!Stretched(Tilings!Skeleton[6], rows) = [x |-> 8, y |-> a, w |-> 4, h |-> b - a]
    <3>1. Tilings!Stretched([x |-> 8, y |-> 3, w |-> 4, h |-> 6], rows) =
            [x |-> 8, y |-> a, w |-> 4, h |-> b - a]
      BY <1>5, <2>3
    <3> QED BY <1>3, <3>1
  <2> QED BY <2>1, <2>2, <2>4, <2>5
<1>7. \A i \in 1..9 : i \in 1..4 \/ i = 5 \/ i = 6 \/ i \in 7..9
  OBVIOUS
<1> QED BY <1>1, <1>6, <1>7

\* What a template puts where: number tiles and charts first, in the smallest cells.
LEMMA TemplateKinds ==
  ASSUME NEW kinds \in Tilings!Templates
  PROVE  /\ \A i \in 1..9 : kinds[i] \in AnyKind
         /\ \A i \in 1..4 : kinds[i] \in {"tile", "chart"}
<1> USE DEF AnyKind, Tilings!Tiles, Tilings!Panels
<1>1. CASE kinds = <<"tile", "tile", "tile", "tile", "trend", "panel", "list", "list", "list">>
  BY <1>1
<1>2. CASE kinds = <<"chart", "tile", "tile", "tile", "chart", "chart", "chart", "chart", "chart">>
  BY <1>2
<1>3. CASE kinds = <<"chart", "tile", "tile", "tile", "chart", "panel", "chart", "list", "list">>
  BY <1>3
<1>4. CASE kinds = <<"chart", "tile", "tile", "tile", "chart", "list", "chart", "chart", "panel">>
  BY <1>4
<1>5. CASE kinds = <<"chart", "tile", "tile", "tile", "vignettes", "chart", "chart", "chart", "chart">>
  BY <1>5
<1> QED BY <1>1, <1>2, <1>3, <1>4, <1>5 DEF Tilings!Templates

LEMMA TemplateFills ==
  ASSUME NEW kinds \in Tilings!Templates, NEW rows \in 15..28
  PROVE  /\ Tilings!PlaceTemplate(kinds, rows) \in SUBSET Placements
         /\ Filled(Tilings!PlaceTemplate(kinds, rows), rows)
<1> DEFINE cell(i) == Tilings!Stretched(Tilings!Skeleton[i], rows)
           put(i)  == Tilings!Put(kinds[i], cell(i))
           P == Tilings!PlaceTemplate(kinds, rows)
<1>1. P = {put(i) : i \in 1..9}
  <2>1. Len(Tilings!Skeleton) = 9
    BY DEF Tilings!Skeleton
  <2> QED BY <2>1, Zenon DEF Tilings!PlaceTemplate
<1>2. PICK a \in Nat, b \in Nat :
           /\ a >= 3 /\ b >= a + 5 /\ rows >= b + 5
           /\ \A i \in 1..9 : cell(i) =
                CASE i \in 1..4 -> [x |-> 3 * (i - 1), y |-> 0, w |-> 3, h |-> a]
                  [] i = 5 -> [x |-> 0, y |-> a, w |-> 8, h |-> b - a]
                  [] i = 6 -> [x |-> 8, y |-> a, w |-> 4, h |-> b - a]
                  [] i \in 7..9 -> [x |-> 4 * (i - 7), y |-> b, w |-> 4, h |-> rows - b]
  BY Stretch
<1> HIDE DEF cell, put, P
<1>3. rows \in Nat /\ b - a \in Nat /\ rows - b \in Nat /\ GridCols = 12
  BY <1>2, ScreenAssumption
<1>4. ASSUME NEW i \in 1..9
      PROVE  /\ cell(i) \in Cells
             /\ cell(i).x + cell(i).w <= 12 /\ cell(i).y + cell(i).h <= rows
             /\ i \in 1..4 => cell(i).w = 3 /\ cell(i).h >= 3
             /\ i \notin 1..4 => cell(i).w >= 4 /\ cell(i).h >= 5
  <2>1. CASE i \in 1..4
    <3>1. cell(i) = [x |-> 3 * (i - 1), y |-> 0, w |-> 3, h |-> a]
      BY <1>2, <2>1
    <3>2. 3 * (i - 1) \in Nat
      BY <2>1
    <3> QED BY <1>2, <1>3, <2>1, <3>1, <3>2 DEF Cells
  <2>2. CASE i = 5
    <3>1. cell(i) = [x |-> 0, y |-> a, w |-> 8, h |-> b - a]
      BY <1>2, <2>2
    <3> QED BY <1>2, <1>3, <2>2, <3>1 DEF Cells
  <2>3. CASE i = 6
    <3>1. cell(i) = [x |-> 8, y |-> a, w |-> 4, h |-> b - a]
      BY <1>2, <2>3
    <3> QED BY <1>2, <1>3, <2>3, <3>1 DEF Cells
  <2>4. CASE i \in 7..9
    <3>1. cell(i) = [x |-> 4 * (i - 7), y |-> b, w |-> 4, h |-> rows - b]
      BY <1>2, <2>4
    <3>2. 4 * (i - 7) \in Nat
      BY <2>4
    <3> QED BY <1>2, <1>3, <2>4, <3>1, <3>2 DEF Cells
  <2> QED BY <2>1, <2>2, <2>3, <2>4
<1>5. ASSUME NEW i \in 1..9
      PROVE  put(i) \in Placements /\ put(i).cell = cell(i) /\ Suits(put(i))
  <2>1. kinds[i] \in AnyKind /\ (i \in 1..4 => kinds[i] \in {"tile", "chart"})
    BY TemplateKinds
  <2>2. cell(i).w \in Nat /\ cell(i).h \in Nat
    BY <1>4 DEF Cells
  <2>3. Tilings!Fits(kinds[i], cell(i))
    <3>1. CASE i \in 1..4
      BY <1>4, <2>1, <2>2, <3>1 DEF Tilings!Fits, Tilings!MinSize
    <3>2. CASE i \notin 1..4
      BY <1>4, <2>1, <2>2, <3>2 DEF Tilings!Fits, Tilings!MinSize
    <3> QED BY <3>1, <3>2
  <2> QED BY <1>4, <2>1, <2>3, Puts, ListFits DEF put
<1>6. \A i, j \in 1..9 : i # j => Tilings!Disjoint(cell(i), cell(j)) /\ cell(i) # cell(j)
  BY <1>2, <1>3 DEF Tilings!Disjoint
<1>7. ASSUME NEW x \in 0..11, NEW y \in 0..(rows - 1)
      PROVE  \E i \in 1..9 : Tilings!Covers(cell(i), x, y)
  <2>1. CASE y < a
    <3>1. PICK i \in 1..4 : 3 * (i - 1) <= x /\ x < 3 * (i - 1) + 3
      <4>1. x < 3 \/ x \in 3..5 \/ x \in 6..8 \/ x \in 9..11
        OBVIOUS
      <4> QED BY <4>1
    <3>2. cell(i) = [x |-> 3 * (i - 1), y |-> 0, w |-> 3, h |-> a]
      BY <1>2
    <3> QED BY <1>2, <2>1, <3>1, <3>2 DEF Tilings!Covers
  <2>2. CASE a <= y /\ y < b
    <3>1. cell(5) = [x |-> 0, y |-> a, w |-> 8, h |-> b - a]
          /\ cell(6) = [x |-> 8, y |-> a, w |-> 4, h |-> b - a]
      BY <1>2
    <3>2. x < 8 => Tilings!Covers(cell(5), x, y)
      BY <1>2, <2>2, <3>1 DEF Tilings!Covers
    <3>3. ~(x < 8) => Tilings!Covers(cell(6), x, y)
      BY <1>2, <2>2, <3>1 DEF Tilings!Covers
    <3> QED BY <3>2, <3>3
  <2>3. CASE b <= y
    <3>1. PICK i \in 7..9 : 4 * (i - 7) <= x /\ x < 4 * (i - 7) + 4
      <4>1. x < 4 \/ x \in 4..7 \/ x \in 8..11
        OBVIOUS
      <4> QED BY <4>1
    <3>2. cell(i) = [x |-> 4 * (i - 7), y |-> b, w |-> 4, h |-> rows - b]
      BY <1>2
    <3> QED BY <1>2, <2>3, <3>1, <3>2 DEF Tilings!Covers
  <2> QED BY <1>2, <2>1, <2>2, <2>3
<1>8. {p.cell : p \in P} = {cell(i) : i \in 1..9}
  BY <1>1, <1>5
<1>9. Tiled({cell(i) : i \in 1..9}, rows)
  <2> DEFINE S == {cell(i) : i \in 1..9}
  <2>1. \A c \in S : c.x + c.w <= GridCols /\ c.y + c.h <= rows
    BY <1>3, <1>4
  <2>2. \A c, d \in S : c # d => Tilings!Disjoint(c, d)
    BY <1>6
  <2>3. \A x \in 0..11, y \in 0..(rows - 1) : \E c \in S : Tilings!Covers(c, x, y)
    BY <1>7
  <2>4. GridCols - 1 = 11
    BY <1>3
  <2> HIDE DEF S
  <2>5. Tiled(S, rows)
    BY <2>1, <2>2, <2>3, <2>4 DEF Tiled
  <2> QED BY <2>5 DEF S
<1>10. \A p, q \in P : p.cell = q.cell => p = q
  BY <1>1, <1>5, <1>6
<1>11. P \in SUBSET Placements /\ \A p \in P : Suits(p)
  BY <1>1, <1>5
<1> QED BY <1>8, <1>9, <1>10, <1>11 DEF Filled, P

LEMMA ApplyTemplateStep ==
  ASSUME TilingInv, NEW kinds \in Tilings!Templates, NEW view \in ViewRows,
         Tilings!ApplyTemplate(kinds, view)
  PROVE  TilingInv'
<1> USE DEF TilingInv
<1> DEFINE rows == Tilings!RowsForViewport(view)
           P == Tilings!PlaceTemplate(kinds, rows)
<1>1. rows \in 15..28
  BY ScreenAssumption DEF Tilings!RowsForViewport, Tilings!Clamp, Tilings!BaseRows, Tilings!MaxRows
<1>2. /\ UNCHANGED page
      /\ ui' = [ui EXCEPT !.step = "done", !.rows = rows, !.placed = P]
  BY DEF Tilings!ApplyTemplate
<1> HIDE DEF rows
<1>3. P \in SUBSET Placements /\ Filled(P, rows)
  BY <1>1, TemplateFills
<1> HIDE DEF P
<1>4. TilingTyped' /\ ui'.step = "done" /\ ui'.rows = rows /\ ui'.placed = P
  <2>1. rows \in Nat
    BY <1>1
  <2> QED BY <1>2, <1>3, <2>1 DEF TilingTyped
<1> QED BY <1>2, <1>3, <1>4 DEF Chosen, Cut, Dressed

LEMMA TilingNextInv == ASSUME TilingInv, [Tilings!Next]_vars PROVE TilingInv'
<1>1. ASSUME UNCHANGED vars PROVE TilingInv'
  <2>1. page' = page /\ ui' = ui
    BY <1>1 DEF vars
  <2> QED BY <2>1 DEF TilingInv, TilingTyped, Chosen, Cut, Dressed
<1> QED BY <1>1, ApplyTemplateStep, RandomizeStep, SplitStep, DressStep DEF Tilings!Next, AnyKind

LEMMA TilingInvImplies == ASSUME TilingInv PROVE Tilings!FillsScreen
<1> SUFFICES ASSUME ui.step = "done"
             PROVE  /\ \A p \in ui.placed :
                         /\ p.cell.x >= 0 /\ p.cell.x + p.cell.w <= GridCols
                         /\ p.cell.y >= 0 /\ p.cell.y + p.cell.h <= ui.rows
                         /\ Tilings!Fits(p.kind, p.cell)
                         /\ p.kind = "list" => p.limit * 38 <= p.cell.h * Tilings!RowPitch - 75
                         /\ \A q \in ui.placed : p # q => Tilings!Disjoint(p.cell, q.cell)
                    /\ \A x \in 0..(GridCols - 1), y \in 0..(ui.rows - 1) :
                         \E p \in ui.placed : Tilings!Covers(p.cell, x, y)
  BY DEF Tilings!FillsScreen
<1>1. ui.placed \in SUBSET Placements /\ ui.rows \in Nat /\ Filled(ui.placed, ui.rows)
  BY DEF TilingInv, TilingTyped, Dressed
<1> QED BY <1>1, FilledScreen

-----------------------------------------------------------------------------
(* The inductive invariant of the console: that of the page open.          *)

IInv ==
  /\ page = "agents" => DeployingP!IInv
  /\ page = "settings" => SettingsP!IInv
  /\ page = "explorer" => HistoriesInv
  /\ page = "denials" => DenialsInv
  /\ page = "deployments" => DeploymentsInv
  /\ page = "matrix" => MatrixInv
  /\ page \in Layouts!Pages => LayoutsInv
  /\ page \in FleetPages => FleetInv
  /\ page = "tiling" => TilingInv
  /\ page = "gallery" => Pictures!GalleryInv

LEMMA ChartsKnown == Pictures!Known /\ Pictures!Observable
<1>1. Pictures!Observable
  BY ChartAssumption DEF Pictures!Observable
<1>2. \A i \in 1..2 : /\ MatrixLimits[i] \in Nat /\ MatrixLimits[i] >= 1
                     /\ HeatLimits[i] \in Nat /\ HeatLimits[i] >= 1
  BY ChartAssumption
<1>3. \A d \in 1..3 : TreeLimits[d] \in Nat /\ TreeLimits[d] >= 1
  BY ChartAssumption
<1>4. Days \subseteq Nat \ {0} /\ {TopSeries, TopBars, TopSlices, TopPareto, TopCards} \subseteq Nat
  BY ChartAssumption
<1> QED BY <1>1, <1>2, <1>3, <1>4 DEF Pictures!Known, Pictures!Dims

LEMMA InitIInv == Init => IInv
<1> SUFFICES ASSUME Init PROVE IInv
  OBVIOUS
<1>1. /\ Layouts!Init => page \in {"dashboard", "charts"}
      /\ Tilings!Init => page = "tiling"
      /\ Denials!Init => page = "denials"
      /\ Deployments!Init => page = "deployments"
      /\ FleetViews!Init => page \in {"compliance", "widgets"}
      /\ Deploying!Init => page = "agents"
      /\ OneAgent!Init => page = "agent"
  BY DEF Layouts!Init, Layouts!Pages, Tilings!Init, Denials!Init, Deployments!Init, FleetViews!Init,
         Deploying!Init, OneAgent!Init
<1>2. /\ AlertList!Init => page = "alerts"
      /\ Suggestions!Init => page = "suggestions"
      /\ Matrix!Init => page = "matrix"
      /\ Runs!Init => page \in {"collections", "panel"}
      /\ Settings!Init => page = "settings"
      /\ Histories!Init => page = "explorer"
      /\ Pictures!Init => page = "gallery"
  BY DEF AlertList!Init, Suggestions!Init, Matrix!Init, Runs!Init, Runs!Pages, Settings!Init,
         Histories!Init, Pictures!Init
<1>3. ASSUME page = "agents" PROVE DeployingP!IInv
  BY <1>1, <1>2, <1>3, DeployingSame, DeployingP!InitIInv DEF Init
<1>4. ASSUME page = "settings" PROVE SettingsP!IInv
  BY <1>1, <1>2, <1>4, SettingsSame, SettingsP!InitIInv DEF Init
<1>5. ASSUME page = "explorer" PROVE HistoriesInv
  BY <1>1, <1>2, <1>5, HistoriesInitInv DEF Init
<1>6. ASSUME page = "denials" PROVE DenialsInv
  BY <1>1, <1>2, <1>6, DenialsInitInv DEF Init
<1>7. ASSUME page = "deployments" PROVE DeploymentsInv
  BY <1>1, <1>2, <1>7, DeploymentsInitInv DEF Init
<1>8. ASSUME page = "matrix" PROVE MatrixInv
  BY <1>1, <1>2, <1>8, MatrixInitInv DEF Init
<1>9. ASSUME page \in Layouts!Pages PROVE LayoutsInv
  BY <1>1, <1>2, <1>9, LayoutsInitInv DEF Init, Layouts!Pages
<1>10. ASSUME page \in FleetPages PROVE FleetInv
  BY <1>1, <1>2, <1>10, FleetInitInv DEF Init, FleetPages
<1>11. ASSUME page = "tiling" PROVE TilingInv
  BY <1>1, <1>2, <1>11, TilingInitInv DEF Init
<1>12. ASSUME page = "gallery" PROVE Pictures!GalleryInv
  <2>1. Pictures!Init
    BY <1>1, <1>2, <1>12 DEF Init
  <2> QED BY <2>1, ChartsKnown, Pictures!GalleryStarts
<1> QED BY <1>3, <1>4, <1>5, <1>6, <1>7, <1>8, <1>9, <1>10, <1>11, <1>12 DEF IInv

\* Which page a step belongs to.
LEMMA StepOfPage ==
  ASSUME [Next]_vars
  PROVE  /\ page = "agents" => [DeployingP!Next]_vars
         /\ page = "settings" => [SettingsP!Next]_vars
         /\ page = "explorer" => [Histories!Next]_vars
         /\ page = "denials" => [Denials!Next]_vars
         /\ page = "deployments" => [Deployments!Next]_vars
         /\ page = "matrix" => [Matrix!Next]_vars
         /\ page \in Layouts!Pages => [Layouts!Next]_vars
         /\ page \in FleetPages => [FleetViews!Next]_vars
         /\ page = "tiling" => [Tilings!Next]_vars
         /\ page = "gallery" => [Pictures!Next]_vars
  BY DeployingSame, SettingsSame DEF Next, Layouts!Pages, Runs!Pages, FleetPages

LEMMA NextIInv == IInv /\ [Next]_vars => IInv'
<1> SUFFICES ASSUME IInv, [Next]_vars PROVE IInv'
  OBVIOUS
<1>1. /\ page' = "agents" => page = "agents"
      /\ page' = "settings" => page = "settings"
      /\ page' = "explorer" => page = "explorer"
      /\ page' = "denials" => page = "denials"
      /\ page' = "deployments" => page = "deployments"
      /\ page' = "matrix" => page = "matrix"
      /\ page' \in Layouts!Pages => page \in Layouts!Pages
      /\ page' \in FleetPages => page \in FleetPages
      /\ page' = "tiling" => page = "tiling"
      /\ page' = "gallery" => page = "gallery"
  BY PageStays DEF Layouts!Pages, FleetPages
<1>2. ASSUME page = "agents" PROVE DeployingP!IInv'
  <2>1. DeployingP!IInv /\ [DeployingP!Next]_vars
    BY <1>2, StepOfPage DEF IInv
  <2>2. [DeployingP!Next]_(DeployingP!vars)
    BY <2>1 DEF vars, DeployingP!vars
  <2> QED BY <2>1, <2>2, DeployingP!NextIInv
<1>3. ASSUME page = "settings" PROVE SettingsP!IInv'
  <2>1. SettingsP!IInv /\ [SettingsP!Next]_vars
    BY <1>3, StepOfPage DEF IInv
  <2>2. [SettingsP!Next]_(SettingsP!vars)
    BY <2>1 DEF vars, SettingsP!vars
  <2> QED BY <2>1, <2>2, SettingsP!NextIInv
<1>4. ASSUME page = "explorer" PROVE HistoriesInv'
  BY <1>4, StepOfPage, HistoriesNextInv DEF IInv
<1>5. ASSUME page = "denials" PROVE DenialsInv'
  BY <1>5, StepOfPage, DenialsNextInv DEF IInv
<1>6. ASSUME page = "deployments" PROVE DeploymentsInv'
  BY <1>6, StepOfPage, DeploymentsNextInv DEF IInv
<1>7. ASSUME page = "matrix" PROVE MatrixInv'
  BY <1>7, StepOfPage, MatrixNextInv DEF IInv
<1>8. ASSUME page \in Layouts!Pages PROVE LayoutsInv'
  BY <1>8, StepOfPage, LayoutsNextInv DEF IInv
<1>9. ASSUME page \in FleetPages PROVE FleetInv'
  BY <1>9, StepOfPage, FleetNextInv DEF IInv
<1>10. ASSUME page = "tiling" PROVE TilingInv'
  BY <1>10, StepOfPage, TilingNextInv DEF IInv
<1>11. ASSUME page = "gallery" PROVE Pictures!GalleryInv'
  <2>1. Pictures!GalleryInv /\ [Pictures!Next]_vars
    BY <1>11, StepOfPage DEF IInv
  <2>2. [Pictures!Next]_(Pictures!vars)
    BY <2>1 DEF vars, Pictures!vars
  <2> QED BY <2>1, <2>2, ChartsKnown, Pictures!GalleryStays
<1> QED BY <1>1, <1>2, <1>3, <1>4, <1>5, <1>6, <1>7, <1>8, <1>9, <1>10, <1>11
        DEF IInv, Layouts!Pages, FleetPages

-----------------------------------------------------------------------------
(* What the widgets draw of one answer adds up.                            *)

\* Sums, counts and listings mean the same in every module.
LEMMA FleetSumsSame ==
  /\ \A S : Pictures!Cardinality(S) = Cardinality(S)
  /\ \A S : Pictures!IsFiniteSet(S) <=> IsFiniteSet(S)
  /\ \A f, S : FleetViews!SumFunctionOnSet(f, S) = Pictures!SumFunctionOnSet(f, S)
  /\ \A f : FleetViews!SumFunction(f) = Pictures!SumFunctionOnSet(f, DOMAIN f)
<1>1. \A S : Pictures!Cardinality(S) = Cardinality(S)
  BY DEF Pictures!Cardinality, Cardinality
<1>2. \A S : Pictures!IsFiniteSet(S) <=> IsFiniteSet(S)
  BY Zenon DEF Pictures!IsFiniteSet, IsFiniteSet
<1>3. ASSUME NEW f, NEW S PROVE FleetViews!SumFunctionOnSet(f, S) = Pictures!SumFunctionOnSet(f, S)
  BY Zenon DEF FleetViews!SumFunctionOnSet, FleetViews!FoldFunctionOnSet, FleetViews!MapThenFoldSet,
    Pictures!SumFunctionOnSet, Pictures!FoldFunctionOnSet, Pictures!MapThenFoldSet
<1>4. ASSUME NEW f PROVE FleetViews!SumFunction(f) = FleetViews!SumFunctionOnSet(f, DOMAIN f)
  BY Zenon DEF FleetViews!SumFunctionOnSet, FleetViews!SumFunction, FleetViews!FoldFunction,
    FleetViews!FoldFunctionOnSet
<1> QED BY <1>1, <1>2, <1>3, <1>4

\* Sets apart are counted one by one.
LEMMA DisjointUnion ==
  ASSUME NEW S, IsFiniteSet(S), NEW T, IsFiniteSet(T), S \cap T = {}
  PROVE  IsFiniteSet(S \cup T) /\ Cardinality(S \cup T) = Cardinality(S) + Cardinality(T)
<1>1. Cardinality(S) \in Nat /\ Cardinality(T) \in Nat
  BY FS_CardinalityType
<1> QED BY <1>1, FS_Union, FS_EmptySet

\* The agents of each mode.
Of(fleet, m) == {i \in DOMAIN fleet : fleet[i].mode = m}
Modes == {"enforcing", "permissive", "disabled", "unknown"}

LEMMA ModesFinite == IsFiniteSet(Modes)
<1> DEFINE A == {"enforcing"} \cup {"permissive"}
           B == {"disabled"} \cup {"unknown"}
<1>1. IsFiniteSet(A) /\ IsFiniteSet(B)
  BY FS_Singleton, FS_Union
<1>2. IsFiniteSet(A \cup B)
  <2> HIDE DEF A, B
  <2> QED BY <1>1, FS_Union
<1>3. A \cup B = Modes
  BY DEF Modes
<1> QED BY <1>2, <1>3

LEMMA ModesCounted ==
  ASSUME NEW fleet \in Seq(Profiles)
  PROVE  /\ \A m \in Modes : FleetViews!AgentsByMode(fleet)[m] = Cardinality(Of(fleet, m))
         /\ \A m \in Modes : Cardinality(Of(fleet, m)) \in Nat
         /\ DOMAIN FleetViews!AgentsByMode(fleet) = Modes
<1>1. \A i \in DOMAIN fleet : fleet[i].mode \in Modes
  <2>1. DOMAIN fleet = 1..Len(fleet) /\ \A i \in 1..Len(fleet) : fleet[i] \in Profiles
    BY LenProperties, ElementOfSeq
  <2> QED BY <2>1, FleetAssumption DEF Modes
<1>2. {i \in DOMAIN fleet : fleet[i].mode \notin {"enforcing", "permissive", "disabled"}} = Of(fleet, "unknown")
  BY <1>1 DEF Of, Modes
<1>3. \A m \in Modes : Cardinality(Of(fleet, m)) \in Nat
  BY PositionsFinite DEF Of
<1>4. ASSUME NEW m \in Modes PROVE FleetViews!AgentsByMode(fleet)[m] = Cardinality(Of(fleet, m))
  BY <1>2, CountsSame DEF FleetViews!AgentsByMode, FleetViews!Count, FleetViews!Indices, Of, Modes
<1> QED BY <1>3, <1>4 DEF FleetViews!AgentsByMode, Modes

LEMMA ModesPartition ==
  ASSUME NEW fleet \in Seq(Profiles)
  PROVE  /\ Len(fleet) = Cardinality(Of(fleet, "enforcing")) + Cardinality(Of(fleet, "permissive"))
                          + Cardinality(Of(fleet, "disabled")) + Cardinality(Of(fleet, "unknown"))
         /\ FleetViews!SumFunction(FleetViews!AgentsByMode(fleet)) = Len(fleet)
<1> DEFINE D == DOMAIN fleet
           by == FleetViews!AgentsByMode(fleet)
           part == [m \in Modes |-> Of(fleet, m)]
<1>1. \A i \in D : fleet[i].mode \in Modes
  <2>1. DOMAIN fleet = 1..Len(fleet) /\ \A i \in 1..Len(fleet) : fleet[i] \in Profiles
    BY LenProperties, ElementOfSeq
  <2> QED BY <2>1, FleetAssumption DEF Modes
<1>2. IsFiniteSet(D) /\ Cardinality(D) = Len(fleet) /\ Len(fleet) \in Nat
  <2>1. D = 1..Len(fleet) /\ Len(fleet) \in Nat
    BY LenProperties
  <2> QED BY <2>1, FS_Interval
<1>3. IsFiniteSet(Modes)
  BY ModesFinite
<1>4. /\ \A m \in Modes : part[m] \in SUBSET D
      /\ \A i \in D : \E m \in Modes : i \in part[m]
      /\ \A m, n \in Modes : \A i \in D : i \in part[m] /\ i \in part[n] => m = n
  BY <1>1 DEF Of
<1>5. \A m \in Modes : part[m] = Of(fleet, m) /\ by[m] = Cardinality(part[m]) /\ by[m] \in Int
  BY ModesCounted
<1>6. DOMAIN by = Modes
  BY ModesCounted
<1> HIDE DEF part, by
<1>7. Cardinality(D) = Pictures!SumFunctionOnSet(by, Modes)
  <2>1. Pictures!IsFiniteSet(D) /\ Pictures!IsFiniteSet(Modes)
    BY <1>2, <1>3, FleetSumsSame
  <2>2. \A m \in Modes : by[m] = Pictures!Cardinality(part[m])
    BY <1>5, FleetSumsSame
  <2>3. Pictures!Cardinality(D) = Pictures!SumFunctionOnSet(by, Modes)
    BY <2>1, <2>2, <1>4, Pictures!CountOfParts
  <2> QED BY <2>3, FleetSumsSame
<1>8. FleetViews!SumFunction(by) = Len(fleet)
  BY <1>2, <1>6, <1>7, FleetSumsSame
<1>9. Cardinality(D) = Cardinality(Of(fleet, "enforcing")) + Cardinality(Of(fleet, "permissive"))
                          + Cardinality(Of(fleet, "disabled")) + Cardinality(Of(fleet, "unknown"))
  <2> DEFINE e == Of(fleet, "enforcing") p == Of(fleet, "permissive")
             d == Of(fleet, "disabled") u == Of(fleet, "unknown")
  <2>1. D = ((e \cup p) \cup d) \cup u /\ e \cap p = {} /\ (e \cup p) \cap d = {} /\ ((e \cup p) \cup d) \cap u = {}
    BY <1>1 DEF Of, Modes
  <2>2. /\ IsFiniteSet(e) /\ Cardinality(e) \in Nat /\ IsFiniteSet(p) /\ Cardinality(p) \in Nat
        /\ IsFiniteSet(d) /\ Cardinality(d) \in Nat /\ IsFiniteSet(u) /\ Cardinality(u) \in Nat
    BY PositionsFinite DEF Of
  <2> HIDE DEF e, p, d, u
  <2>3. IsFiniteSet(e \cup p) /\ Cardinality(e \cup p) = Cardinality(e) + Cardinality(p)
    BY <2>1, <2>2, DisjointUnion
  <2>4. IsFiniteSet((e \cup p) \cup d) /\ Cardinality((e \cup p) \cup d) = Cardinality(e) + Cardinality(p) + Cardinality(d)
    BY <2>1, <2>2, <2>3, DisjointUnion
  <2>5. Cardinality(((e \cup p) \cup d) \cup u) = Cardinality(e) + Cardinality(p) + Cardinality(d) + Cardinality(u)
    BY <2>1, <2>2, <2>4, DisjointUnion
  <2> QED BY <2>1, <2>5 DEF e, p, d, u
<1> QED BY <1>2, <1>8, <1>9 DEF by

\* The agents that pass a check, and those it applies to.
Pass(fleet, alerted, id)  == {i \in DOMAIN fleet : FleetViews!Check(id, fleet, i, alerted) = "pass"}
Known(fleet, alerted, id) == {i \in DOMAIN fleet : FleetViews!Check(id, fleet, i, alerted) # "unknown"}

LEMMA FleetAgents ==
  ASSUME NEW fleet \in Seq(Profiles)
  PROVE  /\ DOMAIN fleet = 1..Len(fleet) /\ Len(fleet) \in Nat
         /\ IsFiniteSet(DOMAIN fleet) /\ Cardinality(DOMAIN fleet) = Len(fleet)
         /\ \A i \in DOMAIN fleet : /\ fleet[i].mode \in Modes /\ fleet[i].connected \in BOOLEAN
                                    /\ fleet[i].targeted \in BOOLEAN /\ fleet[i].alerts \in BOOLEAN
<1>1. DOMAIN fleet = 1..Len(fleet) /\ Len(fleet) \in Nat /\ \A i \in 1..Len(fleet) : fleet[i] \in Profiles
  BY LenProperties, ElementOfSeq
<1>2. \A a \in Profiles : /\ a.mode \in Modes /\ a.connected \in BOOLEAN
                          /\ a.targeted \in BOOLEAN /\ a.alerts \in BOOLEAN
  BY FleetAssumption DEF Modes
<1>3. IsFiniteSet(DOMAIN fleet) /\ Cardinality(DOMAIN fleet) = Len(fleet)
  <2>1. DOMAIN fleet = 1..Len(fleet) /\ Len(fleet) \in Nat
    BY <1>1
  <2> QED BY <2>1, FS_Interval
<1>4. \A i \in DOMAIN fleet : fleet[i] \in Profiles
  BY <1>1
<1> QED BY <1>1, <1>2, <1>3, <1>4

LEMMA BarsCounted ==
  ASSUME NEW fleet \in Seq(Profiles), NEW alerted, NEW id \in FleetViews!Checks
  PROVE  LET bar == FleetViews!ComplianceBars(fleet, alerted)[id] IN
         /\ bar.value = Cardinality(Pass(fleet, alerted, id)) /\ bar.total = Cardinality(Known(fleet, alerted, id))
         /\ Pass(fleet, alerted, id) \in SUBSET Known(fleet, alerted, id) /\ IsFiniteSet(Known(fleet, alerted, id))
         /\ bar.value \in Nat /\ bar.total \in Nat /\ bar.value <= bar.total
<1> DEFINE p == Pass(fleet, alerted, id)
           k == Known(fleet, alerted, id)
           check(i) == FleetViews!Check(id, fleet, i, alerted)
<1>1. \A i : check(i) \in {"pass", "fail", "unknown"}
  BY DEF FleetViews!Check, FleetViews!Checks
<1>2. {i \in DOMAIN fleet : check(i) \in {"pass"}} = p /\ {i \in DOMAIN fleet : check(i) \in {"pass", "fail"}} = k
      /\ p \in SUBSET k /\ k \in SUBSET DOMAIN fleet
  BY <1>1 DEF Pass, Known
<1>3. FleetViews!ComplianceBars(fleet, alerted)[id] =
        [value |-> FleetViews!Cardinality({i \in DOMAIN fleet : check(i) \in {"pass"}}),
         total |-> FleetViews!Cardinality({i \in DOMAIN fleet : check(i) \in {"pass", "fail"}})]
  BY DEF FleetViews!ComplianceBars
<1> HIDE DEF p, k, check
<1>4. FleetViews!ComplianceBars(fleet, alerted)[id] = [value |-> Cardinality(p), total |-> Cardinality(k)]
  BY <1>2, <1>3, CountsSame
<1>5. IsFiniteSet(k) /\ Cardinality(k) \in Nat /\ Cardinality(p) \in Nat /\ Cardinality(p) <= Cardinality(k)
  BY <1>2, PositionsFinite, FS_Subset
<1> QED BY <1>2, <1>4, <1>5 DEF p, k

LEMMA WholeScore ==
  ASSUME NEW n \in Nat, n > 0
  PROVE  FleetViews!RoundDiv(100 * n, n) = 100
<1> DEFINE q == (2 * (100 * n) + n) \div (2 * n)
<1>1. 2 * (100 * n) + n = (2 * n) * 100 + n /\ 0 <= n /\ n < 2 * n
  OBVIOUS
<1>2. q = 100
  BY <1>1, SMTT(30)
<1> QED BY <1>2 DEF FleetViews!RoundDiv

LEMMA WidthFits ==
  ASSUME NEW v \in Nat, NEW t \in Nat, v <= t
  PROVE  FleetViews!BarWidth(v, t) <= 100
<1>1. CASE t = 0
  BY <1>1 DEF FleetViews!BarWidth
<1>2. CASE t > 0
  <2> DEFINE q == (2 * (100 * v) + t) \div (2 * t)
  <2>1. 2 * (100 * v) + t < (2 * t) * 101 /\ 2 * t > 0
    BY <1>2
  <2>2. q <= 100
    BY <1>2, <2>1, SMTT(30)
  <2> QED BY <1>2, <2>2 DEF FleetViews!BarWidth, FleetViews!RoundDiv
<1> QED BY <1>1, <1>2

\* An agent that fails no check is at 100 %.
LEMMA NoFailureScore ==
  ASSUME NEW fleet, NEW i, NEW alerted,
         \A id \in FleetViews!Checks : FleetViews!Check(id, fleet, i, alerted) # "fail"
  PROVE  FleetViews!Score(fleet, i, alerted) = 100
<1> DEFINE status(s) == {k \in FleetViews!Checks : FleetViews!Check(k, fleet, i, alerted) = s}
           applicable == FleetViews!Checks \ status("unknown")
           n == Cardinality(applicable)
<1>1. \A id \in FleetViews!Checks : FleetViews!Check(id, fleet, i, alerted) \in {"pass", "unknown"}
  BY DEF FleetViews!Check, FleetViews!Checks
<1>2. status("pass") = applicable
  BY <1>1
<1>3. "connected" \in applicable
  BY DEF FleetViews!Check, FleetViews!Checks
<1>4. IsFiniteSet(applicable)
  <2>1. FleetViews!Checks = ({"enforcing"} \cup {"connected"}) \cup ({"policy"} \cup {"no_open_alerts"})
    BY DEF FleetViews!Checks
  <2>2. IsFiniteSet({"enforcing"} \cup {"connected"}) /\ IsFiniteSet({"policy"} \cup {"no_open_alerts"})
    BY FS_Singleton, FS_Union
  <2>3. IsFiniteSet(FleetViews!Checks)
    BY <2>1, <2>2, FS_Union
  <2> QED BY <2>3, FS_Subset
<1> HIDE DEF status, applicable
<1>5. n \in Nat /\ n > 0
  BY <1>3, <1>4, FS_EmptySet, FS_CardinalityType
<1>6. FleetViews!Score(fleet, i, alerted) = FleetViews!RoundDiv(100 * n, n)
  BY <1>2, CountsSame DEF FleetViews!Score, status, applicable
<1> HIDE DEF n
<1> QED BY <1>5, <1>6, WholeScore

LEMMA FullBars ==
  ASSUME NEW fleet \in Seq(Profiles), NEW alerted,
         \A id \in FleetViews!Checks : FleetViews!ComplianceBars(fleet, alerted)[id].value
                                         = FleetViews!ComplianceBars(fleet, alerted)[id].total
  PROVE  FleetViews!FleetScore(fleet, alerted) = 100
<1>1. ASSUME NEW i \in DOMAIN fleet PROVE FleetViews!Score(fleet, i, alerted) = 100
  <2>1. ASSUME NEW id \in FleetViews!Checks PROVE FleetViews!Check(id, fleet, i, alerted) # "fail"
    <3>1. Pass(fleet, alerted, id) = Known(fleet, alerted, id)
      BY BarsCounted, FS_Subset
    <3> QED BY <3>1 DEF Pass, Known
  <2> QED BY <2>1, NoFailureScore
<1>2. CASE fleet = <<>>
  BY <1>2 DEF FleetViews!FleetScore
<1>3. CASE fleet # <<>>
  <2> DEFINE score == [i \in DOMAIN fleet |-> FleetViews!Score(fleet, i, alerted)]
  <2>1. Len(fleet) \in Nat /\ Len(fleet) > 0
    BY <1>3, EmptySeq, LenProperties
  <2>2. \A i \in DOMAIN fleet : score[i] = 100
    BY <1>1
  <2>3. DOMAIN score = DOMAIN fleet
    OBVIOUS
  <2>4. FleetViews!FleetScore(fleet, alerted) = FleetViews!RoundDiv(FleetViews!SumFunction(score), Len(fleet))
    BY <1>3 DEF FleetViews!FleetScore
  <2> HIDE DEF score
  <2>5. FleetViews!SumFunction(score) = 100 * Len(fleet)
    <3>1. Pictures!IsFiniteSet(DOMAIN fleet) /\ Pictures!Cardinality(DOMAIN fleet) = Len(fleet)
      BY FleetAgents, FleetSumsSame
    <3>2. Pictures!SumFunctionOnSet(score, DOMAIN fleet) = 100 * Pictures!Cardinality(DOMAIN fleet)
      BY <2>2, <3>1, Pictures!SumConst
    <3> QED BY <2>3, <3>1, <3>2, FleetSumsSame
  <2> QED BY <2>1, <2>4, <2>5, WholeScore
<1> QED BY <1>2, <1>3

\* The agents with an alert, of those fetched.
LEMMA FailingCounted ==
  ASSUME NEW fleet \in Seq(Profiles), NEW alerted \in SUBSET Nat, NEW total \in Nat, IsFiniteSet(alerted),
         Cardinality(alerted) <= total,
         total <= AlertLimit => \A i \in DOMAIN fleet : i \in alerted <=> fleet[i].alerts
  PROVE  LET bar == FleetViews!ComplianceBars(fleet, alerted)["no_open_alerts"]
             failing == bar.total - bar.value
         IN failing <= total /\ (total <= AlertLimit => failing = FleetViews!OpenAlerts(fleet))
<1> DEFINE p == Pass(fleet, alerted, "no_open_alerts")
           k == Known(fleet, alerted, "no_open_alerts")
           f == DOMAIN fleet \cap alerted
           bar == FleetViews!ComplianceBars(fleet, alerted)["no_open_alerts"]
<1>1. bar.value = Cardinality(p) /\ bar.total = Cardinality(k)
  BY BarsCounted DEF FleetViews!Checks
<1>2. k = DOMAIN fleet /\ p = DOMAIN fleet \ alerted
  BY DEF Pass, Known, FleetViews!Check
<1>3. k = p \cup f /\ p \cap f = {} /\ p \in SUBSET DOMAIN fleet /\ f \in SUBSET DOMAIN fleet /\ f \in SUBSET alerted
  BY <1>2
<1>4. FleetViews!OpenAlerts(fleet) = Cardinality({i \in DOMAIN fleet : fleet[i].alerts})
  BY CountsSame DEF FleetViews!OpenAlerts, FleetViews!Count, FleetViews!Indices
<1>5. total <= AlertLimit => f = {i \in DOMAIN fleet : fleet[i].alerts}
  OBVIOUS
<1>6. IsFiniteSet(p) /\ Cardinality(p) \in Nat /\ IsFiniteSet(f) /\ Cardinality(f) \in Nat
  <2> HIDE DEF p, f
  <2> QED BY <1>3, PositionsFinite
<1>7. Cardinality(f) <= Cardinality(alerted) /\ Cardinality(alerted) \in Nat
  <2> HIDE DEF f
  <2> QED BY <1>3, FS_Subset, FS_CardinalityType
<1> HIDE DEF p, k, f, bar
<1>8. Cardinality(k) = Cardinality(p) + Cardinality(f)
  BY <1>3, <1>6, DisjointUnion
<1>9. bar.total - bar.value = Cardinality(f)
  BY <1>1, <1>6, <1>8
<1>10. Cardinality(f) <= total
  BY <1>6, <1>7
<1> QED BY <1>4, <1>5, <1>9, <1>10 DEF bar

\* What is matched one to one has the same size.
LEMMA SameSize ==
  ASSUME NEW S, IsFiniteSet(S), NEW T, NEW h, h \in [S -> T],
         \A y \in T : \E x \in S : h[x] = y, \A x, y \in S : h[x] = h[y] => x = y
  PROVE  Cardinality(T) = Cardinality(S)
<1>1. h \in Surjection(S, T)
  BY DEF Surjection
<1>2. h \in Injection(S, T)
  BY DEF Injection, IsInjective
<1> QED BY <1>1, <1>2, FS_Surjection

LEMMA MinOf ==
  ASSUME NEW S \in SUBSET Int, IsFiniteSet(S), S # {}
  PROVE  FleetViews!Min(S) \in S /\ \A x \in S : FleetViews!Min(S) <= x
<1> DEFINE R == {r \in S \X S : r[1] > r[2]}
<1>1. (\A x \in S : <<x, x>> \notin R) /\ \A x, y, z \in S : <<x, y>> \in R /\ <<y, z>> \in R => <<x, z>> \in R
  OBVIOUS
<1>2. \E m \in S : \A y \in S : <<m, y>> \notin R
  <2>1. Pictures!IsFiniteSet(S)
    BY FleetSumsSame
  <2> HIDE DEF R
  <2> QED BY <1>1, <2>1, Pictures!LastExists
<1>3. \E m \in S : \A y \in S : m <= y
  <2>1. \A x, y \in S : <<x, y>> \notin R => x <= y
    OBVIOUS
  <2> HIDE DEF R
  <2> QED BY ONLY <1>2, <2>1, Zenon
<1> QED BY <1>3, Zenon DEF FleetViews!Min

LEMMA MinOfTwo ==
  ASSUME NEW a \in Int, NEW b \in Int
  PROVE  FleetViews!Min({a, b}) = IF a <= b THEN a ELSE b
<1>1. IsFiniteSet({a} \cup {b}) /\ {a} \cup {b} = {a, b}
  BY FS_Singleton, FS_Union
<1>2. FleetViews!Min({a, b}) \in {a, b} /\ \A x \in {a, b} : FleetViews!Min({a, b}) <= x
  BY <1>1, MinOf
<1> QED BY <1>2

\* Who needs attention for being offline comes first.
LEMMA Ranks ==
  ASSUME NEW fleet \in Seq(Profiles), NEW i \in FleetViews!NeedAttention(fleet)
  PROVE  /\ FleetViews!Rank(fleet, i) \in 1..5
         /\ FleetViews!Rank(fleet, i) = 1 <=> ~fleet[i].connected
<1> DEFINE U == FleetViews!Urgency
           S == {k \in DOMAIN U : U[k] \in FleetViews!Reasons(fleet, i)}
<1>1. U = <<"offline", "disabled", "permissive", "policyMismatch", "outdated">>
  BY DEF FleetViews!Urgency
<1>2. DOMAIN U = 1..5 /\ U[1] = "offline" /\ U[2] = "disabled" /\ U[3] = "permissive" /\ U[4] = "policyMismatch" /\ U[5] = "outdated"
  BY <1>1
<1>3. FleetViews!Reasons(fleet, i) \in SUBSET {U[1], U[2], U[3], U[4], U[5]} /\ FleetViews!Reasons(fleet, i) # {}
  BY <1>2 DEF FleetViews!Reasons, FleetViews!NeedAttention
<1>4. "offline" \in FleetViews!Reasons(fleet, i) <=> ~fleet[i].connected
  BY DEF FleetViews!Reasons
<1> HIDE DEF U
<1>5. S \in SUBSET (1..5) /\ S # {} /\ (1 \in S <=> ~fleet[i].connected)
  BY <1>2, <1>3, <1>4
<1>6. FleetViews!Rank(fleet, i) = FleetViews!Min(S)
  BY DEF FleetViews!Rank, U
<1> HIDE DEF S
<1>7. IsFiniteSet(S) /\ S \in SUBSET Int
  <2>1. S \in SUBSET Nat /\ \A x \in S : x <= 5
    BY <1>5
  <2> QED BY <2>1, FS_BoundedSetOfNaturals
<1>8. FleetViews!Min(S) \in S /\ \A x \in S : FleetViews!Min(S) <= x
  BY <1>5, <1>7, MinOf
<1>9. FleetViews!Min(S) \in 1..5
  BY <1>5, <1>8
<1>10. 1 \in S => FleetViews!Min(S) = 1
  BY <1>8, <1>9
<1> QED BY <1>5, <1>6, <1>8, <1>9, <1>10

\* The list of those who need attention has each of them once, the most urgent first.
LEMMA AttentionListed ==
  ASSUME NEW fleet \in Seq(Profiles)
  PROVE  LET list == FleetViews!AgentsNeedingAttention(fleet)
             need == FleetViews!NeedAttention(fleet)
         IN /\ list \in [1..Cardinality(need) -> need]
            /\ \A p, q \in 1..Cardinality(need) : p < q =>
                 list[p] # list[q] /\ FleetViews!Rank(fleet, list[p]) <= FleetViews!Rank(fleet, list[q])
<1> DEFINE list == FleetViews!AgentsNeedingAttention(fleet)
           need == FleetViews!NeedAttention(fleet)
           rank(i) == FleetViews!Rank(fleet, i)
           R == {r \in need \X need : rank(r[1]) < rank(r[2]) \/ (rank(r[1]) = rank(r[2]) /\ r[1] < r[2])}
           Listed(s) == \A p, q \in 1..FleetViews!Cardinality(need) : p < q =>
                 s[p] # s[q] /\ ~(rank(s[q]) < rank(s[p]) \/ (rank(s[q]) = rank(s[p]) /\ s[q] < s[p]))
<1>1. need \in SUBSET DOMAIN fleet /\ IsFiniteSet(need) /\ need \subseteq Nat
  BY PositionsFinite DEF FleetViews!NeedAttention
<1>2. \A i \in need : rank(i) \in Int
  BY Ranks
<1>3. list = CHOOSE s \in [1..FleetViews!Cardinality(need) -> need] : Listed(s)
  BY DEF FleetViews!AgentsNeedingAttention, FleetViews!ListedBy
<1> HIDE DEF list, need, rank
<1>4. (\A i \in need : <<i, i>> \notin R) /\ \A i, j, k \in need : <<i, j>> \in R /\ <<j, k>> \in R => <<i, k>> \in R
  BY <1>1, <1>2
<1>5. \E s \in [1..Cardinality(need) -> need] :
        \A p, q \in 1..Cardinality(need) : p < q => s[p] # s[q] /\ <<s[q], s[p]>> \notin R
  <2>1. Pictures!IsFiniteSet(need) /\ Pictures!Cardinality(need) = Cardinality(need)
    BY <1>1, FleetSumsSame
  <2> HIDE DEF R
  <2>2. \E s \in [1..Pictures!Cardinality(need) -> need] :
        \A p, q \in 1..Pictures!Cardinality(need) : p < q => s[p] # s[q] /\ <<s[q], s[p]>> \notin R
    BY <1>4, <2>1, Pictures!ListExists
  <2> QED BY <2>1, <2>2
<1>6. FleetViews!Cardinality(need) = Cardinality(need)
  BY CountsSame
<1>7. \E s \in [1..FleetViews!Cardinality(need) -> need] : Listed(s)
  BY <1>5, <1>6
<1>8. list \in [1..FleetViews!Cardinality(need) -> need] /\ Listed(list)
  <2> HIDE DEF Listed
  <2> QED BY <1>3, <1>7
<1>9. list \in [1..Cardinality(need) -> need]
  BY <1>6, <1>8
<1>10. ASSUME NEW p \in 1..Cardinality(need), NEW q \in 1..Cardinality(need), p < q
       PROVE list[p] # list[q] /\ rank(list[p]) <= rank(list[q])
  <2>1. list[p] \in need /\ list[q] \in need
    BY <1>9
  <2>2. rank(list[p]) \in Int /\ rank(list[q]) \in Int
    BY <1>2, <2>1
  <2>3. list[p] # list[q] /\ ~(rank(list[q]) < rank(list[p]))
    BY <1>6, <1>8, <1>10
  <2> QED BY <2>2, <2>3
<1> QED BY <1>9, <1>10 DEF list, need, rank

\* What begins a stretch of numbers is the stretch up to its size.
LEMMA Beginning ==
  ASSUME NEW n \in Nat, NEW P \in SUBSET (1..n), \A p \in P : \A q \in 1..n : q < p => q \in P
  PROVE  Cardinality(P) \in 0..n /\ P = 1..Cardinality(P)
<1> DEFINE R == {r \in P \X P : r[1] < r[2]}
<1>1. (\A x \in P : <<x, x>> \notin R) /\ \A x, y, z \in P : <<x, y>> \in R /\ <<y, z>> \in R => <<x, z>> \in R
  OBVIOUS
<1>2. IsFiniteSet(P)
  <2>1. IsFiniteSet(1..n)
    BY FS_Interval
  <2> QED BY <2>1, FS_Subset
<1>3. CASE P = {}
  BY <1>3, FS_EmptySet
<1>4. CASE P # {}
  <2>1. PICK m \in P : \A y \in P : <<m, y>> \notin R
    <3>1. Pictures!IsFiniteSet(P)
      BY <1>2, FleetSumsSame
    <3> HIDE DEF R
    <3> QED BY <1>1, <1>4, <3>1, Pictures!LastExists
  <2>2. \A y \in P : y <= m
    <3>1. \A x, y \in P : <<x, y>> \notin R => y <= x
      OBVIOUS
    <3> HIDE DEF R
    <3> QED BY ONLY <2>1, <3>1, Zenon
  <2> HIDE DEF R
  <2>3. m \in 1..n /\ P \in SUBSET (1..m)
    BY <2>2
  <2>4. ASSUME NEW q \in 1..m PROVE q \in P
    BY <2>3
  <2>5. P = 1..m
    BY <2>3, <2>4
  <2>6. m \in Int /\ m >= 1
    BY <2>3
  <2>7. Cardinality(1..m) = m
    BY <2>6, FS_Interval
  <2> QED BY <2>3, <2>5, <2>7
<1> QED BY <1>3, <1>4

LEMMA AttentionShown ==
  ASSUME NEW fleet \in Seq(Profiles), NEW limit \in Nat
  PROVE  LET list == FleetViews!AttentionAgents(fleet, limit)
             offline == Len(fleet) - FleetViews!Online(fleet)
             stat == FleetViews!StatEnforcing(fleet)
             shown == {i \in FleetViews!Range(list.rows) : ~fleet[i].connected}
         IN /\ list.count >= offline /\ list.count >= Len(fleet) - stat.enforcing
            /\ Cardinality(shown) = FleetViews!Min({limit, offline})
<1> DEFINE flagged == FleetViews!AgentsNeedingAttention(fleet)
           need == FleetViews!NeedAttention(fleet)
           n == Cardinality(need)
           on == {i \in DOMAIN fleet : fleet[i].connected}
           off == {i \in DOMAIN fleet : ~fleet[i].connected}
           soft == {i \in DOMAIN fleet : fleet[i].mode # "enforcing"}
           list == FleetViews!AttentionAgents(fleet, limit)
           P == {p \in 1..n : ~fleet[flagged[p]].connected}
           m == IF limit <= n THEN limit ELSE n
           shown == {i \in FleetViews!Range(list.rows) : ~fleet[i].connected}
<1>1. IsFiniteSet(need) /\ n \in Nat /\ need \in SUBSET DOMAIN fleet
  <2>1. need \in SUBSET DOMAIN fleet
    BY DEF FleetViews!NeedAttention
  <2> QED BY <2>1, PositionsFinite
<1>2. off \in SUBSET need /\ soft \in SUBSET need
  <2>1. \A i \in DOMAIN fleet : fleet[i].mode \in Modes
    BY FleetAgents
  <2>2. \A i \in off : FleetViews!Reasons(fleet, i) # {}
    BY DEF FleetViews!Reasons
  <2>3. \A i \in soft : FleetViews!Reasons(fleet, i) # {}
    BY <2>1 DEF FleetViews!Reasons, Modes
  <2> QED BY <2>2, <2>3 DEF FleetViews!NeedAttention
<1>3. /\ Cardinality(off) \in Nat /\ Cardinality(soft) \in Nat /\ IsFiniteSet(off)
      /\ Cardinality(off) <= n /\ Cardinality(soft) <= n
  BY <1>1, <1>2, FS_Subset, FS_CardinalityType
<1>4. FleetViews!Online(fleet) = Cardinality(on) /\ Len(fleet) - Cardinality(on) = Cardinality(off)
  <2>1. FleetViews!Online(fleet) = Cardinality(on)
    BY CountsSame DEF FleetViews!Online, FleetViews!Count, FleetViews!Indices
  <2>2. DOMAIN fleet = on \cup off /\ on \cap off = {} /\ on \in SUBSET DOMAIN fleet /\ off \in SUBSET DOMAIN fleet
    OBVIOUS
  <2>3. IsFiniteSet(on) /\ Cardinality(on) \in Nat
    BY PositionsFinite
  <2> HIDE DEF on, off
  <2>4. Cardinality(DOMAIN fleet) = Cardinality(on) + Cardinality(off)
    BY <1>3, <2>2, <2>3, DisjointUnion
  <2> QED BY <1>3, <2>1, <2>3, <2>4, FleetAgents
<1>5. Len(fleet) - FleetViews!StatEnforcing(fleet).enforcing = Cardinality(soft)
  <2> DEFINE e == Of(fleet, "enforcing")
  <2>1. FleetViews!StatEnforcing(fleet).enforcing = Cardinality(e)
    BY CountsSame DEF FleetViews!StatEnforcing, FleetViews!Count, FleetViews!Indices, Of
  <2>2. DOMAIN fleet = e \cup soft /\ e \cap soft = {} /\ e \in SUBSET DOMAIN fleet
    BY DEF Of
  <2>3. IsFiniteSet(e) /\ Cardinality(e) \in Nat /\ IsFiniteSet(soft)
    BY <1>1, <1>2, <2>2, PositionsFinite, FS_Subset
  <2> HIDE DEF e, soft
  <2>4. Cardinality(DOMAIN fleet) = Cardinality(e) + Cardinality(soft)
    BY <2>2, <2>3, DisjointUnion
  <2> QED BY <1>3, <2>1, <2>3, <2>4, FleetAgents
<1>6. flagged \in [1..n -> need] /\ \A p, q \in 1..n : p < q =>
         flagged[p] # flagged[q] /\ FleetViews!Rank(fleet, flagged[p]) <= FleetViews!Rank(fleet, flagged[q])
  BY AttentionListed
<1> HIDE DEF flagged, need, n
<1>7. flagged \in Seq(need) /\ Len(flagged) = n /\ DOMAIN flagged = 1..n
  BY <1>1, <1>6, SeqDef, LenProperties
<1>8. list.count = n /\ list.rows = SubSeq(flagged, 1, m)
  <2>1. list = [count |-> Len(flagged), rows |-> SubSeq(flagged, 1, FleetViews!Min({limit, Len(flagged)}))]
    BY DEF FleetViews!AttentionAgents, flagged
  <2>2. FleetViews!Min({limit, n}) = m
    BY <1>1, MinOfTwo
  <2> HIDE DEF list, m
  <2> QED BY <1>7, <2>1, <2>2
<1>9. \A p \in P : \A q \in 1..n : q < p => q \in P
  <2> SUFFICES ASSUME NEW p \in P, NEW q \in 1..n, q < p PROVE q \in P
    OBVIOUS
  <2>1. flagged[p] \in need /\ flagged[q] \in need
    BY <1>6
  <2>2. FleetViews!Rank(fleet, flagged[q]) <= FleetViews!Rank(fleet, flagged[p])
    BY <1>6
  <2>3. FleetViews!Rank(fleet, flagged[p]) = 1 /\ FleetViews!Rank(fleet, flagged[q]) \in 1..5
    BY <2>1, Ranks DEF need
  <2>4. FleetViews!Rank(fleet, flagged[q]) = 1
    BY <2>2, <2>3
  <2>5. ~fleet[flagged[q]].connected
    BY <2>1, <2>4, Ranks DEF need
  <2> QED BY <2>5
<1>10. Cardinality(P) \in 0..n /\ P = 1..Cardinality(P)
  <2>1. P \in SUBSET (1..n)
    OBVIOUS
  <2> HIDE DEF P
  <2> QED BY <1>1, <1>9, <2>1, Beginning
<1>11. \A x \in need : \E p \in 1..n : flagged[p] = x
  <2>1. Pictures!IsFiniteSet(need) /\ Pictures!Cardinality(need) = n
    BY <1>1, FleetSumsSame DEF n
  <2>2. flagged \in [1..Pictures!Cardinality(need) -> need]
        /\ \A p, q \in 1..Pictures!Cardinality(need) : p < q => flagged[p] # flagged[q]
    BY <1>6, <2>1
  <2>3. \A x \in need : \E p \in 1..Pictures!Cardinality(need) : flagged[p] = x
    BY <2>1, <2>2, Pictures!ListedOnto
  <2> QED BY <2>1, <2>3
<1>12. \A p, q \in 1..n : flagged[p] = flagged[q] => p = q
  <2> TAKE p \in 1..n, q \in 1..n
  <2>1. p < q \/ q < p \/ p = q
    BY <1>1
  <2> QED BY <1>6, <2>1
<1>13. Cardinality(off) = Cardinality(P)
  <2> DEFINE h == [p \in P |-> flagged[p]]
  <2>1. h \in [P -> off]
    BY <1>1, <1>6
  <2>2. \A x \in off : \E p \in P : h[p] = x
    BY <1>2, <1>11
  <2>3. \A p, q \in P : h[p] = h[q] => p = q
    BY <1>12
  <2>4. IsFiniteSet(P)
    <3>1. IsFiniteSet(1..n)
      BY <1>1, FS_Interval
    <3> QED BY <3>1, FS_Subset
  <2> HIDE DEF h, P, off
  <2> QED BY <2>1, <2>2, <2>3, <2>4, SameSize
<1>14. Cardinality(shown) = IF limit <= Cardinality(off) THEN limit ELSE Cardinality(off)
  <2> DEFINE c == Cardinality(P)
             k == IF limit <= c THEN limit ELSE c
             h == [p \in 1..k |-> flagged[p]]
  <2>1. m \in 0..n /\ k \in 0..n /\ k <= m /\ c \in Nat
    BY <1>1, <1>10
  <2>2. Len(list.rows) = m /\ \A p \in 1..m : list.rows[p] = flagged[p]
    BY <1>7, <1>8, <2>1, SubSeqProperties
  <2>3. DOMAIN list.rows = 1..m
    BY <1>7, <1>8, <2>1, SubSeqProperties
  <2>4. FleetViews!Range(list.rows) = {flagged[p] : p \in 1..m}
    BY <2>2, <2>3 DEF FleetViews!Range
  <2>5. ASSUME NEW p \in 1..m PROVE ~fleet[flagged[p]].connected <=> p \in 1..k
    <3>1. p \in 1..n
      BY <1>1, <2>1
    <3>2. ~fleet[flagged[p]].connected <=> p \in P
      BY <3>1
    <3>3. p \in P <=> p \in 1..c
      <4> HIDE DEF P
      <4> QED BY <1>10
    <3>4. p \in Nat /\ p >= 1 /\ p <= m
      BY <2>1
    <3> HIDE DEF P, c
    <3> QED BY <1>1, <2>1, <3>1, <3>2, <3>3, <3>4
  <2>6. shown = {flagged[p] : p \in 1..k}
    <3>1. 1..k \subseteq 1..m
      <4> HIDE DEF k
      <4> QED BY <1>1, <2>1
    <3>2. shown = {flagged[p] : p \in {q \in 1..m : ~fleet[flagged[q]].connected}}
      BY <2>4
    <3>3. {q \in 1..m : ~fleet[flagged[q]].connected} = 1..k
      <4> HIDE DEF k, m
      <4> QED BY <2>5, <3>1
    <3> QED BY <3>2, <3>3
  <2>7. h \in [1..k -> shown] /\ \A x \in shown : \E p \in 1..k : h[p] = x
    BY <2>6
  <2>8. \A p, q \in 1..k : h[p] = h[q] => p = q
    <3>1. 1..k \subseteq 1..n
      <4> HIDE DEF k
      <4> QED BY <1>1, <2>1
    <3> QED BY <1>12, <3>1
  <2>9. IsFiniteSet(1..k) /\ Cardinality(1..k) = k
    <3> HIDE DEF k
    <3> QED BY <2>1, FS_Interval
  <2>10. Cardinality(shown) = k
    <3> DEFINE K == 1..k
    <3>1. h \in [K -> shown] /\ (\A x \in shown : \E p \in K : h[p] = x)
          /\ (\A p, q \in K : h[p] = h[q] => p = q) /\ IsFiniteSet(K) /\ Cardinality(K) = k
      BY <2>7, <2>8, <2>9
    <3> HIDE DEF h, shown, k, K
    <3> QED BY ONLY <3>1, SameSize
  <2> QED BY <1>13, <2>10
<1>15. Cardinality(shown) = FleetViews!Min({limit, Cardinality(off)})
  <2> HIDE DEF shown, off
  <2> QED BY <1>3, <1>14, MinOfTwo
<1> HIDE DEF shown, off, on, soft, list, P, m
<1>16. list.count >= Cardinality(off) /\ list.count >= Cardinality(soft)
  BY <1>1, <1>3, <1>8
<1> QED BY <1>4, <1>5, <1>15, <1>16 DEF shown, list

LEMMA ModeBars ==
  ASSUME NEW fleet \in Seq(Profiles), NEW alerted
  PROVE  LET by == FleetViews!AgentsByMode(fleet)
             stat == FleetViews!StatEnforcing(fleet)
             bars == FleetViews!ComplianceBars(fleet, alerted)
         IN /\ stat.enforcing + stat.permissive + stat.disabled = Len(fleet)
            /\ stat.disabled = by["disabled"] + by["unknown"]
            /\ bars["enforcing"].value = by["enforcing"]
            /\ bars["enforcing"].total = Len(fleet) - by["unknown"]
            /\ bars["connected"].value = FleetViews!Online(fleet)
<1> DEFINE by == FleetViews!AgentsByMode(fleet)
           stat == FleetViews!StatEnforcing(fleet)
           bars == FleetViews!ComplianceBars(fleet, alerted)
           e == Of(fleet, "enforcing")
           p == Of(fleet, "permissive")
           d == Of(fleet, "disabled")
           u == Of(fleet, "unknown")
           known == Known(fleet, alerted, "enforcing")
<1>1. /\ e \in SUBSET DOMAIN fleet /\ p \in SUBSET DOMAIN fleet /\ d \in SUBSET DOMAIN fleet
      /\ u \in SUBSET DOMAIN fleet /\ known \in SUBSET DOMAIN fleet
  BY DEF Of, Known
<1>2. /\ IsFiniteSet(e) /\ Cardinality(e) \in Nat /\ IsFiniteSet(p) /\ Cardinality(p) \in Nat
      /\ IsFiniteSet(d) /\ Cardinality(d) \in Nat /\ IsFiniteSet(u) /\ Cardinality(u) \in Nat
      /\ IsFiniteSet(known) /\ Cardinality(known) \in Nat
  <2> HIDE DEF e, p, d, u, known
  <2> QED BY <1>1, PositionsFinite
<1>3. by["enforcing"] = Cardinality(e) /\ by["disabled"] = Cardinality(d) /\ by["unknown"] = Cardinality(u)
  BY ModesCounted DEF Modes
<1>4. stat.enforcing = Cardinality(e) /\ stat.permissive = Cardinality(p) /\ stat.disabled = Cardinality(d \cup u)
  <2>1. {i \in DOMAIN fleet : fleet[i].mode \in {"disabled", "unknown"}} = d \cup u
    BY DEF Of
  <2> QED BY <2>1, CountsSame DEF FleetViews!StatEnforcing, FleetViews!Count, FleetViews!Indices, Of
<1>5. d \cap u = {} /\ known \cap u = {} /\ known \cup u = DOMAIN fleet
  BY DEF Of, Known, FleetViews!Check
<1>6. Pass(fleet, alerted, "enforcing") = e
  BY DEF Pass, Of, FleetViews!Check
<1>7. Pass(fleet, alerted, "connected") = {i \in DOMAIN fleet : fleet[i].connected}
  BY DEF Pass, FleetViews!Check
<1>8. FleetViews!Online(fleet) = Cardinality({i \in DOMAIN fleet : fleet[i].connected})
  BY CountsSame DEF FleetViews!Online, FleetViews!Count, FleetViews!Indices
<1>9. /\ bars["enforcing"].value = Cardinality(e) /\ bars["enforcing"].total = Cardinality(known)
      /\ bars["connected"].value = FleetViews!Online(fleet)
  BY <1>6, <1>7, <1>8, BarsCounted DEF FleetViews!Checks
<1>10. Len(fleet) = Cardinality(e) + Cardinality(p) + Cardinality(d) + Cardinality(u)
  BY ModesPartition
<1> HIDE DEF by, stat, bars, e, p, d, u, known
<1>11. Cardinality(d \cup u) = Cardinality(d) + Cardinality(u)
  BY <1>2, <1>5, DisjointUnion
<1>12. Cardinality(DOMAIN fleet) = Cardinality(known) + Cardinality(u)
  BY <1>2, <1>5, DisjointUnion
<1>13. Cardinality(DOMAIN fleet) = Len(fleet) /\ Len(fleet) \in Nat
  BY FleetAgents
<1>14. Cardinality(known) = Len(fleet) - Cardinality(u)
  BY <1>2, <1>12, <1>13
<1>15. stat.enforcing + stat.permissive + stat.disabled = Len(fleet) /\ stat.disabled = by["disabled"] + by["unknown"]
  BY <1>2, <1>3, <1>4, <1>10, <1>11
<1> QED BY <1>3, <1>9, <1>14, <1>15 DEF by, stat, bars

\* What a page draws of one answer adds up.
LEMMA FleetInvAddsUp == ASSUME FleetInv PROVE FleetViews!WidgetsAgree
<1> DEFINE fleet == ui.agents
           by == FleetViews!AgentsByMode(fleet)
           stat == FleetViews!StatEnforcing(fleet)
           bars == FleetViews!ComplianceBars(fleet, ui.alerted)
           failing == bars["no_open_alerts"].total - bars["no_open_alerts"].value
<1>1. fleet \in Seq(Profiles) /\ ui.alerted \in SUBSET Nat /\ ui.total \in Nat
      /\ IsFiniteSet(ui.alerted) /\ Cardinality(ui.alerted) <= ui.total
      /\ (ui.total <= AlertLimit => \A i \in DOMAIN fleet : i \in ui.alerted <=> fleet[i].alerts)
  BY DEF FleetInv, AlertsTold
<1> HIDE DEF fleet
<1>2. FleetViews!SumFunction(by) = Len(fleet)
  BY <1>1, ModesPartition
<1>3. /\ stat.enforcing + stat.permissive + stat.disabled = Len(fleet)
      /\ stat.disabled = by["disabled"] + by["unknown"]
      /\ bars["enforcing"].value = by["enforcing"]
      /\ bars["enforcing"].total = Len(fleet) - by["unknown"]
      /\ bars["connected"].value = FleetViews!Online(fleet)
  BY <1>1, ModeBars
<1>4. failing <= ui.total /\ (ui.total <= AlertLimit => failing = FleetViews!OpenAlerts(fleet))
  BY <1>1, FailingCounted
<1>5. (\A id \in FleetViews!Checks : bars[id].value = bars[id].total) => FleetViews!FleetScore(fleet, ui.alerted) = 100
  BY <1>1, FullBars
<1>6. \A id \in FleetViews!Checks : FleetViews!BarWidth(bars[id].value, bars[id].total) <= 100
  BY <1>1, BarsCounted, WidthFits
<1>7. ASSUME NEW limit \in 0..FleetSize
      PROVE  LET list == FleetViews!AttentionAgents(fleet, limit)
                 offline == Len(fleet) - FleetViews!Online(fleet)
                 shown == {i \in FleetViews!Range(list.rows) : ~fleet[i].connected}
             IN /\ list.count >= offline /\ list.count >= Len(fleet) - stat.enforcing
                /\ FleetViews!Cardinality(shown) = FleetViews!Min({limit, offline})
  <2>1. limit \in Nat
    BY FleetAssumption
  <2> QED BY <1>1, <2>1, AttentionShown, CountsSame
<1> HIDE DEF by, stat, bars
<1> QED BY <1>2, <1>3, <1>4, <1>5, <1>6, <1>7, Zenon DEF FleetViews!WidgetsAgree, fleet, by, stat, bars

-----------------------------------------------------------------------------
(* The trend of the denials adds up.                                       *)

\* Sums, counts and listings mean the same in every module.
LEMMA MatrixSumsSame ==
  /\ \A S : Pictures!Cardinality(S) = Cardinality(S) /\ Matrix!Cardinality(S) = Cardinality(S)
  /\ \A S : Pictures!IsFiniteSet(S) <=> IsFiniteSet(S)
  /\ \A f : Matrix!SumFunction(f) = Pictures!SumFunctionOnSet(f, DOMAIN f)
<1>1. \A S : Pictures!Cardinality(S) = Cardinality(S) /\ Matrix!Cardinality(S) = Cardinality(S)
  BY FleetSumsSame DEF Matrix!Cardinality, Cardinality
<1>2. \A S : Pictures!IsFiniteSet(S) <=> IsFiniteSet(S)
  BY FleetSumsSame
<1>3. ASSUME NEW f, NEW S PROVE Matrix!SumFunctionOnSet(f, S) = Pictures!SumFunctionOnSet(f, S)
  BY Zenon DEF Matrix!SumFunctionOnSet, Matrix!FoldFunctionOnSet, Matrix!MapThenFoldSet,
    Pictures!SumFunctionOnSet, Pictures!FoldFunctionOnSet, Pictures!MapThenFoldSet
<1>4. ASSUME NEW f PROVE Matrix!SumFunction(f) = Matrix!SumFunctionOnSet(f, DOMAIN f)
  BY Zenon DEF Matrix!SumFunctionOnSet, Matrix!SumFunction, Matrix!FoldFunction, Matrix!FoldFunctionOnSet
<1> QED BY <1>1, <1>2, <1>3, <1>4

\* The days of the trend: those with a denial, each once.
DaysWith(v) == {d \in Day : \E a \in Agent : v[<<a, d>>] > 0}

LEMMA TrendDaysList ==
  ASSUME NEW v \in Table
  PROVE  Pictures!Once(Matrix!TrendDays(v), DaysWith(v))
<1> DEFINE S == DaysWith(v)
           n == Cardinality(S)
           R == {p \in Day \X Day : p[1] < p[2]}
           ok(s) == \A i, j \in 1..n : i < j => s[i] # s[j] /\ ~(s[j] < s[i])
<1>1. S \in SUBSET Day /\ IsFiniteSet(S)
  BY MatrixAssumption, FS_Subset DEF DaysWith
<1>2. \A x, y \in S : <<x, y>> \in R <=> x < y
  BY <1>1
<1>3. (\A x \in S : <<x, x>> \notin R)
      /\ \A x, y, z \in S : <<x, y>> \in R /\ <<y, z>> \in R => <<x, z>> \in R
  <2>1. \A x \in S : x \in Int
    BY <1>1, MatrixAssumption
  <2> HIDE DEF S, R
  <2> QED BY <1>2, <2>1
<1>4. Matrix!TrendDays(v) = CHOOSE s \in [1..n -> S] : ok(s)
  BY MatrixSumsSame DEF Matrix!TrendDays, Matrix!ListedBy, DaysWith
<1> HIDE DEF S, R
<1>5. \E s \in [1..n -> S] : ok(s)
  <2>1. Pictures!IsFiniteSet(S) /\ Pictures!Cardinality(S) = n
    BY <1>1, MatrixSumsSame
  <2>2. \E s \in [1..Pictures!Cardinality(S) -> S] :
          \A i, j \in 1..Pictures!Cardinality(S) : i < j => s[i] # s[j] /\ <<s[j], s[i]>> \notin R
    BY <1>3, <2>1, Pictures!ListExists
  <2>3. PICK s \in [1..n -> S] : \A i, j \in 1..n : i < j => s[i] # s[j] /\ <<s[j], s[i]>> \notin R
    BY <2>1, <2>2
  <2>4. \A i \in 1..n : s[i] \in S
    OBVIOUS
  <2> QED BY <1>2, <2>3, <2>4
<1>6. Matrix!TrendDays(v) \in [1..n -> S] /\ ok(Matrix!TrendDays(v))
  BY <1>4, <1>5
<1> QED BY <1>6, MatrixSumsSame DEF Pictures!Once, S, n

\* The denials of an agent in all.
OfAgent(v, a) == [d \in Day |-> v[<<a, d>>]]
AgentsWith(v) == {a \in Agent : Matrix!Total(v, a) > 0}

LEMMA TotalIs ==
  ASSUME NEW v \in Table, NEW a \in Agent
  PROVE  /\ Matrix!Total(v, a) = Pictures!SumFunctionOnSet(OfAgent(v, a), Day)
         /\ Matrix!Total(v, a) \in Nat
         /\ \A d \in Day : v[<<a, d>>] \in Nat /\ OfAgent(v, a)[d] = v[<<a, d>>]
         /\ \A d \in Day : v[<<a, d>>] > 0 => Matrix!Total(v, a) > 0
<1> DEFINE f == OfAgent(v, a)
<1>1. DOMAIN f = Day /\ \A d \in Day : f[d] = v[<<a, d>>] /\ f[d] \in Nat /\ f[d] \in Int
  BY DEF Table, OfAgent
<1>2. Pictures!IsFiniteSet(Day)
  BY MatrixAssumption, MatrixSumsSame
<1>3. Matrix!Total(v, a) = Pictures!SumFunctionOnSet(f, Day)
  <2>1. Matrix!Total(v, a) = Matrix!SumFunction(f)
    BY DEF Matrix!Total, OfAgent
  <2> QED BY <1>1, <2>1, MatrixSumsSame
<1> HIDE DEF f
<1>4. Pictures!SumFunctionOnSet(f, Day) \in Nat
  BY <1>1, <1>2, Pictures!SumNat
<1>5. ASSUME NEW d \in Day, v[<<a, d>>] > 0
      PROVE  Matrix!Total(v, a) > 0
  <2> DEFINE T == Day \ {d}
  <2>1. Pictures!IsFiniteSet(T)
    BY MatrixAssumption, FS_RemoveElement, MatrixSumsSame
  <2>2. \A x \in T : f[x] \in Nat
    BY <1>1
  <2>3. Pictures!SumFunctionOnSet(f, Day) = f[d] + Pictures!SumFunctionOnSet(f, T)
    BY <1>1, <1>2, Pictures!SumAny
  <2> HIDE DEF T
  <2>4. Pictures!SumFunctionOnSet(f, T) \in Nat
    BY <2>1, <2>2, Pictures!SumNat
  <2>5. f[d] \in Nat /\ f[d] > 0
    BY <1>1, <1>5
  <2> HIDE DEF f
  <2> QED BY <1>3, <2>3, <2>4, <2>5
<1> QED BY <1>1, <1>3, <1>4, <1>5 DEF f

LEMMA TrendAgentsList ==
  ASSUME NEW v \in Table
  PROVE  Pictures!Once(Matrix!TrendByAgent(v), AgentsWith(v))
<1> DEFINE S == AgentsWith(v)
           n == Cardinality(S)
           t(a) == Matrix!Total(v, a)
           R == {p \in Agent \X Agent : t(p[1]) > t(p[2])}
           ok(s) == \A i, j \in 1..n : i < j => s[i] # s[j] /\ ~(t(s[j]) > t(s[i]))
<1>1. S \in SUBSET Agent /\ IsFiniteSet(S)
  BY MatrixAssumption, FS_Subset DEF AgentsWith
<1>2. \A x, y \in S : <<x, y>> \in R <=> t(x) > t(y)
  BY <1>1
<1>3. (\A x \in S : <<x, x>> \notin R)
      /\ \A x, y, z \in S : <<x, y>> \in R /\ <<y, z>> \in R => <<x, z>> \in R
  <2>1. \A x \in S : t(x) \in Int
    BY <1>1, TotalIs
  <2> HIDE DEF S, R, t
  <2> QED BY <1>2, <2>1
<1>4. Matrix!TrendByAgent(v) = CHOOSE s \in [1..n -> S] : ok(s)
  BY MatrixSumsSame DEF Matrix!TrendByAgent, Matrix!ListedBy, AgentsWith
<1> HIDE DEF S, R, t
<1>5. \E s \in [1..n -> S] : ok(s)
  <2>1. Pictures!IsFiniteSet(S) /\ Pictures!Cardinality(S) = n
    BY <1>1, MatrixSumsSame
  <2>2. \E s \in [1..Pictures!Cardinality(S) -> S] :
          \A i, j \in 1..Pictures!Cardinality(S) : i < j => s[i] # s[j] /\ <<s[j], s[i]>> \notin R
    BY <1>3, <2>1, Pictures!ListExists
  <2>3. PICK s \in [1..n -> S] : \A i, j \in 1..n : i < j => s[i] # s[j] /\ <<s[j], s[i]>> \notin R
    BY <2>1, <2>2
  <2>4. \A i \in 1..n : s[i] \in S
    OBVIOUS
  <2> QED BY <1>2, <2>3, <2>4
<1>6. Matrix!TrendByAgent(v) \in [1..n -> S] /\ ok(Matrix!TrendByAgent(v))
  BY <1>4, <1>5
<1> QED BY <1>6, MatrixSumsSame DEF Pictures!Once, S, n

\* The counts of an agent, on the days of the trend.
LEMMA CountsAre ==
  ASSUME NEW v \in Table, NEW a \in Agent
  PROVE  LET n == Cardinality(DaysWith(v)) IN
         /\ DOMAIN Matrix!TrendDays(v) = 1..n /\ DOMAIN Matrix!Counts(v, a) = 1..n
         /\ \A i \in 1..n : /\ Matrix!TrendDays(v)[i] \in Day
                            /\ Matrix!Counts(v, a)[i] = v[<<a, Matrix!TrendDays(v)[i]>>]
                            /\ Matrix!Counts(v, a)[i] \in Nat
         /\ Matrix!SumFunction(Matrix!Counts(v, a)) = Matrix!Total(v, a)
<1> DEFINE T == DaysWith(v)
           n == Cardinality(T)
           s == Matrix!TrendDays(v)
           c == Matrix!Counts(v, a)
           f == OfAgent(v, a)
<1>1. Pictures!Once(s, T) /\ s \in [1..n -> T] /\ T \in SUBSET Day
  BY TrendDaysList, MatrixSumsSame DEF Pictures!Once, DaysWith
<1>2. c = [i \in DOMAIN s |-> v[<<a, s[i]>>]]
  BY DEF Matrix!Counts
<1>3. \A d \in Day : f[d] = v[<<a, d>>] /\ f[d] \in Nat /\ (d \notin T => f[d] = 0)
  <2>1. \A d \in Day : v[<<a, d>>] \in Nat /\ f[d] = v[<<a, d>>]
    BY TotalIs
  <2>2. \A d \in Day : d \notin T => ~(v[<<a, d>>] > 0)
    BY DEF DaysWith
  <2> HIDE DEF T, f
  <2> QED BY <2>1, <2>2
<1> HIDE DEF T, s, c, f
<1>4. DOMAIN s = 1..n /\ DOMAIN c = 1..n
      /\ \A i \in 1..n : s[i] \in Day /\ c[i] = v[<<a, s[i]>>] /\ c[i] = f[s[i]] /\ c[i] \in Nat
  BY <1>1, <1>2, <1>3
<1>5. Matrix!SumFunction(c) = Pictures!SumFunctionOnSet(f, Day)
  <2>1. Pictures!IsFiniteSet(Day) /\ Pictures!Cardinality(T) = n
    BY MatrixAssumption, MatrixSumsSame DEF n
  <2>2. Pictures!Naturals(f, Day) /\ Pictures!Zero(f, Day \ T)
    BY <1>3 DEF Pictures!Naturals, Pictures!Zero
  <2>3. Pictures!Along(c, f, s, T)
    BY <1>4, <2>1 DEF Pictures!Along
  <2>4. Pictures!SumFunctionOnSet(c, 1..Pictures!Cardinality(T)) = Pictures!SumFunctionOnSet(f, Day)
    BY <1>1, <2>1, <2>2, <2>3, Pictures!SumSome
  <2>5. DOMAIN c = 1..Pictures!Cardinality(T)
    BY <1>4, <2>1
  <2> QED BY <2>4, <2>5, MatrixSumsSame
<1>6. Matrix!SumFunction(c) = Matrix!Total(v, a)
  BY <1>5, TotalIs DEF f
<1> QED BY <1>4, <1>6 DEF s, c, T, n

\* A list of finitely many elements holds finitely many.
LEMMA ListFinite ==
  ASSUME NEW n \in Nat, NEW c, DOMAIN c = 1..n
  PROVE  IsFiniteSet(Matrix!Range(c) \cup {1})
<1> DEFINE T == Matrix!Range(c)
<1>1. \A i \in 1..n : c[i] \in T
  BY DEF Matrix!Range
<1>2. \A x \in T : \E i \in 1..n : c[i] = x
  BY DEF Matrix!Range
<1>3. IsFiniteSet(1..n)
  BY FS_Interval
<1> HIDE DEF T
<1>4. IsFiniteSet(T)
  <2> DEFINE S == 1..n
             g == [i \in S |-> c[i]]
  <2>1. g \in Surjection(S, T)
    BY <1>1, <1>2 DEF Surjection
  <2>2. IsFiniteSet(S)
    BY <1>3
  <2> HIDE DEF S, g
  <2> QED BY <2>1, <2>2, FS_Surjection
<1> QED BY <1>4, FS_Singleton, FS_Union DEF T

\* The bars of a row: none where it has no denial, and its highest is full.
LEMMA SparklineDraws ==
  ASSUME NEW n \in Nat, NEW c, DOMAIN c = 1..n, \A i \in 1..n : c[i] \in Nat
  PROVE  /\ \A i \in 1..n : Matrix!Sparkline(c)[i] > 0 <=> c[i] > 0
         /\ (\E i \in 1..n : c[i] > 0) => 24 \in Matrix!Range(Matrix!Sparkline(c))
<1> DEFINE S == Matrix!Range(c) \cup {1}
           R == {p \in Int \X Int : p[1] < p[2]}
           top == Matrix!Max(S)
           bar(i) == IF (24 * c[i]) \div top < (IF c[i] > 0 THEN 1 ELSE 0)
                     THEN (IF c[i] > 0 THEN 1 ELSE 0) ELSE (24 * c[i]) \div top
<1>1. S \in SUBSET Int /\ 1 \in S /\ (\A i \in 1..n : c[i] \in S) /\ \A x \in S : x = 1 \/ \E i \in 1..n : x = c[i]
  BY DEF Matrix!Range
<1>2. Pictures!IsFiniteSet(S)
  BY ListFinite, MatrixSumsSame
<1> HIDE DEF S
<1>3. \E m \in S : \A y \in S : m >= y
  <2>1. \A x, y \in S : <<x, y>> \in R <=> x < y
    BY <1>1
  <2>2. \A x \in S : <<x, x>> \notin R
    BY <1>1, <2>1
  <2>3. \A x, y, z \in S : <<x, y>> \in R /\ <<y, z>> \in R => <<x, z>> \in R
    BY <1>1
  <2> HIDE DEF R
  <2>4. S # {}
    BY <1>1
  <2>5. PICK m \in S : \A y \in S : <<m, y>> \notin R
    BY ONLY <1>2, <2>2, <2>3, <2>4, Pictures!LastExists
  <2>6. ASSUME NEW y \in S PROVE m >= y
    <3>1. m \in Int /\ y \in Int /\ ~(m < y)
      BY <1>1, <2>1, <2>5
    <3> QED BY <3>1
  <2> QED BY <2>6
<1>4. top \in S /\ \A y \in S : top >= y
  BY <1>3 DEF Matrix!Max
<1>5. Matrix!Sparkline(c) = [i \in DOMAIN c |-> bar(i)]
  BY DEF Matrix!Sparkline, S
<1> HIDE DEF top
<1>6. top \in Nat /\ top >= 1 /\ \A i \in 1..n : c[i] <= top
  BY <1>1, <1>4
<1>7. DOMAIN Matrix!Sparkline(c) = 1..n /\ \A i \in 1..n : Matrix!Sparkline(c)[i] = bar(i)
  BY <1>5
<1>8. ASSUME NEW i \in 1..n
      PROVE  bar(i) > 0 <=> c[i] > 0
  <2>1. c[i] \in Nat
    OBVIOUS
  <2>2. CASE c[i] = 0
    <3>1. 0 \div top = 0
      BY <1>6
    <3> QED BY <2>2, <3>1
  <2>3. CASE c[i] > 0
    <3> DEFINE q == (24 * c[i]) \div top
    <3>1. 24 * c[i] \in Int
      BY <2>1
    <3>2. q \in Int
      BY <1>6, <3>1
    <3>3. bar(i) = IF q < 1 THEN 1 ELSE q
      BY <2>3
    <3> HIDE DEF q, bar
    <3> QED BY <2>3, <3>2, <3>3
  <2> QED BY <2>1, <2>2, <2>3
<1>9. ASSUME NEW i \in 1..n, c[i] > 0
      PROVE  24 \in Matrix!Range(Matrix!Sparkline(c))
  <2>1. PICK j \in 1..n : c[j] = top
    <3>1. c[i] \in Nat /\ c[i] >= 1 /\ c[i] <= top
      BY <1>6, <1>9
    <3>2. top = 1 => c[i] = top
      BY <3>1
    <3> QED BY <1>1, <1>4, <3>2
  <2>2. (24 * top) \div top = 24
    BY <1>6, SMT
  <2>3. bar(j) = 24
    BY <1>6, <2>1, <2>2
  <2> HIDE DEF bar
  <2> QED BY <1>7, <2>1, <2>3 DEF Matrix!Range
<1> QED BY <1>7, <1>8, <1>9

\* All the denials, agent by agent.
LEMMA TotalsAdd ==
  ASSUME NEW v \in Table
  PROVE  Matrix!SumFunction(v) = Pictures!SumFunctionOnSet([a \in Agent |-> Matrix!Total(v, a)], Agent)
<1> DEFINE P == Agent \X Day
           by == [a \in Agent |-> Matrix!Total(v, a)]
           part == [a \in Agent |-> {a} \X Day]
<1>1. IsFiniteSet(P) /\ DOMAIN v = P /\ \A p \in P : v[p] \in Nat
  BY MatrixAssumption, FS_Product DEF Table
<1>2. Pictures!IsFiniteSet(P) /\ Pictures!IsFiniteSet(Agent) /\ Pictures!IsFiniteSet(Day)
  BY <1>1, MatrixAssumption, MatrixSumsSame
<1>3. /\ \A a \in Agent : part[a] \in SUBSET P
      /\ \A p \in P : \E a \in Agent : p \in part[a]
      /\ \A a, b \in Agent : \A p \in P : p \in part[a] /\ p \in part[b] => a = b
  OBVIOUS
<1>4. ASSUME NEW a \in Agent
      PROVE  by[a] = Pictures!SumFunctionOnSet(v, part[a])
  <2> DEFINE T == {a} \X Day
             h == [d \in Day |-> <<a, d>>]
             f == OfAgent(v, a)
  <2>1. /\ h \in [Day -> T]
        /\ \A p \in T : \E d \in Day : h[d] = p
        /\ \A d, e \in Day : h[d] = h[e] => d = e
    OBVIOUS
  <2>2. T \in SUBSET P /\ Pictures!IsFiniteSet(T)
    <3>1. IsFiniteSet({a}) 
      BY FS_Singleton
    <3> QED BY <3>1, MatrixAssumption, FS_Product, MatrixSumsSame
  <2>3. \A p \in T : v[p] \in Int
    BY <1>1, <2>2
  <2>4. \A d \in Day : f[d] = v[h[d]]
    BY DEF OfAgent
  <2>5. part[a] = T /\ by[a] = Pictures!SumFunctionOnSet(f, Day)
    BY TotalIs
  <2> HIDE DEF T, h, f, part, by
  <2>6. Pictures!SumFunctionOnSet(v, T) = Pictures!SumFunctionOnSet(f, Day)
    BY ONLY <1>2, <2>1, <2>2, <2>3, <2>4, Pictures!SumMove
  <2> QED BY <2>5, <2>6
<1>5. \A p \in P : v[p] \in Int
  BY <1>1
<1> HIDE DEF P, by, part
<1>6. Pictures!SumFunctionOnSet(v, P) = Pictures!SumFunctionOnSet(by, Agent)
  BY <1>2, <1>3, <1>4, <1>5, Pictures!SumOfParts
<1> QED BY <1>1, <1>6, MatrixSumsSame DEF by

\* The rows hold every denial, and every day's sum is of the rows.
LEMMA TrendRows ==
  ASSUME NEW v \in Table
  PROVE  LET shown == Matrix!TrendByAgent(v)
             n == Cardinality(DaysWith(v)) IN
         /\ Matrix!SumFunction([i \in DOMAIN shown |-> Matrix!SumFunction(Matrix!Counts(v, shown[i]))])
              = Matrix!SumFunction(v)
         /\ \A d \in 1..n : Matrix!DenialTrend(v)[d] = Matrix!SumFunction([i \in DOMAIN shown |-> Matrix!Counts(v, shown[i])[d]])
<1> DEFINE T == AgentsWith(v)
           m == Pictures!Cardinality(T)
           n == Cardinality(DaysWith(v))
           s == Matrix!TrendByAgent(v)
           f == [a \in Agent |-> Matrix!Total(v, a)]
           g == [i \in DOMAIN s |-> Matrix!SumFunction(Matrix!Counts(v, s[i]))]
<1>1. Pictures!Once(s, T) /\ s \in [1..m -> T] /\ T \in SUBSET Agent
  BY TrendAgentsList DEF Pictures!Once, AgentsWith
<1>2. Pictures!IsFiniteSet(Agent)
  BY MatrixAssumption, MatrixSumsSame
<1>3. \A a \in Agent : f[a] = Matrix!Total(v, a) /\ f[a] \in Nat /\ (a \notin T => f[a] = 0)
  <2>1. \A a \in Agent : f[a] = Matrix!Total(v, a) /\ f[a] \in Nat
    BY TotalIs
  <2>2. \A a \in Agent : a \notin T => ~(f[a] > 0)
    BY DEF AgentsWith
  <2> HIDE DEF T, f
  <2> QED BY <2>1, <2>2
<1>4. DOMAIN s = 1..m /\ \A i \in 1..m : s[i] \in T /\ s[i] \in Agent
  BY <1>1
<1>5. DOMAIN g = 1..m /\ \A i \in 1..m : g[i] = f[s[i]]
  <2>1. \A i \in 1..m : Matrix!SumFunction(Matrix!Counts(v, s[i])) = Matrix!Total(v, s[i])
    BY <1>4, CountsAre
  <2> QED BY <1>4, <2>1
<1> HIDE DEF T, s, f, g, m
<1>6. Pictures!Naturals(f, Agent) /\ Pictures!Zero(f, Agent \ T) /\ Pictures!Along(g, f, s, T)
  BY <1>3, <1>5 DEF Pictures!Naturals, Pictures!Zero, Pictures!Along, m
<1>7. Pictures!SumFunctionOnSet(g, 1..m) = Pictures!SumFunctionOnSet(f, Agent)
  BY <1>1, <1>2, <1>6, Pictures!SumSome DEF m
<1>8. Matrix!SumFunction(g) = Matrix!SumFunction(v)
  BY <1>5, <1>7, TotalsAdd, MatrixSumsSame DEF f
<1>9. ASSUME NEW d \in 1..n
      PROVE  Matrix!DenialTrend(v)[d] = Matrix!SumFunction([i \in DOMAIN s |-> Matrix!Counts(v, s[i])[d]])
  <2> DEFINE t == Matrix!TrendDays(v)[d]
             k == [a \in Agent |-> v[<<a, t>>]]
             l == [i \in DOMAIN s |-> Matrix!Counts(v, s[i])[d]]
  <2>1. t \in Day /\ DOMAIN Matrix!TrendDays(v) = 1..n
    <3>1. DOMAIN Matrix!TrendDays(v) = 1..n /\ Matrix!TrendDays(v) \in [1..n -> DaysWith(v)]
      BY TrendDaysList, MatrixSumsSame DEF Pictures!Once
    <3> QED BY <3>1 DEF DaysWith
  <2>2. Matrix!DenialTrend(v)[d] = Matrix!SumFunction(k)
    BY <2>1 DEF Matrix!DenialTrend
  <2>3. \A a \in Agent : k[a] = v[<<a, t>>] /\ k[a] \in Nat
    BY <2>1, TotalIs
  <2>4. \A a \in Agent : a \notin T => k[a] = 0
    <3>1. \A a \in Agent : k[a] > 0 => a \in T
      BY <2>1, TotalIs DEF AgentsWith, T
    <3> HIDE DEF k, T
    <3> TAKE a \in Agent
    <3>2. k[a] \in Nat
      BY <2>3
    <3> QED BY <3>1, <3>2
  <2>5. DOMAIN l = 1..m /\ \A i \in 1..m : l[i] = k[s[i]]
    <3>1. \A i \in 1..m : Matrix!Counts(v, s[i])[d] = v[<<s[i], t>>]
      BY <1>4, CountsAre
    <3> QED BY <1>4, <3>1
  <2>6. DOMAIN k = Agent
    OBVIOUS
  <2> HIDE DEF t, k, l
  <2>7. Pictures!Naturals(k, Agent) /\ Pictures!Zero(k, Agent \ T) /\ Pictures!Along(l, k, s, T)
    BY <2>3, <2>4, <2>5 DEF Pictures!Naturals, Pictures!Zero, Pictures!Along, m
  <2>8. Pictures!SumFunctionOnSet(l, 1..m) = Pictures!SumFunctionOnSet(k, Agent)
    BY <1>1, <1>2, <2>7, Pictures!SumSome DEF m
  <2> QED BY <2>2, <2>5, <2>6, <2>8, MatrixSumsSame DEF l
<1> QED BY <1>8, <1>9 DEF s, g, n

LEMMA TrendOf ==
  ASSUME ui.rows \in Table
  PROVE  Matrix!TrendAddsUp
<1> DEFINE v == ui.rows
           s == Matrix!TrendByAgent(v)
           n == Cardinality(DaysWith(v))
           bars == [i \in DOMAIN s |-> Matrix!Sparkline(Matrix!Counts(v, s[i]))]
<1>1. DOMAIN Matrix!TrendDays(v) = 1..n /\ n \in Nat
  <2>1. IsFiniteSet(DaysWith(v))
    BY MatrixAssumption, FS_Subset DEF DaysWith
  <2> QED BY <2>1, TrendDaysList, MatrixSumsSame, FS_CardinalityType DEF Pictures!Once
<1>2. \A i \in DOMAIN s : s[i] \in AgentsWith(v)
  BY TrendAgentsList DEF Pictures!Once
<1> HIDE DEF v, n, s
<1>3. ASSUME NEW i \in DOMAIN s
      PROVE  /\ \A d \in 1..n : bars[i][d] > 0 <=> v[<<s[i], Matrix!TrendDays(v)[d]>>] > 0
             /\ 24 \in Matrix!Range(bars[i])
  <2> DEFINE a == s[i]
             c == Matrix!Counts(v, a)
  <2>1. a \in Agent /\ Matrix!Total(v, a) > 0
    BY <1>2 DEF AgentsWith
  <2>2. bars[i] = Matrix!Sparkline(c)
    OBVIOUS
  <2>3. v \in Table
    BY DEF v
  <2> HIDE DEF a
  <2>4. /\ DOMAIN c = 1..n
        /\ \A d \in 1..n : /\ c[d] = v[<<a, Matrix!TrendDays(v)[d]>>] /\ c[d] \in Nat
        /\ Matrix!SumFunction(c) = Matrix!Total(v, a)
    BY <2>1, <2>3, CountsAre DEF n
  <2> HIDE DEF c, bars
  <2>5. \E d \in 1..n : c[d] > 0
    <3> SUFFICES ASSUME \A d \in 1..n : ~(c[d] > 0) PROVE FALSE
      OBVIOUS
    <3>1. ASSUME NEW d \in 1..n PROVE c[d] = 0
      <4>1. c[d] \in Nat /\ ~(c[d] > 0)
        BY <2>4
      <4> QED BY <4>1
    <3>2. Pictures!IsFiniteSet(1..n)
      BY <1>1, FS_Interval, MatrixSumsSame
    <3>3. Pictures!SumFunctionOnSet(c, 1..n) = 0
      BY <3>1, <3>2, Pictures!SumZero
    <3>4. Matrix!Total(v, a) = 0
      BY <2>4, <3>3, MatrixSumsSame
    <3> QED BY <2>1, <3>4
  <2>6. /\ \A d \in 1..n : Matrix!Sparkline(c)[d] > 0 <=> c[d] > 0
        /\ 24 \in Matrix!Range(Matrix!Sparkline(c))
    BY <1>1, <2>4, <2>5, SparklineDraws
  <2> QED BY <2>2, <2>4, <2>6 DEF a
<1>4. /\ Matrix!SumFunction([i \in DOMAIN s |-> Matrix!SumFunction(Matrix!Counts(v, s[i]))]) = Matrix!SumFunction(v)
      /\ \A d \in 1..n : Matrix!DenialTrend(v)[d] = Matrix!SumFunction([i \in DOMAIN s |-> Matrix!Counts(v, s[i])[d]])
  <2>1. v \in Table
    BY DEF v
  <2> QED BY <2>1, TrendRows DEF s, n
<1> QED BY <1>1, <1>3, <1>4 DEF Matrix!TrendAddsUp, s, v

-----------------------------------------------------------------------------
(* The theorems                                                            *)

\* In every state of the console, the page that is open is in a state of its
\* own inductive invariant.
THEOREM InductiveInvariant == Spec => []IInv
  BY InitIInv, NextIInv, PTL DEF Spec

\* A rule filled in once in the dialog is deployed at most once, whatever is
\* clicked, lost, refused or crashes (DeployRuleDialog.tsx; api.go deployRule).
THEOREM DeployedOnceAlways == Spec => []DeployedOnce
<1>1. IInv => DeployedOnce
  <2>1. CASE page = "agents"
    BY <2>1, DeployingP!IInvImplies, DeployingSame DEF IInv, DeployedOnce
  <2>2. CASE page # "agents"
    BY <2>2 DEF DeployedOnce, Deploying!DeployedOnce
  <2> QED BY <2>1, <2>2
<1> QED BY <1>1, InductiveInvariant, PTL

\* An idempotency key never stands for two requests (DeployRuleDialog.tsx, the
\* key's useMemo; postgres.go BeginIdempotentRequest).
THEOREM KeyMeansPayloadAlways == Spec => []KeyMeansPayload
<1>1. IInv => KeyMeansPayload
  <2>1. CASE page = "agents"
    BY <2>1, DeployingP!IInvImplies, DeployingSame DEF IInv, KeyMeansPayload
  <2>2. CASE page # "agents"
    BY <2>2 DEF KeyMeansPayload, Deploying!KeyMeansPayload
  <2> QED BY <2>1, <2>2
<1> QED BY <1>1, InductiveInvariant, PTL

\* The connectors in use at rest are those enabled, whichever saves overlapped,
\* unless the last rebuild to end failed or was overtaken (integrations.go
\* RebuildCorrelateRegistry).
THEOREM SourcesFollowAlways == Spec => []SourcesFollow
<1>1. IInv => SourcesFollow
  <2>1. CASE page = "settings"
    BY <2>1, SettingsP!IInvImplies, SettingsSame DEF IInv, SourcesFollow
  <2>2. CASE page # "settings"
    BY <2>2 DEF SourcesFollow, Settings!SourcesFollow
  <2> QED BY <2>1, <2>2
<1> QED BY <1>1, InductiveInvariant, PTL

\* A stored secret is replaced only by one typed for it, an emptied field
\* counting as none, or by none after it could not be read (integrations.go
\* resolveSIEMOpenSearchConfig, resolveLibreNMSConfig).
THEOREM SecretKeptAlways == Spec => SecretKept
<1>1. IInv /\ [Next]_vars =>
        [page = "settings" =>
           \A i \in Integration :
             server'.stored[i].secret # server.stored[i].secret
               => \/ <<i, server'.stored[i].secret>> \in log.typed
                  \/ i \in log.unread /\ server'.stored[i].secret = ""]_vars
  <2> SUFFICES ASSUME IInv, [Next]_vars, page = "settings", NEW i \in Integration,
                      server'.stored[i].secret # server.stored[i].secret
               PROVE  \/ <<i, server'.stored[i].secret>> \in log.typed
                      \/ i \in log.unread /\ server'.stored[i].secret = ""
    OBVIOUS
  <2>1. SettingsP!IInv /\ [SettingsP!Next]_vars
    BY StepOfPage DEF IInv
  <2>2. [SettingsP!Next]_(SettingsP!vars)
    BY <2>1 DEF vars, SettingsP!vars
  <2> QED BY <2>1, <2>2, SettingsP!SecretStep
<1>2. Settings!vars = vars
  BY DEF Settings!vars, vars
<1> QED BY <1>1, <1>2, InductiveInvariant, PTL DEF Spec, SecretKept, Settings!SecretKept, Settings!vars, vars

\* What a chart is drawn from is of its configuration, was not too old and had
\* not failed when it was asked for (charts/history.ts fetchHistory).
THEOREM CacheTransparentAlways == Spec => []CacheTransparent
<1>1. IInv => CacheTransparent
  <2>1. CASE page = "explorer"
    BY <2>1, HistoriesInvImplies DEF IInv, CacheTransparent
  <2>2. CASE page # "explorer"
    BY <2>2 DEF CacheTransparent, Histories!CacheTransparent
  <2> QED BY <2>1, <2>2
<1> QED BY <1>1, InductiveInvariant, PTL

\* The lists that give a request up when another is made never show an older
\* answer, or that of another query, after the right one (Denials.tsx,
\* Deployments.tsx and Matrix.tsx, the load effects).
THEOREM NeverGoBackAlways == Spec => NeverGoBack
<1>1. IInv /\ [Next]_vars =>
        [(page = "denials" /\ Denials!Query(ui') = Denials!Query(ui)
            /\ ui.rows.q = Denials!Query(ui))
           => (ui'.rows.q = Denials!Query(ui) /\ ui'.rows.v >= ui.rows.v)]_vars
  BY StepOfPage, DenialsNextInv DEF IInv, DenialsOnward
<1>2. IInv /\ [Next]_vars =>
        [(page = "deployments" /\ ui.loaded /\ Deployments!Query(ui') = Deployments!Query(ui)
            /\ ui.q = Deployments!Query(ui))
           => /\ ui'.q = ui.q
              /\ \A c \in Deployments!Command : ui.rows[c] = "gone" => ui'.rows[c] = "gone"]_vars
  BY StepOfPage, DeploymentsNextInv DEF IInv, DeploymentsOnward, GoneIn
<1>3. IInv /\ [Next]_vars =>
        [(page = "matrix" /\ ui'.days = ui.days /\ ui.q = ui.days)
           => (ui'.q = ui.days /\ \A p \in DOMAIN ui.rows : ui'.rows[p] >= ui.rows[p])]_vars
  BY StepOfPage, MatrixNextInv DEF IInv, MatrixOnward
<1> QED BY <1>1, <1>2, <1>3, InductiveInvariant, PTL
        DEF Spec, NeverGoBack, Denials!DenialsNeverGoBack, Deployments!DeploymentsNeverGoBack,
            Matrix!MatrixNeverGoesBack, Denials!vars, Deployments!vars, Matrix!vars, vars

\* A tile saved before the visit stays saved until it is taken off, as long as
\* no read of the layout failed (Dashboard.tsx, the autosave; Charts.tsx,
\* addToDashboard).
THEOREM SavedTilesKeptAlways == Spec => SavedTilesKept
<1>1. IInv /\ [Next]_vars =>
        [(page \in Layouts!Pages /\ "saved" \in server.tiles
            /\ ~log.blind /\ "saved" \notin log.removed)
           => "saved" \in server'.tiles]_vars
  BY StepOfPage, LayoutsNextInv DEF IInv, LayoutsOnward, Has, Intact
<1> QED BY <1>1, InductiveInvariant, PTL
        DEF Spec, SavedTilesKept, Layouts!SavedTilesKept, Layouts!vars, vars

\* "Saved" at rest means that the master holds what the grid shows, whatever is
\* edited, lost or left while saves are out, unless two saves of the visit were
\* out at once, the grid was brought back while one was, or another page's write
\* was served after the layout had been read (Dashboard.tsx, the autosave).
THEOREM SavedIsSavedAlways == Spec => []SavedIsSaved
<1>1. IInv => SavedIsSaved
  BY DEF IInv, LayoutsInv, LayoutsSettled, Still, SavedIsSaved, Layouts!SavedIsSaved, Layouts!Pages
<1> QED BY <1>1, InductiveInvariant, PTL

\* A layout made from a template or at random fills its screen without gap or
\* overlap, with every widget at its minimum size at least, on every height of
\* the window (Dashboard.tsx randomizeLayout, dashboardTemplates.ts
\* placeTemplate).
THEOREM FillsScreenAlways == Spec => []FillsScreen
<1>1. IInv => FillsScreen
  <2>1. CASE page = "tiling"
    BY <2>1, TilingInvImplies DEF IInv, FillsScreen
  <2>2. CASE page # "tiling"
    BY <2>2 DEF FillsScreen, Tilings!FillsScreen
  <2> QED BY <2>1, <2>2
<1> QED BY <1>1, InductiveInvariant, PTL

\* No agent at 100 % is listed as needing attention but for what no check asks,
\* and whoever is singled out for a version is outnumbered, in a fleet of any
\* size (lib/compliance.ts, lib/attention.ts).
THEOREM OneVerdictPerAgentAlways == Spec => []OneVerdictPerAgent
<1>1. IInv => OneVerdictPerAgent
  <2>1. CASE page \in FleetPages
    BY <2>1, FleetInvImplies DEF IInv, OneVerdictPerAgent
  <2>2. CASE page \notin FleetPages
    BY <2>2 DEF OneVerdictPerAgent, FleetViews!OneVerdictPerAgent, FleetPages
  <2> QED BY <2>1, <2>2
<1> QED BY <1>1, InductiveInvariant, PTL

\* The widgets drawn from one answer add up, in a fleet of any size and with any
\* number of alerts (dashboardWidgets.tsx; lib/compliance.ts, lib/attention.ts).
THEOREM WidgetsAgreeAlways == Spec => []WidgetsAgree
<1>1. IInv => WidgetsAgree
  <2>1. CASE page \in FleetPages
    BY <2>1, FleetInvAddsUp DEF IInv, WidgetsAgree
  <2>2. CASE page \notin FleetPages
    BY <2>2 DEF WidgetsAgree, FleetViews!WidgetsAgree, FleetPages
  <2> QED BY <2>1, <2>2
<1> QED BY <1>1, InductiveInvariant, PTL

\* What the charts and tables drawn of one window show adds up to the same
\* totals and is compared with a period that was recorded, whatever was
\* recorded and whenever the charts were loaded; and so do the trends of the
\* denials (charts/shape.ts, charts/builders, ChartTable.tsx; Matrix.tsx,
\* dashboardWidgets.tsx).
THEOREM TotalsAddUpAlways == Spec => []TotalsAddUp
<1>1. IInv => TotalsAddUp
  <2> SUFFICES ASSUME IInv PROVE TotalsAddUp
    OBVIOUS
  <2>1. Pictures!PartsAddUp /\ Pictures!WindowsCompare /\ Pictures!ChartsAgree /\ Pictures!TablesAgree
    <3>1. CASE page = "gallery"
      BY <3>1, ChartsKnown, Pictures!GalleryAddsUp DEF IInv, Pictures!AddsUp
    <3>2. CASE page # "gallery"
      BY <3>2 DEF Pictures!PartsAddUp, Pictures!WindowsCompare, Pictures!ChartsAgree, Pictures!TablesAgree,
                  Pictures!Loaded
    <3> QED BY <3>1, <3>2
  <2>2. Matrix!TrendAddsUp
    <3>1. CASE page = "matrix"
      BY <3>1, TrendOf DEF IInv, MatrixInv, MatrixTyped
    <3>2. CASE page # "matrix"
      BY <3>2 DEF Matrix!TrendAddsUp
    <3> QED BY <3>1, <3>2
  <2> QED BY <2>1, <2>2 DEF TotalsAddUp
<1> QED BY <1>1, InductiveInvariant, PTL
=============================================================================
