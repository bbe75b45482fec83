------------------------------ MODULE Console ------------------------------
(* The web console: one page is open at a time, and each page is a module of *)
(* its own over the same variables.  A behaviour starts on any page; the     *)
(* properties here are what the pages, together, promise an operator.        *)
EXTENDS Integers, FiniteSets

CONSTANTS
  Filters, Agent, MaxCalls, MaxChanges, MaxMoves, MaxFaults,    \* of several pages
  Fresh, Chart, MaxVisits, MaxEdits,                            \* layouts
  GridCols, ViewRows, Targets, MinRows, MaxRandomRows,          \* tilings
  Groups, Occurrences, Machine, RecordOnly, Final, Slow,        \* denials, deployments
  Profiles, FleetSize, AlertLimit, MaxPolls,                    \* the fleet
  MaxSubmits,                                                   \* rule deployments
  Alerts, Suggestion, SuggestedFor, Member, Solo, Day, Windows, \* other lists
  Integration, Secrets,                                         \* settings
  Configuration, TTL, MaxTime, MaxLoads,                        \* chart requests
  Days, Instants, Ages, Subjects, Observed, MaxRecords,         \* chart inputs
  TopSeries, MatrixLimits, HeatLimits, TreeLimits, TopBars, TopSlices, TopPareto,
  TopCards, MinHours

\* what the cache keeps serves for a while (charts/history.ts TTL_MS)
ASSUME CacheAssumption == TTL \in Nat \ {0}
\* new tiles get an id no tile had (Dashboard.tsx, Charts.tsx: lib/uuid.ts randomUUID)
ASSUME IdAssumption == {"saved", "default", "dashboard", "left"} \cap (Fresh \cup Chart) = {}
\* the grid has 12 columns (dashboardGrid.ts GRID_COLS), and a random layout is made for
\* 9 to 28 rows (Dashboard.tsx randomizeLayout), its cells at least 3 by 3
ASSUME ScreenAssumption ==
  /\ GridCols = 12 /\ ViewRows \subseteq Int
  /\ MinRows \in Int /\ MaxRandomRows \in Int /\ 3 <= MinRows /\ MinRows <= MaxRandomRows
\* an agent tells its mode as the kernel's file does (grpc.rs current_selinux_mode), and
\* is of unknown mode until it has (schema.sql, agents); the lists are cut at whole numbers
ASSUME FleetAssumption ==
  /\ FleetSize \in Nat /\ AlertLimit \in Nat
  /\ \A a \in Profiles : /\ a.mode \in {"enforcing", "permissive", "disabled", "unknown"}
                         /\ {a.connected, a.targeted, a.alerts} \subseteq BOOLEAN
\* agents and days are finitely many, and a day is a number (Matrix.tsx, trendDays)
ASSUME MatrixAssumption == IsFiniteSet(Agent) /\ IsFiniteSet(Day) /\ Day \subseteq Int
\* charts are of one whole day or more, and keep one name at least of each side of a
\* matrix and of each level of a tree; what is counted was seen by now, is told apart in
\* three dimensions and is worth nothing or more (charts/history.ts, charts/shape.ts)
ASSUME ChartAssumption ==
  /\ Days \subseteq Nat \ {0} /\ Instants \subseteq Int /\ Ages \subseteq Nat
  /\ Subjects \subseteq [1..3 -> Nat \ {0}]
  /\ \A kind \in Observed : kind[1] \in Nat /\ kind[2] \in Nat
  /\ {TopSeries, TopBars, TopSlices, TopPareto, TopCards} \subseteq Nat
  /\ {MatrixLimits, HeatLimits} \subseteq [1..2 -> Nat \ {0}]
  /\ TreeLimits \in [1..3 -> Nat \ {0}]

VARIABLES page, server, ui, calls, log
vars == <<page, server, ui, calls, log>>

Layouts == INSTANCE DashboardLayout
Tilings == INSTANCE Tiling
Denials == INSTANCE DenialsPage
Deployments == INSTANCE DeploymentsPage
FleetViews == INSTANCE Fleet
Deploying == INSTANCE Deploy WITH Agent <- SuggestedFor, MaxEdits <- MaxEdits + 1
OneAgent == INSTANCE AgentDetail WITH MaxChanges <- MaxChanges + 1
AlertList == INSTANCE AlertsPage
Suggestions == INSTANCE SuggestionsPage WITH Agent <- SuggestedFor
Matrix == INSTANCE MatrixPage WITH MaxChanges <- MaxChanges + 1
Runs == INSTANCE RunsPage
Settings == INSTANCE SettingsPage WITH MaxMoves <- MaxMoves + 1
Histories == INSTANCE ChartHistory
Pictures == INSTANCE ChartProofs      \* ChartPictures, and what is proved of it

Init ==
  \/ Layouts!Init \/ Tilings!Init \/ Denials!Init \/ Deployments!Init \/ FleetViews!Init
  \/ Deploying!Init \/ OneAgent!Init \/ AlertList!Init \/ Suggestions!Init \/ Matrix!Init
  \/ Runs!Init \/ Settings!Init \/ Histories!Init \/ Pictures!Init

\* the page open takes the step
Next ==
  \/ page \in Layouts!Pages /\ Layouts!Next
  \/ page = "tiling" /\ Tilings!Next
  \/ page = "denials" /\ Denials!Next
  \/ page = "deployments" /\ Deployments!Next
  \/ page \in {"compliance", "widgets"} /\ FleetViews!Next
  \/ page = "agents" /\ Deploying!Next
  \/ page = "agent" /\ OneAgent!Next
  \/ page = "alerts" /\ AlertList!Next
  \/ page = "suggestions" /\ Suggestions!Next
  \/ page = "matrix" /\ Matrix!Next
  \/ page \in Runs!Pages /\ Runs!Next
  \/ page = "settings" /\ Settings!Next
  \/ page = "explorer" /\ Histories!Next
  \/ page = "gallery" /\ Pictures!Next

\* What each of these pages assumes of its own steps: as one page is open, it
\* comes to fairness for the step of that kind that this page takes.
Fairness ==
  /\ WF_vars(\/ Deployments!RevertTick \/ OneAgent!Tick \/ AlertList!Tick("alerts")
             \/ Suggestions!Tick("suggestions") \/ Runs!Tick)
  /\ WF_vars(\/ Deployments!Reads \/ OneAgent!Reads \/ AlertList!Reads("alerts")
             \/ Suggestions!Reads("suggestions") \/ Runs!Reads)
  /\ WF_vars(\/ Deployments!Shows \/ OneAgent!Shows \/ AlertList!Shows("alerts")
             \/ Suggestions!Shows("suggestions") \/ Runs!Shows)
  /\ WF_vars(Deployments!Ends \/ OneAgent!Ends \/ AlertList!Ends \/ Suggestions!Ends \/ Runs!Ends)

Spec == Init /\ [][Next]_vars
FairSpec == Spec /\ Fairness

-----------------------------------------------------------------------------
\* A tile saved before the visit stays saved until it is taken off
\* (Dashboard.tsx, the autosave; Charts.tsx, addToDashboard).
SavedTilesKept == Layouts!SavedTilesKept

\* "Saved" at rest means that the master holds what the grid shows, but for the
\* three races named there: the grid brought back while a save is out, two
\* saves out at once, another page's write served after the read
\* (Dashboard.tsx, the autosave).
SavedIsSaved == Layouts!SavedIsSaved

\* A layout made at random or from a template fills its screen exactly
\* (Dashboard.tsx randomizeLayout, dashboardTemplates.ts placeTemplate).
FillsScreen == Tilings!FillsScreen

\* The lists that give a request up when another is made never show an older
\* answer, or that of another query, after the right one (Denials.tsx,
\* Deployments.tsx and Matrix.tsx, the load effects).
NeverGoBack ==
  Denials!DenialsNeverGoBack /\ Deployments!DeploymentsNeverGoBack /\ Matrix!MatrixNeverGoesBack

\* An undo shown under way is eventually shown ended (Deployments.tsx, the
\* refresh while a revert is pending; RevertButton.tsx).
UndoneLeaves == Deployments!UndoneLeaves

\* The compliance page, the attention list and the widgets say the same of an
\* agent (lib/compliance.ts, lib/attention.ts).
OneVerdictPerAgent == FleetViews!OneVerdictPerAgent

\* The dashboard's widgets drawn from one answer add up (dashboardWidgets.tsx).
WidgetsAgree == FleetViews!WidgetsAgree

\* A rule filled in once in the dialog is deployed at most once
\* (DeployRuleDialog.tsx; api.go deployRule).
DeployedOnce == Deploying!DeployedOnce

\* An idempotency key never stands for two requests (DeployRuleDialog.tsx, the
\* key's useMemo; postgres.go BeginIdempotentRequest).
KeyMeansPayload == Deploying!KeyMeansPayload

\* The pages that give no request up still end up showing what the master
\* holds for the query they are left on (AgentDetail.tsx, Alerts.tsx,
\* Suggestions.tsx, Collections.tsx, CollectionsPanel.tsx).
Converge ==
  /\ OneAgent!ShowsTheAgent /\ AlertList!AlertsConverge
  /\ Suggestions!SuggestionsConverge /\ Runs!RunsConverge

\* A stored secret is replaced only by one typed for it, an emptied field
\* counting as none, or by none after it could not be read (Settings.tsx;
\* integrations.go resolveSIEMOpenSearchConfig, resolveLibreNMSConfig).
SecretKept == Settings!SecretKept

\* The connectors in use at rest are those enabled, whichever saves overlapped,
\* unless the last rebuild to end failed or was overtaken (integrations.go
\* RebuildCorrelateRegistry).
SourcesFollow == Settings!SourcesFollow

\* A load takes from the cache nothing that failed and nothing older than the
\* cache allows, and at rest a chart shows its own configuration
\* (charts/history.ts fetchHistory).
CacheTransparent == Histories!CacheTransparent

\* What charts and tables show of one window adds up to the same totals, and is
\* compared with a period that was recorded (charts/shape.ts, charts/builders,
\* ChartTable.tsx; the trends of Matrix.tsx and dashboardWidgets.tsx).
TotalsAddUp ==
  /\ Pictures!PartsAddUp /\ Pictures!WindowsCompare /\ Pictures!ChartsAgree /\ Pictures!TablesAgree
  /\ Matrix!TrendAddsUp
=============================================================================
