# SimplySE in TLA+

SimplySE manages SELinux on a fleet of machines: an **agent** on every machine
(Rust, `agent/`) follows the audit log and runs rules; one **master** (Go,
`master/`) keeps the fleet's state in PostgreSQL and OpenSearch, talks to the
agents over one gRPC stream each, and serves a dashboard (`frontend/`).  This
directory holds TLA+ modules of the parts where something can go wrong that a
test would hardly reach, the TLC configurations that check them, and proofs
that hold for every value of their constants.

Paths below are relative to the repository's root.

## The system

### The agent

| part | state | operations | what makes it hard |
|---|---|---|---|
| permissive windows, `agent/src/permissive.rs` | the policy store (`semanage permissive`), a JSON state file, sleeping tokio tasks, one `LOCK` | `start`, `stop`, `expire`, `recover` | semanage and the file are two places with no transaction between them; crashes, failing calls, a wall clock against monotonic timers, an operator at the shell |
| session, `agent/src/grpc.rs` | the stream, a channel of 64 outgoing messages | `run`, `connect_and_serve`, `handle_server_message` | the stream ends at any moment and loses what is in it; commands run one at a time inside the select loop |
| disk buffer, `agent/src/buffer.rs` | a file of one JSON event per line | `push`, `drain` | a partial drain rewrites the file; what the channel accepted may still be lost |
| collectors, `agent/src/collector/` | a position in the audit log, pending records by event id | `tail`, `netlink`, `correlate`, `parser` | rotation, records of one event far apart, a bounded table of pending events |
| actions, `agent/src/action/` | none of its own | `execute` per command type | I/O, each an external tool |
| SELinux state and access checks, `selinux_info.rs`, `selinux_access.rs` | none | inventory, `evaluate` | reads of selinuxfs |

### The master

| part | state | operations | what makes it hard |
|---|---|---|---|
| sessions and hub, `server/server.go`, `hub.go` | `Hub.agents`: one channel of 16 per agent; `agents` rows | `Session`, `Register`, `Dispatch`, unregister | an agent's new session overlaps its old one; each ends on its own |
| commands, `server/dispatch.go`, `store/postgres` | `commands` rows: pending, sent, acked, failed | `DispatchCommand`, `FlushPendingCommands`, `UpdateCommandAck` | the row and the message are written one after the other, by requests, flushes and answers at once |
| undo, `server/revert.go` | undo rows pointing at their original | `RevertCommand`, `completeRevertIfApplicable`, expiry of stale undos | double clicks, late answers, deletes of what is on its way |
| collection runs, `server/collect.go` | `domain_collections` rows | `Start`, `StartScan`, `Stop`, `StopScan`, `GenerateSuggestion`, `OnAck`, `tick` | requests, a ticker and answers act on what they read before |
| suggestions, `api/api.go`, `store/postgres` | `suggested_modules` rows | request, complete, claim, release, review | two operators, late and duplicated answers |
| idempotent requests, `api/api.go` | `idempotency_keys` rows | begin, complete | a crash in between |
| ingestion, `cmd/master/main.go`, `queue/nats` | JetStream consumers, the rules engine's windows | heartbeat and event handlers | at-least-once delivery into counters |
| denial verdicts, `server/denialcheck.go`, `store/opensearch/resolve.go` | flags in the denial index | probe, `HandleVerdicts` | events indexed after the verdict |
| history, `history/`, `store/postgres/history.go` | counts in memory, hourly rows | record, flush, backfill, retention | failed and repeated flushes, restarts |
| integrations, `api/integrations.go`, `correlate/` | settings rows, the registry of connectors | save, test, `RebuildCorrelateRegistry` | an empty secret means the stored one; two saves rebuild at once |
| layouts, `api/dashboard.go` | one row | read, replace whole | several writers, no version |
| certificates, deployment | files | scripts | sequential |

### The console

A React application (`frontend/src/`).  Every page keeps what it shows in its
own components and gets it from the master by requests that may be lost or
overtake each other; no page shares state with another, but through the master
and a cache of chart requests.

| part | state | operations | what makes it hard |
|---|---|---|---|
| dashboard, `pages/Dashboard.tsx`, `lib/dashboardGrid.ts`, `lib/dashboardTemplates.ts` | the grid, the last synced layout, a debounce timer | load, autosave, edit, template, random layout, undo | saving what was never loaded; answers of earlier saves; exact tilings |
| chart explorer, `pages/Charts.tsx` | a configuration | add to the dashboard | reads and rewrites a layout the dashboard writes too |
| denials, deployments, matrix | filters, page, rows; busy marks | load, refresh, act, undo | a new request cancels the old one, or should |
| alerts, suggestions, one agent, collections | the same, and opened rows | load every few seconds, acknowledge, review, fix, switch, stop, generate | nothing is cancelled: any answer is shown when it comes |
| agents and the rule dialog, `components/DeployRuleDialog.tsx` | selection, fields, an idempotency key | deploy, set permissive | retries after a lost answer; fields changed meanwhile |
| settings, `pages/Settings.tsx` | two forms | test, save | secrets are never sent back to it |
| compliance, attention, widgets, `lib/` | none | scores, majorities, counts | ties, rounding, cut lists, unknown modes |
| charts, `charts/` | a cache of requests | slice, shape, draw, tabulate | late failures; one set of rows regrouped a dozen ways |

### How they interact

A dashboard request inserts a `commands` row, hands the message to the hub, and
marks the row sent.  The agent's session goroutine sends what is on its
channel; the agent runs the command and answers; the session's receive loop
updates the row, completes an undo or a suggestion, asks for a denial check and
tells the collector.  The collector starts a permissive window on the agent by
such a command, ends it by another, and keeps its own row.  The agent ends the
window itself at its deadline whatever the master does.  Everything on the
master is shared through single SQL statements: no handler holds a transaction
over two of them.

### What makes each part correct

* permissive windows: a domain the tool loosened comes back without the
  master's help (unless the clock is set back, see below); what an operator
  loosened is never touched; an extension wins over the earlier deadline.
* commands and undo: the list tells the truth about the machine: an answered
  entry never becomes pending or sent again, and only a further answer changes
  it; an entry goes only when its rule was never applied or is gone, an undo
  follows what it undoes and is sent once.
* sessions: a connected agent is reachable, and gets what it missed.
* collection runs: one at a time, each ends, a closed one stays closed and keeps
  its one suggestion.
* suggestions: one approval wins, nothing is installed twice or left looking
  approved, a rejection holds against approvals under way.
* requests: a rule filled in once is deployed once, and a key stands for one rule.
* the console: what was saved stays saved, and "saved" is true but for three
  interleavings (below); lists show what was asked for last, at once where
  requests are given up and in the end where they are not; a stored secret is
  replaced only by one typed for it; figures drawn from the same rows agree.
* (planned) delivery: an event is neither lost nor
  counted twice; verdicts: only what was tested is marked resolved.

## Modules

| module | models | state and actions |
|---|---|---|
| `PermissiveWindow` | the promise of the agent about a domain | a status per domain: enforced, window, forgotten, manual |
| `Permissive` | `agent/src/permissive.rs` | policy store, state file, timers, process, clock; one action per stretch between two awaits of `start`, `stop_locked`, `expire` and `recover`, plus crash, operator and clocks |
| `PermissiveProofs` | theorems about `Permissive` | |
| `Commands` | `dispatch.go`, `hub.go`, `server.go` (session, answers), `revert.go`, the agent's command loop | rows, hub, channels, answers, flush goroutines, Delete requests; one action per SQL statement or channel operation |
| `Collection` | `collect.go` and `domain_collections` | the rows, what each actor (requests, ticker, answer handler) read and is about to write, the stream |
| `Approvals` | `RequestModuleSuggestion`, the answer's completion, approve and reject in `api.go`, `suggested_modules` | rows of suggestions and of their commands, requests and approvals between two statements, messages and answers counted, what each machine has and what its inventory says |
| `Console` | the pages below, one open at a time, and what they promise together | `page`, `server`, `ui`, `calls`, `log`, shared by every page's module |
| `DashboardLayout` | `Dashboard.tsx` (load, autosave, edits), `Charts.tsx` (`addToDashboard`), `api/dashboard.go` | the grid, the synced layout, the timer, the requests of both pages; pages can be left and opened again |
| `Tiling` | `randomizeLayout`, `dashboardTemplates.ts`, `dashboardGrid.ts` | cells being cut, then dressed; templates placed |
| `Loads` | what pages share: requests sent, answered in any order, lost | |
| `DenialsPage` | `Denials.tsx`, on its two routes | filters, page, text being typed, rows, a group's actions |
| `DeploymentsPage` | `Deployments.tsx`, `RevertButton.tsx` | rows with their undo state, the refresh while one is pending |
| `MatrixPage` | `Matrix.tsx`, the dashboard's denial trend | the window of days, counts by agent and day |
| `PolledList` | what `Alerts.tsx` and `Suggestions.tsx` share | filter, page, rows; an interval |
| `AlertsPage`, `SuggestionsPage` | those pages | acknowledgements; opened and focused suggestions, reviews |
| `AgentDetail` | `AgentDetail.tsx` | the agent of the address, the agent shown, an opened denial, fixes, switches |
| `RunsPage` | `Collections.tsx`, `CollectionsPanel.tsx` and the two start buttons | the runs as shown, the busy slot |
| `Deploy` | `Agents.tsx`, `DeployRuleDialog.tsx`, `deployRule` in `api.go`, `idempotency_keys` | selection, dialog and key; the master's handling in steps, with crashes |
| `SettingsPage` | `Settings.tsx`, `integrations.go` | forms; stored settings, the connectors in use, each save in steps |
| `Fleet` | `compliance.ts`, `attention.ts`, `Compliance.tsx`, the counting widgets of `dashboardWidgets.tsx` | polled lists of agents and alerts; the rest is operators on them |
| `ChartHistory` | `charts/history.ts`, `useChartInput.ts` | the cache, the loads of one chart |
| `ChartShape`, `ChartPictures` | `charts/shape.ts`, `datasets.ts`; the chart builders, `registry.ts`, `ChartTable.tsx` | records and one chart's input; the pictures and tables are operators on it |
| `CommandsProofs`, `CollectionProofs`, `ApprovalsProofs` | theorems about those modules | |
| `Listing` | `Array.sort` with a comparator, wherever a page or a chart sorts | the elements of a set, each once, none after one it should precede |
| `DeployProofs`, `SettingsProofs` | theorems about one page each, which `ConsoleProofs` carries over | |
| `ChartProofs` | finite sums and listings, then what every chart and table of `ChartShape` and `ChartPictures` shows of any rows | |
| `ConsoleProofs` | theorems about `Console`: the safety of its pages, their figures and sums included | |
| `MCPermissive`, `MCCommands`, `MCCollection`, `MCApprovals`, `MCConsole` | instances for TLC | |

The pages' modules share their variables so that `Console` can be their
disjunction: `server` is what the master holds for the page that is open, `ui`
the state of its components, `calls` the requests not yet answered, `log`
history and the counters of the bounds.  Only the dashboard and the explorer are
followed from one to the other, because only they share something, the layout;
a behaviour starts on any other page and stays there.

Definitions keep the source's names where they have one; `PROJECT.json` gives
the lines of each.  A definition whose name ends in `_slip` is the same
operation with a plausible bug; the run of a property is repeated with it in
place of the right one to see that the property notices.

### What the models abstract

* **Permissive.** Times are what is left of them: `left[d]` is `until_unix`
  minus the wall clock.  Timers of a domain are a set, since two that wake at
  the same moment do the same.  A deadline long past cannot be told from one
  `MaxBack` past.  The state file is read and written whole under `LOCK`, so an
  entry per domain is enough; the temporary file and the rename make the write
  atomic.  An unreadable file, which the code takes for an empty one, is left
  out.  Two premises about the operator's shell: no `semanage permissive -a` by
  hand on a domain while an operation of the tool is under way on it, nor while
  the tool has an entry of its own for it.  Outside of them nobody can tell
  whose permissive mode it is, and the tool would remove the operator's
  (`permissive.rs:169`, `:219`).
* **Commands.** Rules are independent: undoing one does not touch another.
  Whether two minutes or ten minutes have passed is left open wherever the SQL
  asks, so every order of those timeouts is covered.  A message's content is its
  row.  The undo plan is present exactly for commands that are not undos.
  `LIMIT 16` and the channel's capacity are one constant.
* **Collection.** One domain of one agent.  Command ids are reused once nothing
  holds them.  A start may time out, and a window may reach its end, at any
  moment; `stop_sent_at` is an age in units, with `StopRetry < StopGiveUp` as in
  the code.  The flush of a reconnect is one step after the registration: module
  `Commands` has it in detail.  Statements of the database succeed; a dispatch
  may fail before or after the command left.
* **Approvals.** One module name; a suggestion made at the end of a collection
  has a name of its own and follows the same rules.  What `Commands` has in
  small steps is one step: insert, hand over, mark, with the failures in
  between as outcomes.  A lost message is one never delivered.  Whether an
  acknowledged install is two minutes old is left open.  An operator rejects
  what the page showed as pending, now or earlier.  Premises: the reads of
  `moduleAlreadyThere` succeed (a failing one counts as "not there" in the
  code), the update of an acknowledged command succeeds, and nobody deletes a
  command's entry meanwhile.

* **Console.** Data is what a page tells apart: a row of a list is known by the
  query it was asked with and what the master held then; master-side work that
  other modules have in detail is one step (a review: `Approvals`; an undo:
  `Commands`; a run: `Collection`).  A confirmation dialog that is refused is no
  step.  A page that is left takes its state with it and its answers are
  ignored.
* **DashboardLayout.** A layout is the set of its tiles and one value for how
  they look, so two layouts that differ only in places are told apart, and their
  arithmetic is in `Tiling`.  Whether the debounce has passed is left open.
* **Tiling.** Widget types are kept by the size rules that tell them apart.
  The random cut falls anywhere the code's mean of two draws can; which cell is
  cut, and in which direction, is left open (the code prefers large cells).
* **Lists.** Two pages of rows.  A group of denials has one request per
  occurrence.  On the deployments page, `Slow` says whether an answer may take
  longer than the 2 s refresh; the run takes it not to, see Fairness.
* **Deploy.** A configuration is one filling-in of one dialog, numbered.  The
  hash of the request is the request.  Keys are never generated twice.
* **SettingsPage.** The fields of a setting are its secret and whether it is
  enabled; the others go with these.
* **Fleet.** An agent is its mode, connection, policy, versions, and whether it
  has an open alert; times and names are left out.  A fleet is a sequence in
  the order of names.
* **ChartHistory.** A load needs a slice of its own, one shared with other
  charts, and the status; a minute is the unit of time.
* **ChartShape, ChartPictures.** Numbers are exact: an average is a pair of a sum
  and a weight, and is compared by cross-multiplication.  The slices of a load
  are read at one moment; the code's truncation at the master's row limit, which
  it reports, is left out.  Of the pictures only the numbers are kept.

## Runs

Bounds are named in the modules' `CONSTANTS`.

| run | what it shows | bounds, and why they are enough |
|---|---|---|
| `permissive` | `Recorded`: a domain we loosened is on file or known lost. `DeadlineCovered`: every recorded window has a recovery, an expiry or a timer that will close it, with the clock set back by up to a second. `ExpiryIsDue`: an extended window is not ended by its first timer. `AgentRemovesOnlyItsOwn`. `KeepsPromise`: `Permissive` implements `PermissiveWindow`. | two domains, three starts (open, extend, and one for the other domain), durations 1 and 2 so that an extension may be shorter or longer, one crash, two seconds back |
| `permissive_live` | `EndsWindows`: every window ends by the agent alone, as long as the wall clock is set back by one second at most | two starts, one crash, two seconds back, so that the premise excludes something: without it TLC finds the window that stays |
| `permissive_forgotten` | **violated**: a crash between `semanage -a` and the write leaves a window nobody will end | one start, one crash |
| `commands` | `AnswerStands`: an answered row changes only as it leaves or as a further answer says. `OneUndoInFlight`, `UndoFollowsOriginal`, `LeavesOnceUndone` | a rule, its undo and a second undo after a timeout; two operators; one session with a channel of one; the master may restart |
| `commands_reconnect` | `UndoHandedOnce`, `NotLeftBehind`, `NewestServes`, the types | two overlapping sessions, a rule and its undo, so that a channel of one is full |
| `commands_ghost` | **violated**: an entry deleted while pending was already running | one rule, one session |
| `collection` | `OneActiveRun`, `ClosedStays`, `CollectingWasStarted`, the types | two runs, two stops at a time (one superseding the other), one lost stream, one pending command; no assumption on how fast the agent answers |
| `collection_live` | `RunsEnd` with an agent that comes back; `SuggestionStays` | one run, two requests, a lost stream |
| `collection_silent` | **violated**: `RunsEnd` with an agent that is gone for good | one run, one request |
| `approvals` | `OneWinner`, `OneInstallEach`, `ApprovedWasSent`, `RejectionHolds`, the types | two machines, one suggestion and two installs, so that an install can be tried again after a release; its command may reach the agent twice, an install once; two operators |
| `approvals_final` | **violated**: an approved suggestion is rejected | one machine, one suggestion, two operators |
| `console` | what the pages promise, one property each: see below | per page: two requests in flight (a late answer and the one that replaced it), two moves of the operator, one request lost or one crash, one or two changes on the master |

The properties of `console`:

| property | what it says | where the bounds bite |
|---|---|---|
| `SavedTilesKept` | a tile saved before the visit stays saved until it is taken off, unless a read of the layout failed | two visits, two edits, an addition from the explorer whose read and write straddle them |
| `SavedIsSaved` | "saved", at rest, means the master holds what the grid shows, through edits while a save is timed or out, failed saves and crossing visits; three interleavings are excepted by name, see the disagreements below | the same; each exception is needed within them |
| `FillsScreen` | templates and random layouts fill the screen without gap or overlap, no widget under its minimum, no list longer than its cell | templates for 9, 15, 22 and 28 rows of the window, clamped as the code does; random layouts with the clamp's 9 to 28 rows scaled down to 6 and 7 and 4 cells instead of 6 to 9: the smallest screens on which a cut in both directions, and a cell that cannot be cut, occur |
| `NeverGoBack` | on the pages that give requests up, rows are never replaced by an older answer or another query's | two filters, two pages, two routes, two requests out |
| `UndoneLeaves` | an undo shown under way is eventually shown ended | one command of each sort |
| `Converge` | the pages that give nothing up end up showing what the master holds for the query they are left on; on the runs pages no button stays busy (that a slot freed by another row's answer lets a second request out is not judged) | two filters or two agents, two requests out |
| `DeployedOnce`, `KeyMeansPayload` | a filled-in rule is deployed at most once, and a key is never used for another | three edits (opening counts), two submits, one fault: a lost answer, a crash, or an outcome that was not kept |
| `SecretKept` | a stored secret is replaced only by one typed, an emptied field being none, or by none at a save that could not read it | both integrations, one move more than elsewhere (three: type or enable, save, and once more or the other one), one fault: a request, its answer, a read, a write or a rebuild |
| `SourcesFollow` | at rest the connectors in use are those enabled, however the two integrations' saves overlap or fail, unless the last rebuild to end failed, or had begun to read before the other save stored | the same |
| `OneVerdictPerAgent`, `WidgetsAgree` | pages and widgets do not contradict each other about an agent, and their counts add up | every fleet of up to three agents out of five profiles that pass, fail and do not answer every check; one alert per request, so that the limit of 500 is met |
| `CacheTransparent` | no load takes a failed or expired request from the cache, and at rest a chart shows its own configuration; whether an older refresh of the same configuration is shown last is not asked (`useChartInput.ts:20-31` does not prevent it) | three loads over two ticks, an entry living one |
| `TotalsAddUp` | everything drawn or listed of one set of rows has the same total; a comparison is with a period that was recorded | two records of three subjects, three kinds of value and three ages, hour, day and week buckets around the start of a week and of a day, every tail cut at one or two |

### Fairness

* `Permissive!Fairness`: tokio timers fire, its mutex is fair (strong fairness
  for those who wait for `LOCK`), systemd restarts the agent, and semanage does
  not fail for ever.  No fairness for any command of the master: that a window
  ends without one is the point.  The other premise of `EndsWindows` is in its
  statement: the wall clock is set back by one second at most in all.
* `Collection!MasterFairness`: goroutines run on, the ticker ticks, time passes,
  a dispatch does not fail for ever.  `AgentFairness` adds that the agent
  reconnects (`grpc.rs` `run` loops for ever) and that the stop the master waits
  for does not fail for ever.  `collection_live` also takes the agent to answer
  later than the master's next statement (semanage takes seconds) and sooner
  than the next unit of time (`Timely`); without it an answer may overtake
  `BeginStopping` every time and be ignored every time.  `SilentSpec` has only
  the master's part and an agent that is gone.

* `Console!Fairness`, for the pages that promise something in the end: timers
  fire, the master answers, answers are shown and actions come to an end.  None
  for the operator, whose moves are bounded: he stops acting.  Two of these are
  premises.  A lost request is not lost for ever (one fault).  And on the
  deployments page an answer is back before the next refresh (`Slow` is FALSE):
  the refresh gives the request before up, so with answers that take longer
  than 2 s no answer is ever shown and `UndoneLeaves` does not hold.  As one
  page is open at a time, fairness of the disjunction over pages is fairness of
  the open one.

## What the violated runs show

1. **A window nobody ends** (`permissive.rs:184`).  `semanage permissive -a`
   runs before the entry is written.  A crash in between leaves the domain
   permissive with no record, and the next start takes it for the operator's.
   Writing the entry first would close the gap.
2. **An entry deleted from under a running rule** (`revert.go:216`).  `pending`
   does not mean that nothing was applied: the message is handed over before the
   row is marked sent.
3. **A run that never ends** (`collect.go:434`).  Every resend of the stop sets
   `stop_sent_at` again, and the give-up is measured by it.
4. **A decision that is not final** (`postgres.go:731`).  Neither the rejection
   nor the completion looks at the row's status: a rejection overtakes an
   approval whose installs go on, and a second answer puts a decided row back to
   pending.  `OneWinner` and `OneInstallEach` hold as long as the command is
   answered once, which their statements say.

Two races of the suggestions contradict comments and have no run: the answer
may come before the row it completes, which then says `generating` for good
(`dispatch.go:178`); and "never install the same module twice" (`api.go:540`)
holds for one suggestion, but two suggestions of one module, approved together,
both find nothing in progress and both install.

More was met, most of it in the console, and has no run, as it is outside of what its
properties promise or a premise of theirs:

* after a failed read of the layout the first edit overwrites the saved one
  with the default (`Dashboard.tsx:164`; the comment at `:226` says "it can
  never"), which is why `SavedTilesKept` excludes a failed read;
* the wall clock set back by two seconds or more while a window is open: its
  timer, which sleeps by the monotonic clock, fires too early, `expire` returns
  (`permissive.rs:265-267`) and arms nothing again, so the window stays until
  the agent restarts or somebody stops it, against "the way back must never
  depend on anyone remembering" (`permissive.rs:8-9`).  `DeadlineCovered` and
  `EndsWindows` have this as their premise;
* the dashboard says "saved" of a layout the master does not hold in three
  interleavings, which `SavedIsSaved` excepts by name: with A saved and the
  write of an edit B out, going back to A sets no timer (`Dashboard.tsx:233`),
  and the answer then calls B synced and "saved" (`:239-241`), so the grid shows
  A and the master keeps B; of two writes out at once either may be served last;
  and a write of an earlier visit or of the explorer may be served after this
  visit has read;
* two additions from the explorer at once lose one (`Charts.tsx:31`);
* an edit taken back within the debounce leaves "saving" on screen
  (`Dashboard.tsx:229`), and leaving the page within it loses the edit;
* the scorecard compares each category with the previous period whether or not
  the history covers it (`html.tsx:247`, `shape.ts:517`), against "a comparison
  is only honest if the history covers the whole previous period"
  (`shape.ts:505`); `TablesAgree` speaks of covered periods through `Delta`;
* the Pareto chart's 100 % is that of the ten largest (`stats.ts:324`), and an
  hourly picture is drawn for hours without an observation (`registry.ts:110`);
* the compliance score is rounded, so a fleet of fifty or more with one agent
  that fails one check may show 100 (`compliance.ts:65`);
* a deployment that succeeds closes whichever dialog is open by then
  (`Agents.tsx:175`), and a key whose outcome was not kept stays in progress for
  good (`api.go:815`): nothing is deployed twice, and the retry is refused;
* the mark "a fix was requested" belongs to a row's place, not to its denial
  (`AgentDetail.tsx:93`), and an answer about a denial closed meanwhile is shown
  with the one open (`:83`);
* a stored secret that cannot be read when its integration is saved with the
  field left empty is overwritten by none (`integrations.go:127`), which
  `SecretKept` allows;
* of two saves at once, the rebuild that read before the other save stored may
  be the last to replace the connectors (`integrations.go:50`), and a rebuild
  that fails is only logged: the connectors of an earlier state stay in use, the
  exceptions of `SourcesFollow`;
* a command answered twice shows the second answer, `acked` turned into `failed`
  or back (`postgres.go:311`).

Two more disagreements were met and have no run: `README.md` says a pending
command is never resent, while `FlushPendingCommands` does resend it; and
`RecordSuggestion`'s comment says a failed run can be retried, while
`GenerateSuggestion` refuses everything but `collected`.

## What is proved

All theorems are of the form `Spec => []Inv`, or `Spec => [][A]_vars` for what a
step may never do, and hold for every value of the constants that the named
assumptions allow.  In each module some of the properties are not inductive
alone; `IInv` is the conjunction of named parts that is, and is proved in three
facts: `InitIInv`, `NextIInv` (one lemma per action or group of actions), and
one theorem per property that follows from it.

| module | theorems | assumed of the constants |
|---|---|---|
| `PermissiveProofs` | `TypeCorrect`, `RecordedAlways`, `DeadlineCoveredAlways`, `ExpiryIsDueAlways`, `OnlyItsOwn`, `PromiseKept` | `DurationsAssumption`, `RetryAssumption`, `BoundsAssumption`: durations are positive, bounds are numbers |
| `CommandsProofs` | `TypeCorrect`, `OneUndoInFlightAlways`, `UndoFollowsOriginalAlways`, `UndoHandedOnceAlways`, `NotLeftBehindAlways`, `AnswerStandsAlways`, `NewestServesAlways`, `LeavesOnceUndoneAlways` | `CommandBounds`: there is a command, a rule, a session and room for a message |
| `CollectionProofs` | `TypeCorrect`, `OneActiveRunAlways`, `CollectingWasStartedAlways`, `ClosedStaysAlways`, `SuggestionStaysAlways` | `CollectionBounds`: bounds are numbers, `StopRetry < StopGiveUp` |
| `ApprovalsProofs` | `TypeCorrect`, `OneWinnerAlways`, `OneInstallEachAlways`, `ApprovedWasSentAlways`, `RejectionHoldsAlways` | `ApprovalBounds`, `MachineAssumption` |
| `DeployProofs`, `SettingsProofs` | `InductiveInvariant` of each page | none |
| `ChartProofs` | lemmas only, the last being `GalleryAddsUp`: in every state of the gallery, parts add up, windows compare, charts and tables agree | `Known` and `Observable`, which are hypotheses of the lemmas there; `ConsoleProofs` has them from `ChartAssumption` (`ChartsKnown`) |
| `ConsoleProofs` | `DeployedOnceAlways`, `KeyMeansPayloadAlways`, `SourcesFollowAlways`, `SecretKeptAlways`, `CacheTransparentAlways`, `NeverGoBackAlways`, `SavedTilesKeptAlways`, `SavedIsSavedAlways`, `FillsScreenAlways`, `OneVerdictPerAgentAlways`, `WidgetsAgreeAlways`, `TotalsAddUpAlways` | `CacheAssumption` (`TTL` is positive), `IdAssumption` (a new tile's id is no old one's), `ScreenAssumption` (12 columns, a random layout of at least three rows), `FleetAssumption` (a profile's mode is one of the kernel's or unknown), `MatrixAssumption` (agents and days are finitely many, days are numbers), `ChartAssumption` (a window is of one day or more, a cut keeps a name at least, nothing is counted less than nothing) |

### Permissive

The bounds on starts, crashes and the clock are any numbers, so what is proved
is about every finite behaviour of the agent.  `IInv` adds to the properties

* `OneHolder`: one operation holds `LOCK`, and none outlives the process;
* `StepKnows`: what a step may rely on about the entry and the policy store
  since its operation took `LOCK` (a start about to record has no entry of ours
  and nothing else loosened the domain; a removal has one);
* `EntryKnows`: an entry of ours never covers an operator's domain, and a
  forgotten one has neither entry nor operation;
* `TodoIsDue`: what `recover` set aside as expired is due, up to the clock set
  back since.

`DeadlineCovered` is the property that needs the rest: an extension adds a timer
for the new deadline, a failed expiry adds one that wakes later, and a restart
makes up for the timers that were lost.  `PromiseKept` is the refinement: only
`Add`, `Rollback`, `DeleteOk`, the operator's steps and a crash move a domain's
status, and each is a step of `PermissiveWindow`; that a crash forgets one
window at most follows from `OneHolder`.

### Commands

* `NoneIsBlank`: a number no row has yet has been neither handed over nor
  requested, so an insert starts from nothing;
* `RowsTellTruth`, `AcksTrue`: a row says acknowledged, and an answer on its way
  says success, only of what the agent ran; a row that is an undo is of a
  command that ran.  `UndoFollowsOriginal` needs both: the row is the only thing
  a revert looks at;
* `OneUndo`: no two undos of one command are in flight, which says of every pair
  of rows what `OneUndoInFlight` says by counting them;
* `RequestKnows`, `FlushKnows`, `DeleteKnows`: what a request, a flush and an
  operator's Delete carry from their reads to their writes.  A flush works off
  rows that are no undos, which is why `UndoHandedOnce` survives a reconnect;
* `NobodyForgotten`: a pending command that nobody has handed over is still
  before the flush of the session the hub holds, listed or about to be.
  `NotLeftBehind` is its last moment, when that flush is over.

### Collection

* `OneActive` for every pair of runs, from the unique index on active
  runs (`schema.sql:203`) and from what a stop or an answer may set a row to;
* `ActorKnows`: an actor about to mark a run collecting has seen its start
  succeed, whatever other actors did to the row meanwhile; only requests
  generate suggestions;
* `AnswersTrue`: an answer of success to a start means that it happened, also
  when it comes late, after the run was stopped or another one begun;
* `SuggestedIsDone`: only a finished run has a suggestion, so that no step which
  reopens or closes a run meets one.

`ClosedStays` and `SuggestionStays` follow from the shape of each `UPDATE`'s
condition together with these.

### Approvals

* `HandlersKnow`: which suggestion, command and machine a handler in progress is
  about;
* `ReviewedWasGenerated`, `ClaimStands`: a row whose approval is past the claim
  is pending only if its suggestion was generated again since.  This is the
  exception that `OneWinner` states and the run `approvals_final` shows to be
  needed;
* `ChecksHold`: an approval about to install looked for an install of the same
  suggestion there, and none was made since, unless it was generated twice;
  with it `OneInstallEach` is inductive;
* `SentWasMade`: what an approval counts as sent was made, for
  `ApprovedWasSent`.

### The console

`ConsoleProofs` shows first that one page is open at a time and a step of one
page leaves the others' part of the invariant alone (`PageStays`, one lemma per
page).  Its `IInv` is therefore one implication per page, and each page is
proved on its own.

* **Deploy** (`DeployProofs`).  A *use* of a key is a dialog that holds it or a
  request sent with it.  `UsesAgree`: a key goes with one configuration and one
  request at every use.  `ClaimsAgree`: and with the one the master claimed it
  for.  `OneRuns`: one request at most is past the claim of its key, and has not
  deployed anything as long as it has only claimed it.  `DeployedWasClaimed`:
  what was deployed and can still be submitted has its key claimed, so a retry
  is refused or answered from what was kept, also after a crash.
* **Settings** (`SettingsProofs`).  `OneEach`: an integration has one request at
  a time.  `TypedKnown`, `CarriedKnown`: a secret on its way to the database was
  typed or is the stored one, read before, or is none because that could not be
  read.  `SourcesKnown`: what a rebuild under way has read is what is stored,
  unless the other integration was stored since it began; so when the last one
  ends and is not such a one, the connectors are those enabled.
* **Chart cache** (`HistoriesInv`).  `RequestsKnown`: the cache never
  refers to a request that failed.  `UsesFresh`: a load under way has requests
  that were fresh when it began, and one that failed did so since.
  `ShownFollows`: until the live load ends, the chart may show another
  configuration.
* **Lists** (denials, deployments, matrix).  One request at most is waited for,
  it is for what the page is left on, and the rows are no newer than its answer,
  nor that than what the master holds.
* **Layout** (`LayoutsInv`).  As long as the saved tile was not taken off and no
  read failed, it is everywhere (on the master, in each write, in each answer,
  on the loaded grid) or it is nowhere.  Outside of the three interleavings that
  `SavedIsSaved` excepts (`log.raced`), one save of the open dashboard is out at
  most and nobody else's write is served after its read; so a save that
  succeeded, and what "saved" speaks of, is what the master holds, and the grid
  is what was sent or synced, or has the timer of a later edit set.
* **Screens** (`TilingInv`).  While a random layout is cut, the cells fill the
  screen: each is inside, no two overlap, and every unit square is covered; a
  cut keeps that, and leaves no cell under the smallest widget.  Dressing puts
  into each cell what fits there.  The templates fill the screen as bands of
  rows, stretched to the rows there are (`Bands`, `Stretch`, `TemplateFills`).
  In the run the random cut is scaled down; the proof has it at its real size.
* **Verdicts** (`FleetInv`).  The two facts about numbers: four checks are few
  enough that an agent failing one of them never rounds to a score of 100
  (`OneFailureShows`), and for a field an agent is marked as a minority in, there
  is a value more agents have (`MinorityIsOutnumbered`).

* **Widgets** (`FleetInvAddsUp`).  The modes divide the agents
  (`ModesPartition`), so their bars sum to the fleet.  Every agent
  that is offline or not enforcing is on the attention list, and because offline
  ranks first, a list cut at any length shows as many of the offline ones as it
  has room for (`Ranks`, `Beginning`, `AttentionShown`).  The failing alerts are those of
  different agents, never more than the alerts answered (`FailingCounted`), and
  no rounding makes a whole score of a failure or a bar wider than its track
  (`WholeScore`, `WidthFits`).
* **Pictures** (`GalleryInv`).  What the gallery holds is drawn from records of
  its own past; the rest says what is true of anything so drawn, below.
* **Trend** (`TrendOf`).  Every denial of the window is in one agent's row under
  its day, and has a bar there; the busiest day of a row has a bar of full
  height; the dashboard's points are the rows summed by day.

`Deploy` and `SettingsPage` are proved in modules of their own, which
`ConsoleProofs` instantiates with the console's variables; `DeployingSame` and
`SettingsSame` show that their next-state relation is the one of the console's
page.  `Console` takes the pictures from `ChartProofs`, which extends
`ChartPictures`, so that what is proved there is said of the console's own.

### Charts and tables

`TotalsAddUp` says that figures reached by different groupings of the same rows
agree, whatever the rows.  Three layers lead to it.

* **Sums and listings.**  The models sum with the folds of the community
  modules and sort with `Listing`, both defined by `CHOOSE`.  Induction is over
  the sets of subsets instead of a predicate (`SubsetInduction`,
  `SetInduction`): a sum has the value it should at every subset of its domain
  (`SumAdds`), so it may be taken over parts (`SumOfParts`), carried along a
  bijection (`SumMove`) or confined to what is not zero (`SumSupport`); a finite
  set has a listing in any strict order (`ListExists`).
* **What the shapes keep.**  A list of categories, the points of a series, the
  cells of a matrix and each level of a tree *divide* the rows: every row is in
  one part and the rest is in "others", if anything is left over (`ListRows`,
  `HeadAndRest`, `SeriesParts`, `KeptDivides`, `MatrixParts`, `HierarchyTree`).
  That is what makes the totals one total, for every place a list is cut at.
  Charts and tables then spread those parts without losing one: pareto lines
  rise to the whole, marimekko columns and waterfall steps begin where the one
  before ended, a tree flattened for a table tells each node once, an average
  lies between the extremes (`ParetoRises`, `MarimekkoSpans`, `WaterfallEnds`,
  `FlattenTold`, `ExtremeAverages`).
* **What the master answers.**  A window is cut into buckets that begin an
  hour, a day or a week, and every row the master counted falls in one of them
  (`StartsAre`, `WindowIs`, `InRange`); the slices asked for separately, by
  bucket, by dimension and by hour, are of the same records (`SliceSum`,
  `RowsAgree`).  The previous period is compared only if the oldest record dates
  from its beginning or before (`ComparesWindows`).

### Only model-checked

* All liveness: `EndsWindows`, `RunsEnd`, `UndoneLeaves` and `Converge` rest on
  fairness and `ENABLED`, which are out of the prover's reach.
* What the alerts, suggestions, agent and collections pages promise, which is
  `Converge`, part of that liveness.
* That the models are the code: nothing is proved of the Rust, Go and
  TypeScript themselves.

## Not modelled, and the plan

Done: every module of the table above, and a theorem for every safety property
that a passing run checks.  What is left:

1. A composition of `Collection` and `Permissive` for commands that reach the
   agent late.
2. Delivery: the disk buffer, the outgoing channel, JetStream, and the handlers
   that count and index.  Verdicts against events indexed meanwhile; the status
   of an agent against heartbeats and `MarkOffline`; the history recorder's
   counts against failed flushes and restarts; the position in a rotated log and
   the bounded correlation of audit records.  They are small next to what is
   modelled.

Left out for good: external tools behind `action/`, selinuxfs reads, gRPC, TLS
and HTTP plumbing, queries of OpenSearch and of the integrations, certificates
and deployment scripts.  Of the console: texts and translations
(`i18n/`, `wiki/`), the generated `design-reference/support.js`, navigation,
theme, layout and wording; the status pill of the top bar and the widgets that
only list rows; and the charts that compute with reals (histogram, box plot,
densities, scatter plots, correlations), for which TLA+'s integers have no
faithful form.
