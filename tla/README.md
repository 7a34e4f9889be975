# A TLA+ model of NWDAF

TLA+ modules, TLC configurations and TLAPS proofs about the Network Data
Analytics Function in this repository: what its services keep in memory, how
their goroutines and processes interleave, and what stays true while they do.
`PROJECT.json` maps every definition to the lines it models.

## The system

`cmd/nwdaf` is the main process. It starts one Data Archiver, one Analytics
Engine and one Data Collector per slice as operating-system processes, serves
the dashboard and proxies the API. Services talk through two Redis topics,
`metrics` (collectors to archiver and engine) and `computedMetrics` (engine to
archiver, and back to the engine itself). Collectors and the engine load
plugins, each a process of its own behind hashicorp/go-plugin RPC.

| Component | State | Operations | Hard behaviour | What makes it correct |
|---|---|---|---|---|
| Data Archiver `cmd/darchiver` | map of metrics, Prometheus registry, gauges | AddMetric, CleanupExpiredMetrics, GetAllMetrics | three goroutines on an unlocked map; a registry with a memory of its own | map and registry agree; nobody makes anybody panic; stale entries go |
| Analytics Engine `cmd/analytics_engine` | plugin list, computed-metrics buffers | ProcessMetricWithPlugins, expiry, HTTP handlers, LoadPlugin | plugins that die or hang, feedback through Redis, unlocked readers | a failing plugin costs only itself; only plugins that feed each other keep the feedback going; expired results go |
| Orchestrator `cmd/nwdaf` | map of services | start, terminate, HTTP server | failing starts, early signals, several ways to exit | nothing survives termination; a signal always ends it |
| Data Collector `cmd/dcollector` | plugin list | scrape loop, publish | plugin panics, lost messages | one plugin's failure costs its samples only |
| SARIMA plugins `plugin/analytics` | sample window, model, forecasts, counters | ProcessMetric, GetTimeSeries, Execute | failed predictions, configuration limits | counter, fit and forecasts move together; a due fit is not skipped |
| Moving average plugin | a window per metric | ProcessMetric, Execute | window limits | the mean is that of the last samples |
| HPE, free5GC collectors `plugin/collectors` | token, access reports | Login, Collect | expiring token, failed requests | no sample from a failed request |
| Buffered logger `plugin/plugin_shared` | buffer, mode | Log, With, GetStartupLogs | copies of the logger, mode switch before the fetch | no start-up log is lost |
| Subscription manager `pkg/subscription`, `pkg/database` | map of lists, MongoDB | add, update, delete, load | failure between memory and database, restart | both hold the same subscriptions |
| API routing (proxy of `cmd/nwdaf`, handlers) | none | route, answer | paths that meet no handler | every documented path is served |
| Dashboard `web/app.js` | polling timer, fetches under way, charts, tables, totals, filters | poll, slider, pause, filter, legend, clear | overlapping fetches that nothing cancels; three awaits in each; failures turned into empty answers | one timer; every view of an answer agrees; an answer counts once; paused means paused |
| Redis, NRF, HTTP clients, configuration, utilities, build files | almost none | | | not modelled by themselves |

## Modules

| Module | Models | Checked by | Proved in |
|---|---|---|---|
| `DArchiver` | Data Archiver | `MCDArchiver` with four configurations | `DArchiver_proofs` |
| `MetricTable` | what the archiver promises about the metrics it keeps, abstractly | as the property `Refinement` of `MCDArchiver` | `DArchiver_proofs` |
| `AnalyticsEngine` | Analytics Engine's message loop and handlers, plugin processes, its Redis channel | `MCAnalyticsEngine` with two | `AnalyticsEngine_proofs` |
| `MetricFanout` | what the engine promises about offering metrics and keeping results, abstractly | as the property `Refinement` of `MCAnalyticsEngine` | `AnalyticsEngine_proofs` |
| `Orchestrator` | NWDAF main process | `MCOrchestrator` with two | `Orchestrator_proofs` |
| `Dashboard` | the page's timer, fetches, controls and state | `MCDashboard` with two | `Dashboard_proofs` |
| `PolledPage` | what the page promises about its data, abstractly | as the property `Refinement` of `MCDashboard` | `Dashboard_proofs` |
| `DashboardData` | what charts, tables and the merge make of an answer | `MCDashboardData` | `DashboardData_proofs`, with `DashboardDataLemmas` |
| `SarimaPlugin` | HPE forecasting plugin | `MCSarimaPlugin` | `SarimaPlugin_proofs` |

Before some definitions X stands an operator whose comment says "Mutant of X".
It is X with a plausible bug and is used by nothing; putting it in place of X
makes TLC report the property that `PROJECT.json` lists beside it, which shows
that the property depends on that code.

### DArchiver and MetricTable

One action per access of shared memory, so the goroutines interleave between
any two of them.

- Main loop: `Receive` (the Redis message, stamped), then AddMetric as `Lookup`,
  and either `UpdateGaugeValue`, `WriteBack` or `NewGaugeCollector`, `Insert`.
  `held` is the collector of the entry read at `Lookup` or of the gauge just
  registered: Go copies the map's struct values, and the copy is what AddMetric
  writes back. The value of the message that creates a gauge is never set on
  it, as in the code.
- Cleaner: `StartCleanup`, one `CleanupNext` per key, and for an expired one the
  three steps of deleteMetric, `DeleteMetricReads`, `DeleteMetricUnregisters`,
  `DeleteMetricDeletes`. Go's range copies the entry it yields, so the decision
  may be stale when deleteMetric acts.
- API: `GetAllMetricsNext`, `GetAllMetricsReads`, the two reads per key.
- Prometheus (external): `registry` is the set of registered collectors;
  `help` is what client_golang keeps after Unregister, so `RegisterError` can
  answer with a duplicate or an inconsistent description; MustRegister turns
  either into a panic that ends the process (`Die`).
- `ConcurrentMapFault`: Go may stop the process when a map write overlaps
  another access. It may also not notice, so the model lets both happen.
- Time: one `Tick` is one period of the cleaner's ticker. An entry stores its
  age. Two scheduling assumptions are in `Tick`'s guard: AddMetric lasts less
  than a period, and a scan ends before the tick after next.

`MetricTable` is the archiver without goroutines and Prometheus: a table of the
last value of each name. Messages are applied one by one, each whole and at one
instant; a name leaves only after it was found expired, or with the process.
`DArchiver` implements it with `table` read from the map (`Rows`), `pending`
from the message main is busy with (`Unapplied`) and `condemned` from the
cleaner's `victim` (`Condemned`). The one stale decision the code takes is
visible there: `Remove` does not ask again whether the name is expired, so a
metric refreshed after the cleaner's look is lost all the same.

### AnalyticsEngine and MetricFanout

`ReceiveMessage` takes a message, `Visit` is the expiry and subscription check
for one plugin, `ProcessMetric` and `Execute` are the two RPC calls,
`PublishComputedMetrics` one Redis PUBLISH per result, and `RecoverFromPanic`
the deferred recover() when the call meets a dead plugin. A hung plugin enables
none of them: there is no timeout. The engine reads what it publishes, through
`channel`; `Deliver` may lose a message, as Redis publish does when it fails or
a subscriber's buffer stays full. Handlers copy each wrapper, test the copy and
use it (`CopyWrapper`, `CheckWrapper`, `UseWrapper`; the three computed-metrics
handlers have the same shape), or ask the plugins (`AskPlugin`). What a plugin
computes is any subset of the names it produces.

Nothing in the code keeps a plugin from subscribing to its own results, or
plugins from feeding each other in a circle, and such plugins keep the engine
busy for ever. `ComesToRest` therefore does not promise rest: once collectors
stop, the engine comes to rest again and again, or a plugin hangs, or a plugin
on a circle (`OnCycle`) publishes infinitely often. What it rules out is endless
work that no circle explains. The instance has a plugin that subscribes to
its own result, and without the last case the property is violated.

`MetricFanout` is the engine without RPC, recover(), channel and handlers:
metrics are taken one at a time, each is offered once and in order to every
plugin that subscribes to it, only a dead plugin is passed over, a plugin
executes only right after it took the metric, its result replaces the one before
as a whole, and each name of it is sent once before anything else happens.
`AnalyticsEngine` implements it with `left` (`Left`) the subscribers from `at`
on, `taker` (`Taker`) the plugin whose Execute or publishing is under way,
`unsent` the `outbox` and `board` (`Board`) the buffers that are not nil.

### Orchestrator

`StartMicroservice` starts process `next` and enters it in `microservices` under
`Name(next)`. `StartFails`, `BadSliceExits` and `HTTPServerFails` are the ways
out other than a signal. Terminate is `KillProcess` per key, `AllKilled`,
`WaitForMicroservice` per key, `AllWaitedFor`, `DeregisterFromNRF`. Services may
end at any time (`ServiceEnds`) and go on running when main exits.

### Dashboard and PolledPage

JavaScript runs one handler or continuation at a time, so each is one action.
`fetchData` is cut at its awaits: `FetchData` is the part before the first,
inlined in the three actions that call it (`TimerFires`, `SetPollingInterval`
and `ResumeAutoRefresh`, the last two through `StartPolling`); `FirstResponse`
and `BothResponses` are what Promise.all waits for, `MetricsText` and
`ComputedText` the two continuations with a body, `TextFails` the one exception
the outer catch can meet. `ProceedToComputed` and `Finish` are the stretches of
code several continuations run into. A fetch's record holds how far it is and
which responses were ok. `None` as a text stands for a blank body or no JSON,
which the code treats alike.

`page` is what the user sees: per panel the chart's datasets, those out of view,
those clicked in the legend, the answer in the table, the running total and
whether the chart or the message of an empty answer shows; the set of active
metrics; the overview as last rendered. An answer is its labels and its size.
The legend is Chart.js's own (`web/app.js:129-133` displays it and leaves the click
handler as it is): a click hides or shows a dataset (`LegendClick`), and from then
on the dataset's hidden flag, which `applyFilters` sets, has no effect on it
until an answer brings a new dataset. The browser's timers
are `timers`, a function of handles; the page's own handle is `pollTimer`.

`PolledPage` has polls that owe at most one answer of each kind. `Dashboard`
implements it with `owed` computed from how far each fetch is, `shown` from the
tables and `counted` from the totals. This is what remains of "the newest
answer is shown" when nothing orders the fetches: answers may come in any
order, but each is taken once and whole, and only a poll or Clear Data changes
the page.

### DashboardData

The pure functions of `web/app.js`. The code looks up each field of a metric
under several spellings; the two that occur are the archiver's JSON names and
those `web/README.md` documents, and each lookup is modelled by which of the two
it knows. Times are numbers, values thousandths. Selecting and sorting are
written without recursion: `Arranged` lists a finite set in an order given by
each element's predecessors, so that an element's place is their number;
`ElementsAt` (filter) and `SortByTime` (the stable sort) use it.
`MCDashboardData` builds every answer of both endpoints up to its bounds, one
metric or list per step. The raw table is modelled by the columns that can be
compared with the chart, name and value; the table of computed metrics, which
formats the same rows, is left out.

### SarimaPlugin

`ProcessMetric` and `Execute` as the engine calls them, one after the other.
`config` is what `SetEnvironment` read: any integers as window, refresh interval
and minimum, since the code checks none of them. A negative window makes the
first cut of the buffer panic (`CutPanics`); with a window of 0 there is no
sample to date forecasts from, which, like any panic of the library, is
`RefreshPanics`. Nothing recovers a panic inside the plugin, so its process
ends. Samples are numbered, a forecast is the number of the sample it predicts,
and the model is known by the sample it was fitted at. `Execute` is `Refresh`,
one of the failures `FitFails` and `PredictFails`, or `ReturnRemaining`.
goarima, which is not in the repository, may fail at any call.

A prediction that fails leaves a new model beside old forecasts, and later calls
return those. `ForecastsAreAligned` says exactly what they are: forecasts for as
many samples as are left until the next refresh, in order, all behind the
samples to come by one distance, that from the sample they were made after to
the last fit. The distance is 0 when that fit's prediction succeeded. `RefitOnTime`
is about the fit alone: no call returns a result while one is due.

## Runs

| Run | Instance | Shows |
|---|---|---|
| `archiver` | 2 names, 1 description, 2 values, 2 gauges, TTL 1 | `NoGaugeLeak`, `OnlyForeignPanics`, `ExposedIsStored`, `StalenessBounded` hold in every interleaving of main loop, cleaner and API, and `Refinement` of `MetricTable` |
| `archiver_live` | 3 names, one refused by Prometheus | `ExpiredIsRemoved`: also an entry that lost its gauge leaves in the end |
| `archiver_orphan` | 1 name | violation of `ListedIsRegistered`: see findings |
| `archiver_help` | 1 name, 2 descriptions | violation of `SecondLifeRegisters` |
| `engine` | 2 plugins, the second fed by the first and by itself, 3 names, channel of 2, expiration 0 | `HandlerUsesNoNil`, `EveryPluginIsOffered`, `ComesToRest`, `ExpiredIsDropped`, and `Refinement` of `MetricFanout` |
| `engine_idle` | the same with expiration 1 | violation of `ServedIsNotExpired` |
| `orchestrator` | 3 slices, any one misconfigured | `TerminateStopsTracked`, `WaitFindsKilled`, `SignalEnds` |
| `orchestrator_slices` | 2 slices | violation of `TerminateStopsAll` |
| `dashboard` | 3 fetches, 2 metrics, 3 answers, 2 intervals, 2 handles, 2 filter texts, 1 legend entry that is clicked | `OneTimer`, `LoadingMeansFetching`, `PageAgrees`, `PauseHolds`, `HiddenStaysHidden`, `PollingGoesOn`, and `Refinement` of `PolledPage` |
| `dashboard_unreachable` | 2 fetches | violation of `ConnectedMeansAnswered` |
| `dashboard_data` | 3 metrics in 2 lists, limits of 2, 3 names one of them blank, 3 values one no number | `ChartKeepsNewest`, `RowsArePlotted`, `MergeLosesNothing` |
| `sarima` | 9 samples, windows, intervals and minima of -1 to 3 in every combination | `WindowIsNewest`, `ForecastsAreAligned`, `RefitOnTime`, `ExecutesFromTheMinimumOn` |

Why the bounds are enough. Archiver: the three goroutines meet on one name; the
second name lets the cleaner be at one metric while AddMetric is at another,
and lets a gauge be taken over; a second value tells a fresh gauge from a stale
one; a gauge that the main loop alone holds can be taken again, so two gauges
suffice for a pair of names. TTL 1 is enough for an entry to be young, expired,
and past each of the two periods `StalenessBounded` allows; the theorem covers
the code's TTL of 6 and every other. Engine: two plugins, the second fed by the
first, is the shortest chain with a plugin behind a failing one, and one that
subscribes to what it computes is the shortest circle; the name
`other` stands for every metric nobody subscribes to, a collector's or a
plugin's; the first plugin's result can have two names, so that it is sent in
parts; with expiration 0 a result is fresh at first and expired one tick later,
and the theorems cover every other value; two places in the channel let a raw metric
and a computed one wait together, and overflow. `MaxQueue` stands for the 100
messages of go-redis. Orchestrator: three slices overwrite two entries of the
map. Dashboard: three fetches overlap in every order, and three starts are
enough for the slider to move, or polling to pause and resume, twice while the
first fetch is still out; the second handle is the one a leaked timer would
hold; one answer has both metrics and one has fewer, so an answer can add to or
take from what is shown; the filter matches one of the two. `Clickable` bounds the
legend: only the other one is clicked, in the chart of computed metrics, which
an answer reaches last. DashboardData: the
limits of 50, 100 and 10 are scaled to 2 and the answers have 3 metrics, so
every limit is met and exceeded. A table is no longer than a
chart, there as in the code. SarimaPlugin: windows below, at and above
the minimum, intervals below and above the window, each of them also 0 and
negative, and samples for two refreshes at the longest interval after the
minimum is reached.

Fairness. Archiver: `AddMetric`, `CleanupExpiredMetrics` and `Tick` are weakly
fair: Go runs a goroutine that can run and time passes. Messages, API clients
and the map fault are not fair. Engine: the message loop only; `ExpiredIsDropped`
adds that a collector goes on publishing and says so in its formula. Plugins
need neither live nor answer, and the properties say what is lost when they
hang. Orchestrator: the main goroutine only. Termination needs no fairness of
the services, because SIGKILL does not ask them. Dashboard: the browser fires a
live timer, which is all `PollingGoesOn` needs. Nobody promises an answer, since
the code sets no timeout, and no property waits for one: a fetch that is never
answered leaves "Fetching data..." standing. DashboardData and SarimaPlugin need
none.

Deadlock is checked in every run but `dashboard_data` and `sarima`, which end at
their bounds; `Dead` and `Ended` are the stuttering steps of a process that has
ended.

## Findings

- AddMetric (`cmd/darchiver/main.go:92-96`) can write an entry back after the
  cleaner has unregistered and deleted it. The metric is then listed by the API
  and updated by each message, but Prometheus never sees it again while
  messages keep coming (`archiver_orphan`; README.md:237-238).
- A metric that returns after its expiry with another description panics the
  archiver (`archiver_help`). `FAKE_moving_average.go:168` puts the number of
  samples into the description, so its metrics do this.
- The engine drops expired results only when a message arrives (`engine_idle`;
  `cmd/analytics_engine/main.go:65-67`).
- All slices share one key in the map of services, so only the last slice's
  collector is terminated (`orchestrator_slices`; `cmd/nwdaf/main.go:189, 231`).
- The dashboard reports "Connected" when neither endpoint can be reached
  (`dashboard_unreachable`; `web/app.js:200-201, 240`; `web/QUICKSTART.md:69-71`).

Seen while modelling, with no run of their own:

- A filter holds only until the next answer: `updateChart` replaces the datasets
  and does not apply it (`web/app.js:528`), while the box still shows its text.
  `web/README.md:13, 181-186` describe a filter for the chart and do not say what
  polling does to it. `HiddenStaysHidden` states what does hold: nothing else
  brings a hidden name back.
- The filter has no effect on a dataset that was clicked in the legend, until the
  next answer: Chart.js then no longer looks at the flag `applyFilters` sets.
- One endpoint that hangs keeps the status at "Fetching data..." for as long as
  its newest poll is open, although the other answers (`web/app.js:199-202`: no
  timeout, and `Promise.all` waits for both).
- Plugins that feed themselves or each other keep the engine busy for ever
  (`cmd/analytics_engine/main.go:380-393`): nothing checks subscriptions for
  circles.
- A metric deleted while the API lists it comes back without a name
  (`cmd/darchiver/main.go:114`); the dashboard counts it as an active metric without
  a name and plots it as "Unknown" (`web/app.js:284, 382-384`).
- Rows of the table of computed metrics in the spelling of `web/README.md:141-168`
  show "Invalid Date": `receivedAt` is the only spelling looked up, and "N/A" is
  then parsed as a date (`web/app.js:577, 655-663`).
- `analytics_config.go:29-39` accepts zero and negative settings; a negative
  window ends the plugin at its first sample
  (`HPE_SARIMA_connected_ue.go:136-138`).
- Raw metrics are plotted at the time of plotting, because `receivedAt` is not
  among the names `groupByMetricName` looks up (`web/app.js:396`); computed
  metrics are not affected.
- `updateStatus` writes to `childNodes[1]` of the status element, which in
  `web/index.html:71-74` is the icon, so "Connecting..." stays beside it. The
  variable `status` is what updateStatus was called with.
- A prediction that fails after a fit leaves the old forecasts and resets the
  counter, so forecasts of samples long arrived are returned until the next
  refresh (`HPE_SARIMA_connected_ue.go:217-226`). `ForecastsAreAligned` states by
  how much they are behind.
- `HPE_SARIMA_README.md:44` gives 10 as the minimum of samples; the default is
  15 (`analytics_config.go:13`).

## Proofs

The theorems are about `Safety`, the specification without fairness (the `Spec`
of `SarimaPlugin` and of `MCDashboardData` has none), and hold for every value of
the constants. The assumptions are those the modules name: `ConstantsAssumption`
(TTL is positive, `None` is none of the data), `EngineAssumption` (the plugins'
subscriptions and results are names), `SlicesAssumption`, `DashboardAssumption` (an
answer is empty when it has no labels, the empty filter matches all, 5 seconds
is a position of the slider, legend entries are labels of a chart, `None` is none
of the data), `SarimaAssumption` (the settings are integers), `LimitsAssumption` (the
limits are numbers and a table has no more rows than a raw chart has points,
10 and 50 in the code; "no number" is not one) and `TimesAssumption` (a bounded
choice of times). Every proof is an inductive
invariant with one lemma per action, put together in a lemma about `Next`.

`DArchiver_proofs`: `TypeOK`, `NoGaugeLeak`, `OnlyForeignPanics`,
`StalenessBounded`, `ExposedIsStored`. The first four follow from `IInv`, which
adds to them

- `Registration`, what one goroutine knows of the other between two steps: the
  name main is about to register is not in the map (only main inserts); the
  collector main holds is the registered one or none is; the cleaner's victim
  is in the map until the cleaner deletes it (only the cleaner deletes); when it
  deletes, the name is not registered;
- `Ageing`, a bound on the age of each entry by phase of the cleaner
  (`AgeBound`): an entry the scan has not yet yielded may be one period past
  what a yielded one can be.

`NoGaugeLeak` needs the third and fourth parts of `Registration`, because the
cleaner's delete would otherwise leave a gauge behind; `OnlyForeignPanics`
follows from the first (with `NoGaugeLeak`, a name not in the map is not
registered) and the third. `ExposedIsStored` needs two facts more
(`ExposureInv`): two names never share a gauge, so that setting one does not
change what another exposes, and the gauge main holds shows what main is about
to put into the map. `Implementation` says that the archiver implements
`MetricTable`. Each action is one abstract step or none: the write to the map at
the end of AddMetric, by `WriteBack` or `Insert`, is `Apply`, and
`DeleteMetricDeletes` is `Remove`. It needs `Registration` (the condemned name is
still in the map) and `Stopped` (nothing is under way in a process that has
ended).

`AnalyticsEngine_proofs`: `TypeOK`, `HandlerUsesNoNil` and the action property
`EveryPluginIsOffered`. `Offering` says that the plugins before the one being
visited have taken the metric or do not run. Every way to the next plugin goes
through `NextPlugin`, so one lemma about it serves five actions, and a second one
(`NextPluginLeaves`) does the same for `Implementation`, the refinement of
`MetricFanout`. That one needs `Addressed` besides the types: the plugin about to
be called is one that subscribes, so it is among those left.

`Orchestrator_proofs`: `TypeOK`, `WaitFindsKilled`, `TerminateStopsTracked`, for
every number of slices. `Started` says that a running service has its own entry
of the map unless a later slice took it; `Termination` follows the two loops of
terminate.

`Dashboard_proofs`: `TypeOK`, `OneTimer`, `LoadingMeansFetching`, `PageAgrees`, the
action properties `PauseHolds` and `HiddenStaysHidden`, and `Refinement`: the page
implements `PolledPage` for every number of fetches, every set of answers and
every filter. The invariant is in three parts that different actions disturb:
`TimersOK`, `FetchesOK` and `DataOK`. `PageAgrees` is not inductive without the
types of the two panels and an answer's being empty exactly when it has no
labels; `LoadingMeansFetching` needs the places the calls are at (`FetchOK`). The
lemmas about the page (`MetricsProcessed` to `ClearKeepsOK`) say what each
operation makes of any page; then one lemma per action shows both that the
invariant is kept and which step of `PolledPage` it is: `StepGivesUp` and
`StepDelivers` cover all continuations of fetchData. `PauseHolds` is then read
off the abstract page. `HiddenIsKept` proves `HiddenStaysHidden`: `Filtered`, part
of `DataOK`, says that a name that is out of view without a click does not match the
text in its box, so running both filters again after a key in the
other box changes nothing; the other steps leave a panel's hidden names alone or
bring an answer to it (`Veils`).

`SarimaPlugin_proofs`: `TypeOK`, `WindowIsNewest`, `ForecastsAreAligned`,
`RefitOnTime` and the action property `ExecutesFromTheMinimumOn`, for every
window, refresh interval and minimum. The invariant adds `Counting` (the counter
is the distance from the sample the model was fitted at, which ties the code's
counter to the model's age), `Consecutive` (the forecasts left are for samples in
a row, so that the first one tells all) and `Filled` (once the window has
reached the minimum it stays there). The window is the function `Newest` of
the number of samples; `KeepsNewest` shows that appending and cutting go from
one to the next, without induction.

`DashboardData_proofs`: `MergeLosesNothing`, `ChartKeepsNewest` and
`RowsArePlotted`, for every limit and answers of any length. The invariant is
`WellFormed`: an answer is lists of metrics, and a plugin lists a forecast under
its name. The rest is what the operators do with such answers, in
`DashboardDataLemmas`:

- Ordering. `ArrangedInOrder`: the numbers of predecessors are a one-to-one
  correspondence of the set and 1..n, so `Arranged` lists each element once and
  in order. `ElementsAtInOrder` and `SortInOrder` follow, the second for the
  order by time and then by position, which is what stable means.
- Flattening. `FlattenPlaces`: the positions of the flat list correspond one to
  one to the positions in the lists, <<which list, which place in it>>.
  `FlattenSelected` adds that an element is in the lists of its own name as often
  as in all of them, hence `MergeLosesNothing`.
- The induction the second needs is over positions. The library's induction
  theorems cannot be instantiated here, so `LeastNat` and `NatSet` obtain what is
  needed, for sets of numbers, from the well-foundedness of strict inclusion
  among the sets 1..n; with them `FlattenExists` shows that the recursive
  function inside `FlattenSeq` exists.

`ChartKeepsNewest` compares how often each point occurs before and after
(`SuffixIsNewest`, `KeptAreNewest`). `RowsArePlotted` counts: the points that
sort after one of an answer's last `MaxRows` metrics stand behind it in the
answer, so there are fewer of them than the chart keeps; hence the assumption on
the limits.

Only model-checked: the liveness properties (`ExpiredIsRemoved`, `ComesToRest`,
`ExpiredIsDropped`, `SignalEnds`, `PollingGoesOn`), which need fairness and
ENABLED, out of the prover's reach. Every other property of a passing run is the
statement of a theorem. The prover cannot handle RECURSIVE either, and no module
uses it.

## Not modelled

Payloads that do not unmarshal, logging, the text of responses, failures that
end a service before it has state (ports in use, no Redis), the counter
`metric_number`, the configuration reader, build and deployment files, the
static file server. The parts that are planned are these.

## Plan

1. Done: `DArchiver` with `MetricTable`, `AnalyticsEngine` with `MetricFanout`,
   `Orchestrator`, `Dashboard` with `PolledPage`, `DashboardData`, `SarimaPlugin`,
   each with its proofs.
2. `DCollector` with the HPE and free5GC plugins and a lossy Redis, and an
   abstract specification of the pipeline (a sample is delivered at most once
   and in order) it implements by refinement.
3. `SubscriptionManager` with the database, failures and restarts, against an
   abstract store. Nothing in the repository calls it yet.
4. `PluginStart`: buffered logger, `SetEnvironment`, Serve, LoadPlugin.
5. `ApiRouting`, the moving average.
6. Abstract specifications for `Orchestrator` (a group of services that is shut down
   together) and `SarimaPlugin` (a source of forecasts), and their refinement.

A module that is proved about uses functions and folds, never RECURSIVE.
