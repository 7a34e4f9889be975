------------------------------ MODULE Dashboard ------------------------------
(***************************************************************************)
(* The dashboard page, web/app.js: polling timer, overlapping fetches and  *)
(* the state of the page.                                                  *)
(*                                                                         *)
(* JavaScript runs one event handler or continuation at a time, so each is *)
(* one action.  fetchData awaits three times: both responses (line 199),   *)
(* the text of one (206) and of the other (224).  Between two of its parts *)
(* anything else may happen, another fetchData included: a new one starts  *)
(* at every tick of the timer, every move of the slider and every resume,  *)
(* and nothing cancels the old ones.                                       *)
(*                                                                         *)
(* An answer is what a body holds: the names in it and how many items.     *)
(* What charts and tables make of the items is in DashboardData.           *)
(***************************************************************************)
EXTENDS Naturals, FiniteSets

CONSTANTS
  Labels,      (* names of metrics                                         *)
  Answers,     (* answers the servers give, [labels, size]                 *)
  Intervals,   (* positions of the slider, in seconds                      *)
  Handles,     (* timer handles of the browser                             *)
  Filters,     (* texts typed into a filter box                            *)
  Hits,        (* the labels that contain a filter's text                  *)
  NoFilter,    (* the empty text                                           *)
  MaxFetches,  (* bound: calls of fetchData                                *)
  Clickable,   (* bound: the legend entries that are clicked, [kind, label] *)
  None         (* no handle, no timer, no answer                           *)

ASSUME DashboardAssumption ==
  /\ Answers \subseteq [labels : SUBSET Labels, size : Nat]
  /\ \A a \in Answers : a.size = 0 <=> a.labels = {}
  /\ 5 \in Intervals /\ Intervals \subseteq 2..60
  /\ Hits \in [Filters -> SUBSET Labels]
  /\ NoFilter \in Filters /\ Hits[NoFilter] = Labels
  /\ MaxFetches \in Nat \ {0}
  /\ Handles # {}
  /\ Clickable \subseteq [kind : {"metrics", "computed"}, label : Labels]
  /\ None \notin Answers /\ None \notin Intervals /\ None \notin Handles

VARIABLES
  isPolling,        (* the checkbox, and this.isPolling                    *)
  pollingInterval,  (* the slider, and this.pollingInterval                *)
  pollTimer,        (* the handle kept in this.pollTimer                   *)
  timers,           (* the browser: the interval of each live timer        *)
  started,          (* number of calls of fetchData                        *)
  fetch,            (* the calls of fetchData                              *)
  status,           (* what updateStatus was called with last              *)
  lastUpdate,       (* "Last update" shows a time, no longer Never          *)
  filter,           (* the two filter texts                                *)
  page              (* the two panels, uniqueMetrics and the overview      *)

timerVars == <<isPolling, pollingInterval, pollTimer, timers>>
vars == <<timerVars, started, fetch, status, lastUpdate, filter, page>>

Kinds    == {"metrics", "computed"}
Ids      == 1..MaxFetches
Outcomes == {"pending", "ok", "failed"}

\* hidden are the datasets out of view; clicked are those with a click on their
\* name in the legend, which the filter has no power over.
Panel == [datasets : SUBSET Labels, hidden : SUBSET Labels, clicked : SUBSET Labels,
          table : Answers \cup {None}, total : Nat, shown : {"chart", "empty"}]

Fetch == [pc : {"unused", "responses", "metricsText", "computedText", "done"},
          metrics : Outcomes, computed : Outcomes]

\* What each await waits for: text is read of a response that is ok only.
FetchOK(f) ==
  /\ f \in Fetch
  /\ f.pc \in {"unused", "done"} => f.metrics = "pending" /\ f.computed = "pending"
  /\ f.pc = "responses" => "pending" \in {f.metrics, f.computed}
  /\ f.pc \in {"metricsText", "computedText"} =>
       f.metrics # "pending" /\ f.computed # "pending"
  /\ f.pc = "metricsText" => f.metrics = "ok"
  /\ f.pc = "computedText" => f.computed = "ok"

TypeOK ==
  /\ isPolling \in BOOLEAN
  /\ pollingInterval \in Intervals
  /\ pollTimer \in Handles \cup {None}
  /\ timers \in [Handles -> Intervals \cup {None}]
  /\ started \in Ids
  /\ DOMAIN fetch = Ids
  /\ \A i \in Ids : FetchOK(fetch[i]) /\ (fetch[i].pc = "unused" <=> i > started)
  /\ status \in {"loading", "connected", "disconnected"}
  /\ lastUpdate \in BOOLEAN
  /\ filter \in [Kinds -> Filters]
  /\ page \in [metrics : Panel, computed : Panel, unique : SUBSET Labels,
               overview : [metrics : Nat, computed : Nat, unique : SUBSET Labels]]

(***************************************************************************)
(* The page.                                                               *)
(***************************************************************************)

NewPanel == [datasets |-> {}, hidden |-> {}, clicked |-> {},
             table |-> None, total |-> 0, shown |-> "chart"]

UpdateOverview(p) ==
  [p EXCEPT !.overview = [metrics  |-> p.metrics.total,
                          computed |-> p.computed.total,
                          unique   |-> p.unique]]

\* The message replaces the chart; chart data, table and totals stay.
HandleEmptyResponse(p, kind) == [p EXCEPT ![kind].shown = "empty"]

\* New datasets carry no hidden flag, whatever the filter says, and the chart
\* library keeps the legend's clicks with the old ones.
UpdateChart(panel, a) ==
  [panel EXCEPT !.datasets = a.labels, !.hidden = {}, !.clicked = {}]

\* None stands for a text that is blank or no JSON.
IsEmpty(a) == a = None \/ a.size = 0

ProcessMetrics(p, a) ==
  IF IsEmpty(a) THEN HandleEmptyResponse(p, "metrics")
  ELSE UpdateOverview(
         [p EXCEPT !.metrics = [UpdateChart(p.metrics, a) EXCEPT !.shown = "chart",
                                                         !.total = @ + a.size,
                                                         !.table = a],
                   !.unique = @ \cup a.labels])

\* Mutant of ProcessComputedMetrics: the total is set, not added to.
ProcessComputedMetricsSets(p, a) ==
  IF IsEmpty(a) THEN HandleEmptyResponse(p, "computed")
  ELSE UpdateOverview(
         [p EXCEPT !.computed = [UpdateChart(p.computed, a) EXCEPT !.shown = "chart",
                                                          !.total = a.size,
                                                          !.table = a]])

ProcessComputedMetrics(p, a) ==
  IF IsEmpty(a) THEN HandleEmptyResponse(p, "computed")
  ELSE UpdateOverview(
         [p EXCEPT !.computed = [UpdateChart(p.computed, a) EXCEPT !.shown = "chart",
                                                          !.total = @ + a.size,
                                                          !.table = a]])

ApplyFilter(panel, text) ==
  [panel EXCEPT !.hidden = (panel.hidden \cap panel.clicked)
                             \cup ((panel.datasets \ Hits[text]) \ panel.clicked)]

\* Both panels, whichever box was typed into.
ApplyFilters(p, texts) ==
  [p EXCEPT !.metrics = ApplyFilter(@, texts["metrics"]),
            !.computed = ApplyFilter(@, texts["computed"])]

(***************************************************************************)
(* Fetching.                                                               *)
(***************************************************************************)

Unused == [pc |-> "unused", metrics |-> "pending", computed |-> "pending"]
Asked  == [Unused EXCEPT !.pc = "responses"]
Done   == [Unused EXCEPT !.pc = "done"]

\* The part of fetchData before its first await.
FetchData ==
  /\ started < MaxFetches
  /\ started' = started + 1
  /\ fetch' = [fetch EXCEPT ![started + 1] = Asked]
  /\ status' = "loading"

\* The end of fetchData, reached whatever the two responses were.
Finish(i, p) ==
  /\ fetch' = [fetch EXCEPT ![i] = Done]
  /\ page' = p
  /\ status' = "connected"
  /\ lastUpdate' = TRUE
  /\ UNCHANGED <<timerVars, started, filter>>

\* fetchData from line 223 on, the metrics done with.
ProceedToComputed(i, f, p) ==
  \/ /\ f.computed = "ok"
     /\ fetch' = [fetch EXCEPT ![i] = [f EXCEPT !.pc = "computedText"]]
     /\ page' = p
     /\ UNCHANGED <<timerVars, started, status, lastUpdate, filter>>
  \/ /\ f.computed # "ok"
     /\ Finish(i, HandleEmptyResponse(p, "computed"))

\* One endpoint has answered or failed, the other has not.
FirstResponse(i, kind, outcome) ==
  LET f == [fetch[i] EXCEPT ![kind] = outcome]
  IN  /\ fetch[i].pc = "responses"
      /\ fetch[i][kind] = "pending"
      /\ "pending" \in {f.metrics, f.computed}
      /\ fetch' = [fetch EXCEPT ![i] = f]
      /\ UNCHANGED <<timerVars, started, status, lastUpdate, filter, page>>

\* Mutant of BothResponses: metricsResponse.ok is not looked at.
BothResponsesUnchecked(i, kind, outcome) ==
  LET f == [fetch[i] EXCEPT ![kind] = outcome]
  IN  /\ fetch[i].pc = "responses"
      /\ fetch[i][kind] = "pending"
      /\ "pending" \notin {f.metrics, f.computed}
      /\ fetch' = [fetch EXCEPT ![i] = [f EXCEPT !.pc = "metricsText"]]
      /\ UNCHANGED <<timerVars, started, status, lastUpdate, filter, page>>

\* Promise.all resolves and fetchData goes on.
BothResponses(i, kind, outcome) ==
  LET f == [fetch[i] EXCEPT ![kind] = outcome]
  IN  /\ fetch[i].pc = "responses"
      /\ fetch[i][kind] = "pending"
      /\ "pending" \notin {f.metrics, f.computed}
      /\ \/ /\ f.metrics = "ok"
            /\ fetch' = [fetch EXCEPT ![i] = [f EXCEPT !.pc = "metricsText"]]
            /\ UNCHANGED <<timerVars, started, status, lastUpdate, filter, page>>
         \/ /\ f.metrics # "ok"
            /\ ProceedToComputed(i, f, HandleEmptyResponse(page, "metrics"))

MetricsText(i, a) ==
  /\ fetch[i].pc = "metricsText"
  /\ ProceedToComputed(i, fetch[i], ProcessMetrics(page, a))

ComputedText(i, a) ==
  /\ fetch[i].pc = "computedText"
  /\ Finish(i, ProcessComputedMetrics(page, a))

\* Mutant of TextFails: the error is logged and that is all.
TextFailsSilently(i) ==
  /\ fetch[i].pc \in {"metricsText", "computedText"}
  /\ fetch' = [fetch EXCEPT ![i] = Done]
  /\ UNCHANGED <<timerVars, started, status, lastUpdate, filter, page>>

\* The connection breaks while a body is read: text() rejects.
TextFails(i) ==
  /\ fetch[i].pc \in {"metricsText", "computedText"}
  /\ fetch' = [fetch EXCEPT ![i] = Done]
  /\ status' = "disconnected"
  /\ UNCHANGED <<timerVars, started, lastUpdate, filter, page>>

(***************************************************************************)
(* Polling.                                                                *)
(***************************************************************************)

ClearInterval(ts, handle) == IF handle = None THEN ts ELSE [ts EXCEPT ![handle] = None]

\* Mutant of StopPolling: the handle is forgotten, the timer lives on.
StopPollingLeaks(ts, handle) == ts

\* The timers left when the page's own is cleared; pollTimer becomes null.
StopPolling(ts, handle) == ClearInterval(ts, handle)

\* setInterval returns a handle no live timer has; which one does not matter.
FreeHandle(ts) == CHOOSE h \in Handles : ts[h] = None

\* With the timers ts live and the handle kept, clear, fetch and set a timer.
StartPolling(ts, handle, interval) ==
  LET live == ClearInterval(ts, handle)
  IN  /\ FetchData
      /\ None \in {live[h] : h \in Handles}
      /\ pollTimer' = FreeHandle(live)
      /\ timers' = [live EXCEPT ![FreeHandle(live)] = interval]

\* The page is loaded: constructor and init, up to the first await.
Init ==
  /\ isPolling = TRUE
  /\ pollingInterval = 5
  /\ pollTimer = FreeHandle([h \in Handles |-> None])
  /\ timers = [h \in Handles |-> IF h = pollTimer THEN 5 ELSE None]
  /\ started = 1
  /\ fetch = [i \in Ids |-> IF i = 1 THEN Asked ELSE Unused]
  /\ status = "loading"
  /\ lastUpdate = FALSE
  /\ filter = [k \in Kinds |-> NoFilter]
  /\ page = [metrics |-> NewPanel, computed |-> NewPanel, unique |-> {},
             overview |-> [metrics |-> 0, computed |-> 0, unique |-> {}]]

TimerFires(h) ==
  /\ timers[h] # None
  /\ isPolling
  /\ FetchData
  /\ UNCHANGED <<timerVars, lastUpdate, filter, page>>

\* Mutant of SetPollingInterval: restarts the timer also while paused.
SetPollingIntervalAlways(interval) ==
  /\ interval # pollingInterval
  /\ pollingInterval' = interval
  /\ StartPolling(StopPolling(timers, pollTimer), None, interval)
  /\ UNCHANGED <<isPolling, lastUpdate, filter, page>>

\* Mutant of SetPollingInterval: the new interval waits for the next resume.
SetPollingIntervalLater(interval) ==
  /\ interval # pollingInterval
  /\ pollingInterval' = interval
  /\ timers' = IF isPolling THEN StopPolling(timers, pollTimer) ELSE timers
  /\ pollTimer' = None
  /\ UNCHANGED <<isPolling, started, fetch, status, lastUpdate, filter, page>>

\* The slider moves.
SetPollingInterval(interval) ==
  /\ interval # pollingInterval
  /\ pollingInterval' = interval
  /\ \/ /\ isPolling
        /\ StartPolling(StopPolling(timers, pollTimer), None, interval)
     \/ /\ ~isPolling
        /\ UNCHANGED <<pollTimer, timers, started, fetch, status>>
  /\ UNCHANGED <<isPolling, lastUpdate, filter, page>>

\* The checkbox or the button of the navigation bar, which flips the checkbox.
PauseAutoRefresh ==
  /\ isPolling
  /\ isPolling' = FALSE
  /\ timers' = StopPolling(timers, pollTimer)
  /\ pollTimer' = None
  /\ UNCHANGED <<pollingInterval, started, fetch, status, lastUpdate, filter, page>>

ResumeAutoRefresh ==
  /\ ~isPolling
  /\ isPolling' = TRUE
  /\ StartPolling(timers, pollTimer, pollingInterval)
  /\ UNCHANGED <<pollingInterval, lastUpdate, filter, page>>

(***************************************************************************)
(* The other controls.                                                     *)
(***************************************************************************)

\* Mutant of FilterInput: the filters are applied before the text is stored.
FilterInputEarly(kind, text) ==
  /\ filter' = [filter EXCEPT ![kind] = text]
  /\ page' = ApplyFilters(page, filter)
  /\ UNCHANGED <<timerVars, started, fetch, status, lastUpdate>>

FilterInput(kind, text) ==
  /\ filter' = [filter EXCEPT ![kind] = text]
  /\ page' = ApplyFilters(page, filter')
  /\ UNCHANGED <<timerVars, started, fetch, status, lastUpdate>>

Toggle(panel, l) ==
  [panel EXCEPT !.hidden = IF l \in panel.hidden THEN panel.hidden \ {l}
                                                 ELSE panel.hidden \cup {l},
                !.clicked = panel.clicked \cup {l}]

\* A click on a name in the legend of a chart; Chart.js shows or hides the
\* dataset and from then on does not look at its hidden flag.
LegendClick(kind, l) ==
  /\ page[kind].shown = "chart" /\ l \in page[kind].datasets
  /\ page' = [page EXCEPT ![kind] = Toggle(@, l)]
  /\ UNCHANGED <<timerVars, started, fetch, status, lastUpdate, filter>>

ClearPanel(panel) == [NewPanel EXCEPT !.shown = panel.shown]

\* Mutant of ClearData: the chart of computed metrics is forgotten.
ClearDataForgetsChart ==
  /\ page' = UpdateOverview(
               [page EXCEPT !.metrics = ClearPanel(@),
                            !.computed = [ClearPanel(@) EXCEPT
                                            !.datasets = page.computed.datasets],
                            !.unique = {}])
  /\ UNCHANGED <<timerVars, started, fetch, status, lastUpdate, filter>>

\* Fetches on their way and the filters are left alone.
ClearData ==
  /\ page' = UpdateOverview([page EXCEPT !.metrics = ClearPanel(@),
                                         !.computed = ClearPanel(@),
                                         !.unique = {}])
  /\ UNCHANGED <<timerVars, started, fetch, status, lastUpdate, filter>>

(***************************************************************************)
(* The specification.                                                      *)
(***************************************************************************)

Responses(i) == \E kind \in Kinds, outcome \in {"ok", "failed"} :
                  FirstResponse(i, kind, outcome) \/ BothResponses(i, kind, outcome)

Texts(i) == \/ \E a \in Answers \cup {None} : MetricsText(i, a) \/ ComputedText(i, a)
            \/ TextFails(i)

User == \/ \E interval \in Intervals : SetPollingInterval(interval)
        \/ PauseAutoRefresh
        \/ ResumeAutoRefresh
        \/ \E kind \in Kinds, text \in Filters : FilterInput(kind, text)
        \/ \E c \in Clickable : LegendClick(c.kind, c.label)
        \/ ClearData

Next == \/ \E i \in Ids : Responses(i) \/ Texts(i)
        \/ \E h \in Handles : TimerFires(h)
        \/ User

Safety == Init /\ [][Next]_vars

\* The browser fires a live timer; nobody promises an answer or a user.
Spec == Safety /\ WF_vars(\E h \in Handles : TimerFires(h))

(***************************************************************************)
(* Properties.                                                             *)
(***************************************************************************)

InFlight == {i \in Ids : fetch[i].pc \notin {"unused", "done"}}

\* There is one live timer, at the interval the slider shows, while automatic
\* refresh is on, and none while it is off: whatever sequence of slider,
\* checkbox and button events led here, no timer is leaked or left behind with
\* an old interval (app.js:162-192).
OneTimer ==
  timers = [h \in Handles |-> IF isPolling /\ h = pollTimer THEN pollingInterval ELSE None]
  /\ (isPolling <=> pollTimer # None)

\* "Fetching data..." stands only while the newest fetch is under way, although
\* fetches overlap, end in another order and fail at every await: an older fetch
\* that ends may take it away too early, none leaves it standing too long
\* (app.js:195, 240-245).  Nothing ends a fetch that is never answered.
LoadingMeansFetching == status = "loading" => started \in InFlight

\* Charts, tables, totals, active metrics and overview tell of the same
\* answers: a panel's chart has the datasets of the answer in its table; all of
\* them are empty or none is; the overview shows the current totals.  It holds
\* however fetches interleave with each other and with Clear Data
\* (app.js:282-296, 361-374, 590-609, 625-643).
PageAgrees ==
  /\ \A k \in Kinds :
       /\ page[k].table = None <=> page[k].datasets = {}
       /\ page[k].table = None <=> page[k].total = 0
       /\ page[k].table # None => page[k].datasets = page[k].table.labels
  /\ page.metrics.datasets \subseteq page.unique
  /\ page.unique = {} <=> page.metrics.table = None
  /\ page = UpdateOverview(page)

\* What is out of view comes back only by a new answer of its kind, a change of
\* the text in its own box or a click on its name in the legend: not by the other
\* box, although typing there runs both filters again, not by an answer or a
\* failed fetch of the other kind.  (The new answer is a gap: web/README.md:13
\* and 181-186 promise a filter for the chart, but the datasets of the next poll
\* ignore it; app.js:86-95, 484-530.)
ComesIntoView(k, l) == l \in page[k].hidden /\ l \in page'[k].datasets \ page'[k].hidden

HiddenStaysHidden ==
  [][\A k \in Kinds, l \in Labels :
       ComesIntoView(k, l) => \/ page'[k].total # page[k].total
                              \/ filter'[k] # filter[k]
                              \/ LegendClick(k, l)]_vars

\* While automatic refresh is off nothing starts a fetch: not the slider, not a
\* timer set before the pause (app.js:162-192).
PauseHolds == [][~isPolling /\ ~isPolling' => started' = started]_vars

\* While automatic refresh stays on, the page polls again and again (as long as
\* the bound on fetches lasts): pausing, resuming and moving the slider never
\* leave it without a timer (app.js:171-192).
PollingGoesOn ==
  \A n \in 1..(MaxFetches - 1) :
    isPolling /\ started = n ~> started > n \/ ~isPolling

\* "Connected" is the report of a fetch that has read an answer.
\* web/QUICKSTART.md says of "Connection error" in the status bar: "Cause: API
\* endpoints not accessible".  fetchData reports "Connected" all the same when
\* neither endpoint is (app.js:200-201, 219, 237, 240).
ConnectedMeansAnswered ==
  [][\A i \in Ids : fetch[i].pc = "responses" /\ fetch'[i].pc = "done"
                      => status' # "connected"]_vars

\* The abstract view of the page: a poll owes what its continuation can still
\* process.
Owed(f) == CASE f.pc \in {"responses", "metricsText"} -> Kinds
             [] f.pc = "computedText"                 -> {"computed"}
             [] OTHER                                 -> {}

Polled == INSTANCE PolledPage WITH
  MaxPolls <- MaxFetches,
  polling  <- isPolling,
  asked    <- started,
  owed     <- [i \in Ids |-> Owed(fetch[i])],
  shown    <- [k \in Kinds |-> page[k].table],
  counted  <- [k \in Kinds |-> page[k].total]

\* The page implements PolledPage: every answer of a poll is shown and counted
\* at most once, the page changes by an outstanding poll or by Clear Data only,
\* and no poll starts while polling is off (app.js:171-246, 625-646).
Refinement == Polled!Spec
==============================================================================
