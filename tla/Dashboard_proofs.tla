-------------------------- MODULE Dashboard_proofs ---------------------------
(***************************************************************************)
(* The invariants of Dashboard, and that it implements PolledPage, for     *)
(* every set of answers, intervals and filters and any number of fetches.  *)
(***************************************************************************)
EXTENDS Dashboard, TLAPS

(***************************************************************************)
(* Timers.                                                                 *)
(***************************************************************************)

TimersOK ==
  /\ isPolling \in BOOLEAN
  /\ pollingInterval \in Intervals
  /\ pollTimer \in Handles \cup {None}
  /\ timers \in [Handles -> Intervals \cup {None}]
  /\ OneTimer

\* The slider's restart and the resume begin with no live timer and end with one.
LEMMA StartPollingSetsOne ==
  ASSUME NEW interval \in Intervals,
         StartPolling([h \in Handles |-> None], None, interval)
  PROVE  /\ pollTimer' \in Handles
         /\ timers' = [h \in Handles |-> IF h = pollTimer' THEN interval ELSE None]
<1> DEFINE live == [h \in Handles |-> None]
<1>1. ClearInterval(live, None) = live
  BY DEF ClearInterval
<1>2. /\ None \in {live[h] : h \in Handles}
      /\ pollTimer' = FreeHandle(live)
      /\ timers' = [live EXCEPT ![FreeHandle(live)] = interval]
  BY <1>1 DEF StartPolling
<1>3. FreeHandle(live) \in Handles
  <2>1. \E h \in Handles : live[h] = None
    BY <1>2
  <2>. QED  BY <2>1 DEF FreeHandle
<1>. QED  BY <1>2, <1>3

\* Stopping the one timer leaves none.
LEMMA StopPollingLeavesNone ==
  ASSUME TimersOK
  PROVE  StopPolling(timers, pollTimer) = [h \in Handles |-> None]
<1>1. CASE isPolling
  BY <1>1, DashboardAssumption DEF TimersOK, OneTimer, StopPolling, ClearInterval
<1>2. CASE ~isPolling
  BY <1>2 DEF TimersOK, OneTimer, StopPolling, ClearInterval
<1>. QED  BY <1>1, <1>2 DEF TimersOK

LEMMA TimersInit == Init => TimersOK
<1> SUFFICES ASSUME Init PROVE TimersOK
  OBVIOUS
<1> DEFINE idle == [h \in Handles |-> None]
<1>1. pollTimer \in Handles
  <2>1. \E h \in Handles : idle[h] = None
    BY DashboardAssumption
  <2>. QED  BY <2>1 DEF Init, FreeHandle
<1>2. 5 \in Intervals /\ None \notin Handles
  BY DashboardAssumption
<1>. QED  BY <1>1, <1>2 DEF Init, TimersOK, OneTimer

LEMMA TimersSetPollingInterval ==
  ASSUME TimersOK, NEW interval \in Intervals, SetPollingInterval(interval)
  PROVE  TimersOK'
<1>0. /\ isPolling' = isPolling /\ pollingInterval' = interval /\ isPolling \in BOOLEAN
  BY DEF SetPollingInterval, TimersOK
<1>1. CASE isPolling
  <2>1. StartPolling([h \in Handles |-> None], None, interval)
    BY <1>1, StopPollingLeavesNone DEF SetPollingInterval
  <2>2. /\ pollTimer' \in Handles
        /\ timers' = [h \in Handles |-> IF h = pollTimer' THEN interval ELSE None]
    BY <2>1, StartPollingSetsOne
  <2>. QED  BY <1>0, <1>1, <2>2, DashboardAssumption DEF TimersOK, OneTimer
<1>2. CASE ~isPolling
  <2>1. UNCHANGED <<pollTimer, timers>>
    BY <1>2 DEF SetPollingInterval
  <2>. QED  BY <1>0, <1>2, <2>1 DEF TimersOK, OneTimer
<1>. QED  BY <1>0, <1>1, <1>2

LEMMA TimersPause ==
  ASSUME TimersOK, PauseAutoRefresh
  PROVE  TimersOK'
<1>1. timers' = [h \in Handles |-> None]
  BY StopPollingLeavesNone DEF PauseAutoRefresh
<1>2. isPolling' = FALSE /\ pollTimer' = None /\ pollingInterval' = pollingInterval
  BY DEF PauseAutoRefresh
<1>. QED  BY <1>1, <1>2 DEF TimersOK, OneTimer

LEMMA TimersResume ==
  ASSUME TimersOK, ResumeAutoRefresh
  PROVE  TimersOK'
<1>0. ~isPolling /\ isPolling' = TRUE /\ pollingInterval' = pollingInterval
  BY DEF ResumeAutoRefresh
<1>1. pollTimer = None /\ timers = [h \in Handles |-> None] /\ pollingInterval \in Intervals
  BY <1>0 DEF TimersOK, OneTimer
<1>2. StartPolling([h \in Handles |-> None], None, pollingInterval)
  BY <1>1 DEF ResumeAutoRefresh
<1>3. /\ pollTimer' \in Handles
      /\ timers' = [h \in Handles |-> IF h = pollTimer' THEN pollingInterval ELSE None]
  BY <1>1, <1>2, StartPollingSetsOne
<1>. QED  BY <1>0, <1>1, <1>3, DashboardAssumption DEF TimersOK, OneTimer

LEMMA TimersUnchanged ==
  ASSUME TimersOK, UNCHANGED timerVars
  PROVE  TimersOK'
BY DEF TimersOK, OneTimer, timerVars

(***************************************************************************)
(* Fetches and the status.                                                 *)
(***************************************************************************)

FetchesOK ==
  /\ started \in Ids
  /\ DOMAIN fetch = Ids
  /\ \A i \in Ids : FetchOK(fetch[i]) /\ (fetch[i].pc = "unused" <=> i > started)
  /\ status \in {"loading", "connected", "disconnected"}
  /\ LoadingMeansFetching

\* The calls that begin, end or wait have the shape their place asks for.
LEMMA Records ==
  /\ FetchOK(Unused) /\ Unused.pc = "unused"
  /\ FetchOK(Asked) /\ Asked.pc = "responses"
  /\ FetchOK(Done) /\ Done.pc = "done"
  /\ Asked.metrics = "pending" /\ Asked.computed = "pending"
BY DEF FetchOK, Fetch, Outcomes, Unused, Asked, Done

\* A fetch that has begun goes on with the record g.
LEMMA FetchGoesOn ==
  ASSUME FetchesOK, NEW i \in Ids, fetch[i].pc # "unused",
         NEW g, FetchOK(g), g.pc # "unused",
         fetch' = [fetch EXCEPT ![i] = g],
         started' = started,
         status' \in {"connected", "disconnected"} \/ (status' = status /\ g.pc # "done")
  PROVE  FetchesOK'
<1>1. DOMAIN fetch' = Ids /\ \A j \in Ids : fetch'[j] = IF j = i THEN g ELSE fetch[j]
  BY DEF FetchesOK
<1>2. \A j \in Ids : FetchOK(fetch'[j]) /\ (fetch'[j].pc = "unused" <=> j > started')
  BY <1>1 DEF FetchesOK
<1>3. LoadingMeansFetching'
  BY <1>1 DEF FetchesOK, LoadingMeansFetching, InFlight
<1>. QED  BY <1>1, <1>2, <1>3 DEF FetchesOK

LEMMA FetchesInit == Init => FetchesOK
<1> SUFFICES ASSUME Init PROVE FetchesOK
  OBVIOUS
<1>1. 1 \in Ids /\ started = 1 /\ status = "loading"
  BY DashboardAssumption DEF Init, Ids
<1>2. DOMAIN fetch = Ids /\ \A i \in Ids : fetch[i] = IF i = 1 THEN Asked ELSE Unused
  BY DEF Init
<1>3. \A i \in Ids : FetchOK(fetch[i]) /\ (fetch[i].pc = "unused" <=> i > 1)
  BY <1>2, Records DEF Ids
<1>4. 1 \in InFlight
  BY <1>1, <1>2, Records DEF InFlight
<1>. QED  BY <1>1, <1>2, <1>3, <1>4 DEF FetchesOK, LoadingMeansFetching

LEMMA FetchDataStarts ==
  ASSUME FetchesOK, FetchData
  PROVE  FetchesOK'
<1> DEFINE n == started + 1
<1>1. /\ n \in Ids /\ started' = n /\ status' = "loading"
      /\ fetch' = [fetch EXCEPT ![n] = Asked]
  BY DashboardAssumption DEF FetchData, FetchesOK, Ids
<1>2. DOMAIN fetch' = Ids /\ \A j \in Ids : fetch'[j] = IF j = n THEN Asked ELSE fetch[j]
  BY <1>1 DEF FetchesOK
<1>3. ASSUME NEW j \in Ids
      PROVE  FetchOK(fetch'[j]) /\ (fetch'[j].pc = "unused" <=> j > started')
  <2>1. CASE j = n
    BY <1>1, <1>2, <2>1, Records DEF Ids
  <2>2. CASE j # n
    BY <1>1, <1>2, <2>2 DEF FetchesOK, Ids
  <2>. QED  BY <2>1, <2>2
<1>4. n \in InFlight'
  BY <1>1, <1>2, Records DEF InFlight
<1>. QED  BY <1>1, <1>2, <1>3, <1>4 DEF FetchesOK, LoadingMeansFetching

LEMMA FetchesUnchanged ==
  ASSUME FetchesOK, UNCHANGED <<started, fetch, status>>
  PROVE  FetchesOK'
BY DEF FetchesOK, LoadingMeansFetching, InFlight

\* The stretches of code that end a continuation.
LEMMA FetchesFinish ==
  ASSUME FetchesOK, NEW i \in Ids, fetch[i].pc # "unused", NEW p, Finish(i, p)
  PROVE  FetchesOK'
BY FetchGoesOn, Records DEF Finish

LEMMA FetchesProceed ==
  ASSUME FetchesOK, NEW i \in Ids, fetch[i].pc # "unused",
         NEW f \in Fetch, f.metrics # "pending", f.computed # "pending", NEW p,
         ProceedToComputed(i, f, p)
  PROVE  FetchesOK'
<1>1. CASE f.computed = "ok" /\ fetch' = [fetch EXCEPT ![i] = [f EXCEPT !.pc = "computedText"]]
           /\ UNCHANGED <<started, status>>
  <2> DEFINE g == [f EXCEPT !.pc = "computedText"]
  <2>1. FetchOK(g) /\ g.pc = "computedText"
    BY <1>1 DEF FetchOK, Fetch
  <2>2. status' = status
    BY <1>1
  <2> HIDE DEF g
  <2>3. fetch' = [fetch EXCEPT ![i] = g] /\ started' = started
    BY <1>1 DEF g
  <2>. QED  BY <2>1, <2>2, <2>3, FetchGoesOn
<1>2. CASE \E q : Finish(i, q)
  BY <1>2, FetchesFinish
<1>. QED  BY <1>1, <1>2 DEF ProceedToComputed

\* What an await that waits for responses may learn.
LEMMA Learns ==
  ASSUME NEW f, FetchOK(f), f.pc = "responses",
         NEW kind \in Kinds, NEW outcome \in {"ok", "failed"}
  PROVE  /\ [f EXCEPT ![kind] = outcome] \in Fetch
         /\ [f EXCEPT ![kind] = outcome].pc = "responses"
BY DEF FetchOK, Fetch, Kinds, Outcomes

LEMMA FetchesResponses ==
  ASSUME FetchesOK, NEW i \in Ids, Responses(i)
  PROVE  FetchesOK'
<1>1. PICK kind \in Kinds, outcome \in {"ok", "failed"} :
        FirstResponse(i, kind, outcome) \/ BothResponses(i, kind, outcome)
  BY DEF Responses
<1> DEFINE f == [fetch[i] EXCEPT ![kind] = outcome]
<1>2. fetch[i].pc = "responses" /\ FetchOK(fetch[i])
  BY <1>1 DEF FirstResponse, BothResponses, FetchesOK
<1>3. f \in Fetch /\ f.pc = "responses"
  BY <1>2, Learns
<1>4. CASE FirstResponse(i, kind, outcome)
  <2>1. /\ "pending" \in {f.metrics, f.computed} /\ fetch' = [fetch EXCEPT ![i] = f]
        /\ UNCHANGED <<started, status>>
    BY <1>4 DEF FirstResponse
  <2>2. FetchOK(f)
    BY <1>3, <2>1 DEF FetchOK
  <2>3. status' = status
    BY <2>1
  <2> HIDE DEF f
  <2>. QED  BY <1>2, <1>3, <2>1, <2>2, <2>3, FetchGoesOn
<1>5. CASE BothResponses(i, kind, outcome)
  <2>1. f.metrics # "pending" /\ f.computed # "pending"
    BY <1>5 DEF BothResponses
  <2>2. CASE ProceedToComputed(i, f, HandleEmptyResponse(page, "metrics"))
    <3> HIDE DEF f
    <3>. QED  BY <1>2, <1>3, <2>1, <2>2, FetchesProceed
  <2>3. CASE /\ f.metrics = "ok"
             /\ fetch' = [fetch EXCEPT ![i] = [f EXCEPT !.pc = "metricsText"]]
             /\ UNCHANGED <<started, status>>
    <3> DEFINE g == [f EXCEPT !.pc = "metricsText"]
    <3> HIDE DEF f
    <3>1. FetchOK(g) /\ g.pc = "metricsText"
      BY <1>3, <2>1, <2>3 DEF FetchOK, Fetch
    <3>2. status' = status
      BY <2>3
    <3>3. fetch' = [fetch EXCEPT ![i] = g] /\ started' = started
      BY <2>3 DEF g
    <3> HIDE DEF g
    <3>. QED  BY <1>2, <3>1, <3>2, <3>3, FetchGoesOn
  <2>. QED  BY <1>5, <2>2, <2>3 DEF BothResponses
<1>. QED  BY <1>1, <1>4, <1>5

LEMMA FetchesTexts ==
  ASSUME FetchesOK, NEW i \in Ids, Texts(i)
  PROVE  FetchesOK'
<1>1. FetchOK(fetch[i])
  BY DEF FetchesOK
<1>2. CASE \E a \in Answers \cup {None} : MetricsText(i, a)
  <2>1. PICK a \in Answers \cup {None} : MetricsText(i, a)
    BY <1>2
  <2>2. fetch[i].pc = "metricsText" /\ ProceedToComputed(i, fetch[i], ProcessMetrics(page, a))
    BY <2>1 DEF MetricsText
  <2>3. fetch[i] \in Fetch /\ fetch[i].metrics # "pending" /\ fetch[i].computed # "pending"
    BY <1>1, <2>2 DEF FetchOK
  <2>. QED  BY <2>2, <2>3, FetchesProceed
<1>3. CASE \E a \in Answers \cup {None} : ComputedText(i, a)
  BY <1>3, FetchesFinish DEF ComputedText
<1>4. CASE TextFails(i)
  BY <1>4, FetchGoesOn, Records DEF TextFails
<1>. QED  BY <1>2, <1>3, <1>4 DEF Texts

(***************************************************************************)
(* The page.                                                               *)
(***************************************************************************)

Page == [metrics : Panel, computed : Panel, unique : SUBSET Labels,
         overview : [metrics : Nat, computed : Nat, unique : SUBSET Labels]]

\* PageAgrees of any page, panel by panel.
PanelAgrees(panel) ==
  /\ panel.table = None <=> panel.datasets = {}
  /\ panel.table = None <=> panel.total = 0
  /\ panel.table # None => panel.datasets = panel.table.labels

Agrees(p) ==
  /\ PanelAgrees(p.metrics) /\ PanelAgrees(p.computed)
  /\ p.metrics.datasets \subseteq p.unique
  /\ p.unique = {} <=> p.metrics.table = None
  /\ p.overview = [metrics |-> p.metrics.total, computed |-> p.computed.total,
                   unique |-> p.unique]

\* Where the legend was not clicked, what is hidden is what the filter excludes.
Filtered(panel, text) ==
  /\ panel.hidden \subseteq panel.datasets
  /\ (panel.hidden \ panel.clicked) \cap Hits[text] = {}

PageOK(p, texts) ==
  /\ p \in Page
  /\ Agrees(p)
  /\ Filtered(p.metrics, texts["metrics"]) /\ Filtered(p.computed, texts["computed"])

\* The page's overview shows what it would show if rendered again.
LEMMA OverviewAgrees ==
  ASSUME NEW p \in Page
  PROVE  p = UpdateOverview(p) <=>
         p.overview = [metrics |-> p.metrics.total, computed |-> p.computed.total,
                       unique |-> p.unique]
BY DEF Page, UpdateOverview

\* PageAgrees says of the page what Agrees says of any page.
LEMMA PageProperties ==
  ASSUME page \in Page
  PROVE  Agrees(page) <=> PageAgrees
BY OverviewAgrees DEF Agrees, PanelAgrees, PageAgrees, Kinds

\* What processing an answer makes of its panel.
Shows(panel, a) ==
  [datasets |-> a.labels, hidden |-> {}, clicked |-> {}, table |-> a,
   total |-> panel.total + a.size, shown |-> "chart"]

LEMMA AnswerShown ==
  ASSUME NEW panel \in Panel, NEW a \in Answers, a.size # 0
  PROVE  /\ Shows(panel, a) \in Panel
         /\ PanelAgrees(Shows(panel, a))
         /\ \A text \in Filters : Filtered(Shows(panel, a), text)
<1>1. a.labels \in SUBSET Labels /\ a.size \in Nat \ {0} /\ a.labels # {} /\ a # None
  BY DashboardAssumption
<1>. QED  BY <1>1 DEF Shows, Panel, PanelAgrees, Filtered

LEMMA EmptyKeepsOK ==
  ASSUME NEW texts, NEW p, PageOK(p, texts), NEW kind \in Kinds
  PROVE  /\ PageOK(HandleEmptyResponse(p, kind), texts)
         /\ \A k \in Kinds : /\ HandleEmptyResponse(p, kind)[k].table = p[k].table
                             /\ HandleEmptyResponse(p, kind)[k].total = p[k].total
                             /\ HandleEmptyResponse(p, kind)[k].hidden = p[k].hidden
<1> DEFINE q == HandleEmptyResponse(p, kind)
<1>1. CASE kind = "metrics"
  <2>1. q = [p EXCEPT !.metrics = [p.metrics EXCEPT !.shown = "empty"]]
    BY <1>1 DEF HandleEmptyResponse
  <2>. QED  BY <2>1 DEF PageOK, Page, Panel, Agrees, PanelAgrees, Filtered, Kinds
<1>2. CASE kind = "computed"
  <2>1. q = [p EXCEPT !.computed = [p.computed EXCEPT !.shown = "empty"]]
    BY <1>2 DEF HandleEmptyResponse
  <2>. QED  BY <2>1 DEF PageOK, Page, Panel, Agrees, PanelAgrees, Filtered, Kinds
<1>. QED  BY <1>1, <1>2 DEF Kinds

\* A panel is the record of its six fields.
LEMMA PanelFields ==
  ASSUME NEW panel \in Panel
  PROVE  panel = [datasets |-> panel.datasets, hidden |-> panel.hidden,
                  clicked |-> panel.clicked, table |-> panel.table,
                  total |-> panel.total, shown |-> panel.shown]
BY DEF Panel

\* The chart, total and table that processing an answer sets, one by one.
LEMMA PanelProcessed ==
  ASSUME NEW panel \in Panel, NEW a \in Answers
  PROVE  [UpdateChart(panel, a) EXCEPT !.shown = "chart", !.total = @ + a.size, !.table = a]
           = Shows(panel, a)
<1> DEFINE u == UpdateChart(panel, a)
           v == [u EXCEPT !.shown = "chart", !.total = @ + a.size, !.table = a]
<1>1. a.labels \in SUBSET Labels /\ a.size \in Nat
  BY DashboardAssumption
<1>2. /\ u \in Panel /\ u.datasets = a.labels /\ u.hidden = {} /\ u.clicked = {}
      /\ u.total = panel.total
  BY <1>1 DEF UpdateChart, Panel
<1> HIDE DEF u
<1>3. /\ v.datasets = a.labels /\ v.hidden = {} /\ v.clicked = {} /\ v.table = a
      /\ v.total = panel.total + a.size /\ v.shown = "chart"
  BY <1>2 DEF Panel
<1>4. v \in Panel
  <2>1. u.total + a.size \in Nat /\ a \in Answers \cup {None}
    BY <1>1, <1>2 DEF Panel
  <2>. QED  BY <1>2, <2>1 DEF Panel
<1> HIDE DEF v
<1>5. v = Shows(panel, a)
  BY <1>3, <1>4, PanelFields DEF Shows
<1>. QED  BY <1>5 DEF u, v

\* An answer that is not empty replaces its panel and is counted.
LEMMA MetricsProcessed ==
  ASSUME NEW p \in Page, NEW a \in Answers, ~IsEmpty(a)
  PROVE  ProcessMetrics(p, a) =
           [metrics |-> Shows(p.metrics, a), computed |-> p.computed,
            unique |-> p.unique \cup a.labels,
            overview |-> [metrics |-> p.metrics.total + a.size, computed |-> p.computed.total,
                          unique |-> p.unique \cup a.labels]]
<1> DEFINE s == Shows(p.metrics, a)
           u == p.unique \cup a.labels
           q == [p EXCEPT !.metrics = s, !.unique = u]
<1>1. [UpdateChart(p.metrics, a) EXCEPT !.shown = "chart", !.total = @ + a.size, !.table = a] = s
  BY PanelProcessed DEF Page
<1>2. ProcessMetrics(p, a) = UpdateOverview(q)
  BY <1>1, Zenon DEF ProcessMetrics
<1>3. s.total = p.metrics.total + a.size
  BY DEF Shows
<1>4. s \in Panel /\ u \in SUBSET Labels
  BY AnswerShown, DashboardAssumption DEF IsEmpty, Page
<1> HIDE DEF s, u
<1>5. q.metrics = s /\ q.computed = p.computed /\ q.unique = u /\ q \in Page
  BY <1>4 DEF Page
<1> HIDE DEF q
<1>6. q = [metrics |-> s, computed |-> p.computed, unique |-> u, overview |-> q.overview]
  BY <1>5 DEF Page
<1>7. UpdateOverview(q) =
        [metrics |-> s, computed |-> p.computed, unique |-> u,
         overview |-> [metrics |-> p.metrics.total + a.size, computed |-> p.computed.total,
                       unique |-> u]]
  BY <1>3, <1>6 DEF UpdateOverview
<1>. QED  BY <1>2, <1>7 DEF s, u

LEMMA ComputedProcessed ==
  ASSUME NEW p \in Page, NEW a \in Answers, ~IsEmpty(a)
  PROVE  ProcessComputedMetrics(p, a) =
           [metrics |-> p.metrics, computed |-> Shows(p.computed, a), unique |-> p.unique,
            overview |-> [metrics |-> p.metrics.total, computed |-> p.computed.total + a.size,
                          unique |-> p.unique]]
<1> DEFINE q == [p EXCEPT !.computed = Shows(p.computed, a)]
<1>1. [UpdateChart(p.computed, a) EXCEPT !.shown = "chart", !.total = @ + a.size, !.table = a]
        = Shows(p.computed, a)
  BY PanelProcessed DEF Page
<1>2. ProcessComputedMetrics(p, a) = UpdateOverview(q)
  BY <1>1 DEF ProcessComputedMetrics
<1>3. q = [metrics |-> p.metrics, computed |-> Shows(p.computed, a), unique |-> p.unique,
           overview |-> p.overview]
  BY DEF Page
<1>4. Shows(p.computed, a).total = p.computed.total + a.size
  BY DEF Shows
<1> HIDE DEF q
<1>. QED  BY <1>2, <1>3, <1>4 DEF UpdateOverview

LEMMA MetricsKeepOK ==
  ASSUME NEW texts \in [Kinds -> Filters], NEW p, PageOK(p, texts), NEW a \in Answers \cup {None}
  PROVE  PageOK(ProcessMetrics(p, a), texts)
<1>1. CASE IsEmpty(a)
  BY <1>1, EmptyKeepsOK DEF ProcessMetrics, Kinds
<1>2. CASE ~IsEmpty(a)
  <2> DEFINE s == Shows(p.metrics, a)
             q == ProcessMetrics(p, a)
  <2>1. a \in Answers /\ a.size # 0 /\ p \in Page
    BY <1>2 DEF IsEmpty, PageOK
  <2>2. a.labels \in SUBSET Labels /\ a.size \in Nat \ {0} /\ a.labels # {} /\ a # None
    BY <2>1, DashboardAssumption
  <2>3. p.metrics \in Panel
    BY <2>1 DEF Page
  <2>4. s \in Panel /\ PanelAgrees(s) /\ Filtered(s, texts["metrics"])
    BY <2>1, <2>3, AnswerShown DEF Kinds
  <2>5. s.datasets = a.labels /\ s.table = a /\ s.total = p.metrics.total + a.size
    BY DEF Shows
  <2>6. q = [metrics |-> s, computed |-> p.computed, unique |-> p.unique \cup a.labels,
             overview |-> [metrics |-> p.metrics.total + a.size, computed |-> p.computed.total,
                           unique |-> p.unique \cup a.labels]]
    BY <1>2, <2>1, MetricsProcessed
  <2>7. p.metrics.total + a.size \in Nat /\ p.computed.total \in Nat
    BY <2>1, <2>2 DEF Page, Panel
  <2> HIDE DEF s, q
  <2>8. q \in Page
    BY <2>1, <2>2, <2>4, <2>6, <2>7 DEF Page
  <2>9. Agrees(q)
    BY <2>2, <2>4, <2>5, <2>6 DEF Agrees, PageOK
  <2>. QED  BY <2>4, <2>6, <2>8, <2>9 DEF PageOK, q
<1>. QED  BY <1>1, <1>2

LEMMA ComputedKeepOK ==
  ASSUME NEW texts \in [Kinds -> Filters], NEW p, PageOK(p, texts), NEW a \in Answers \cup {None}
  PROVE  PageOK(ProcessComputedMetrics(p, a), texts)
<1>1. CASE IsEmpty(a)
  BY <1>1, EmptyKeepsOK DEF ProcessComputedMetrics, Kinds
<1>2. CASE ~IsEmpty(a)
  <2> DEFINE s == Shows(p.computed, a)
             q == ProcessComputedMetrics(p, a)
  <2>1. a \in Answers /\ a.size # 0 /\ p \in Page
    BY <1>2 DEF IsEmpty, PageOK
  <2>2. a.labels \in SUBSET Labels /\ a.size \in Nat \ {0} /\ a.labels # {} /\ a # None
    BY <2>1, DashboardAssumption
  <2>3. p.computed \in Panel
    BY <2>1 DEF Page
  <2>4. s \in Panel /\ PanelAgrees(s) /\ Filtered(s, texts["computed"])
    BY <2>1, <2>3, AnswerShown DEF Kinds
  <2>5. s.total = p.computed.total + a.size
    BY DEF Shows
  <2>6. q = [metrics |-> p.metrics, computed |-> s, unique |-> p.unique,
             overview |-> [metrics |-> p.metrics.total, computed |-> p.computed.total + a.size,
                           unique |-> p.unique]]
    BY <1>2, <2>1, ComputedProcessed
  <2>7. p.computed.total + a.size \in Nat /\ p.metrics.total \in Nat
    BY <2>1, <2>2 DEF Page, Panel
  <2> HIDE DEF s, q
  <2>8. q \in Page
    BY <2>1, <2>4, <2>6, <2>7 DEF Page
  <2>9. Agrees(q)
    BY <2>4, <2>5, <2>6 DEF Agrees, PageOK
  <2>. QED  BY <2>4, <2>6, <2>8, <2>9 DEF PageOK, q
<1>. QED  BY <1>1, <1>2

LEMMA FiltersKeepOK ==
  ASSUME NEW p, NEW old, PageOK(p, old), NEW texts \in [Kinds -> Filters]
  PROVE  /\ PageOK(ApplyFilters(p, texts), texts)
         /\ \A k \in Kinds : /\ ApplyFilters(p, texts)[k].table = p[k].table
                             /\ ApplyFilters(p, texts)[k].total = p[k].total
                             /\ texts[k] = old[k] =>
                                  p[k].hidden \subseteq ApplyFilters(p, texts)[k].hidden
<1> DEFINE m == ApplyFilter(p.metrics, texts["metrics"])
           c == ApplyFilter(p.computed, texts["computed"])
           q == ApplyFilters(p, texts)
<1>1. p \in Page /\ Agrees(p)
  BY DEF PageOK
<1>2. /\ m \in Panel /\ c \in Panel
      /\ m.datasets = p.metrics.datasets /\ m.table = p.metrics.table /\ m.total = p.metrics.total
      /\ c.datasets = p.computed.datasets /\ c.table = p.computed.table
      /\ c.total = p.computed.total
  BY <1>1 DEF ApplyFilter, Page, Panel
<1>3. /\ Filtered(m, texts["metrics"]) /\ Filtered(c, texts["computed"])
      /\ texts["metrics"] = old["metrics"] => p.metrics.hidden \subseteq m.hidden
      /\ texts["computed"] = old["computed"] => p.computed.hidden \subseteq c.hidden
  <2>1. Filtered(p.metrics, old["metrics"]) /\ Filtered(p.computed, old["computed"])
    BY DEF PageOK
  <2>2. /\ p.metrics \in Panel /\ p.computed \in Panel
        /\ m.hidden = (p.metrics.hidden \cap p.metrics.clicked)
             \cup ((p.metrics.datasets \ Hits[texts["metrics"]]) \ p.metrics.clicked)
        /\ c.hidden = (p.computed.hidden \cap p.computed.clicked)
             \cup ((p.computed.datasets \ Hits[texts["computed"]]) \ p.computed.clicked)
        /\ m.clicked = p.metrics.clicked /\ c.clicked = p.computed.clicked
    BY <1>1 DEF ApplyFilter, Page, Panel
  <2> HIDE DEF m, c
  <2>. QED  BY <1>2, <2>1, <2>2 DEF Filtered
<1>4. q = [p EXCEPT !.metrics = m, !.computed = c]
  BY DEF ApplyFilters
<1> HIDE DEF m, c
<1>5. q = [metrics |-> m, computed |-> c, unique |-> p.unique, overview |-> p.overview]
  BY <1>1, <1>4 DEF Page
<1> HIDE DEF q
<1>6. q \in Page
  BY <1>1, <1>2, <1>5 DEF Page
<1>7. Agrees(q)
  BY <1>1, <1>2, <1>5 DEF Agrees, PanelAgrees
<1>8. \A k \in Kinds : /\ q[k].table = p[k].table /\ q[k].total = p[k].total
                       /\ texts[k] = old[k] => p[k].hidden \subseteq q[k].hidden
  BY <1>2, <1>3, <1>5 DEF Kinds
<1>9. PageOK(q, texts)
  BY <1>3, <1>5, <1>6, <1>7 DEF PageOK
<1> USE DEF q
<1>. QED  BY <1>8, <1>9

\* The page after a click in a legend.
Toggled(p, kind, l) == [p EXCEPT ![kind] = Toggle(@, l)]

LEMMA ToggleKeepsOK ==
  ASSUME NEW texts \in [Kinds -> Filters], NEW p, PageOK(p, texts), NEW kind \in Kinds,
         NEW l \in p[kind].datasets
  PROVE  /\ PageOK(Toggled(p, kind, l), texts)
         /\ \A k \in Kinds : /\ Toggled(p, kind, l)[k].table = p[k].table
                             /\ Toggled(p, kind, l)[k].total = p[k].total
                             /\ p[k].hidden \ {l} \subseteq Toggled(p, kind, l)[k].hidden
                             /\ k # kind => Toggled(p, kind, l)[k].hidden = p[k].hidden
<1> DEFINE u == Toggle(p[kind], l)
           q == Toggled(p, kind, l)
<1>1. p \in Page /\ Agrees(p) /\ p[kind] \in Panel /\ Filtered(p[kind], texts[kind])
  BY DEF PageOK, Page, Kinds
<1>2. /\ u \in Panel /\ u.datasets = p[kind].datasets /\ u.table = p[kind].table
      /\ u.total = p[kind].total
      /\ u.hidden = (IF l \in p[kind].hidden THEN p[kind].hidden \ {l}
                                             ELSE p[kind].hidden \cup {l})
      /\ u.clicked = p[kind].clicked \cup {l}
  <2>1. p[kind].datasets \in SUBSET Labels /\ l \in Labels
    BY <1>1 DEF Panel
  <2>. QED  BY <1>1, <2>1 DEF Toggle, Panel
<1>3. Filtered(u, texts[kind]) /\ p[kind].hidden \ {l} \subseteq u.hidden
  BY <1>1, <1>2 DEF Filtered
<1>4. q = [p EXCEPT ![kind] = u]
  BY DEF Toggled
<1> HIDE DEF u, q
<1>5. CASE kind = "metrics"
  <2>1. q = [metrics |-> u, computed |-> p.computed, unique |-> p.unique,
             overview |-> p.overview]
    BY <1>1, <1>4, <1>5 DEF Page
  <2>2. q \in Page
    BY <1>1, <1>2, <2>1 DEF Page
  <2>3. Agrees(q)
    BY <1>1, <1>2, <1>5, <2>1 DEF Agrees, PanelAgrees
  <2>4. PageOK(q, texts)
    BY <1>3, <1>5, <2>1, <2>2, <2>3 DEF PageOK
  <2>. QED  BY <1>2, <1>3, <1>5, <2>1, <2>4 DEF Kinds, q
<1>6. CASE kind = "computed"
  <2>1. q = [metrics |-> p.metrics, computed |-> u, unique |-> p.unique,
             overview |-> p.overview]
    BY <1>1, <1>4, <1>6 DEF Page
  <2>2. q \in Page
    BY <1>1, <1>2, <2>1 DEF Page
  <2>3. Agrees(q)
    BY <1>1, <1>2, <1>6, <2>1 DEF Agrees, PanelAgrees
  <2>4. PageOK(q, texts)
    BY <1>3, <1>6, <2>1, <2>2, <2>3 DEF PageOK
  <2>. QED  BY <1>2, <1>3, <1>6, <2>1, <2>4 DEF Kinds, q
<1>. QED  BY <1>5, <1>6 DEF Kinds

\* The page after Clear Data.
Cleared(p) == UpdateOverview([p EXCEPT !.metrics = ClearPanel(@), !.computed = ClearPanel(@),
                                       !.unique = {}])

LEMMA ClearKeepsOK ==
  ASSUME NEW texts, NEW p, PageOK(p, texts)
  PROVE  /\ PageOK(Cleared(p), texts)
         /\ \A k \in Kinds : /\ Cleared(p)[k].table = None /\ Cleared(p)[k].total = 0
                             /\ Cleared(p)[k].datasets = {}
<1> DEFINE m == ClearPanel(p.metrics)
           c == ClearPanel(p.computed)
           q == Cleared(p)
<1>1. p \in Page
  BY DEF PageOK
<1>2. /\ m = [datasets |-> {}, hidden |-> {}, clicked |-> {}, table |-> None, total |-> 0,
              shown |-> p.metrics.shown]
      /\ c = [datasets |-> {}, hidden |-> {}, clicked |-> {}, table |-> None, total |-> 0,
              shown |-> p.computed.shown]
  BY DEF ClearPanel, NewPanel
<1> HIDE DEF m, c
<1>a. m \in Panel /\ c \in Panel
  BY <1>1, <1>2 DEF Page, Panel
<1> DEFINE r == [p EXCEPT !.metrics = m, !.computed = c, !.unique = {}]
<1>3. q = UpdateOverview(r)
  BY Zenon DEF Cleared, m, c
<1>4. r.metrics = m /\ r.computed = c /\ r.unique = {} /\ r \in Page
  BY <1>1, <1>a DEF Page
<1> HIDE DEF r
<1>5. q = UpdateOverview([metrics |-> m, computed |-> c, unique |-> {}, overview |-> r.overview])
  BY <1>3, <1>4 DEF Page
<1>6. q = [metrics |-> m, computed |-> c, unique |-> {},
           overview |-> [metrics |-> 0, computed |-> 0, unique |-> {}]]
  BY <1>2, <1>5 DEF UpdateOverview
<1> HIDE DEF q
<1>7. q \in Page
  BY <1>2, <1>a, <1>6 DEF Page
<1>8. Agrees(q) /\ Filtered(m, texts["metrics"]) /\ Filtered(c, texts["computed"])
  BY <1>2, <1>6 DEF Agrees, PanelAgrees, Filtered
<1>9. \A k \in Kinds : q[k].table = None /\ q[k].total = 0 /\ q[k].datasets = {}
  BY <1>2, <1>6 DEF Kinds
<1>10. PageOK(q, texts)
  BY <1>6, <1>7, <1>8 DEF PageOK
<1>. QED  BY <1>9, <1>10 DEF q

(***************************************************************************)
(* What the steps make of the page.                                        *)
(***************************************************************************)

DataOK ==
  /\ lastUpdate \in BOOLEAN
  /\ filter \in [Kinds -> Filters]
  /\ PageOK(page, filter)

\* Pages p and q show and count the same answers.
Kept(p, q) == \A k \in Kinds : q[k].table = p[k].table /\ q[k].total = p[k].total

\* Page q is p with one more answer.
Delivered(p, q, kind, a) ==
  /\ a \in Answers /\ a.size > 0
  /\ q[kind].table = a /\ q[kind].total = p[kind].total + a.size
  /\ \A k \in Kinds \ {kind} : q[k].table = p[k].table /\ q[k].total = p[k].total

LEMMA MetricsShown ==
  ASSUME NEW p \in Page, NEW a \in Answers \cup {None}
  PROVE  \/ Kept(p, ProcessMetrics(p, a))
         \/ Delivered(p, ProcessMetrics(p, a), "metrics", a)
<1>1. CASE IsEmpty(a)
  <2>1. ProcessMetrics(p, a) = [p EXCEPT !["metrics"] = [p.metrics EXCEPT !.shown = "empty"]]
    BY <1>1 DEF ProcessMetrics, HandleEmptyResponse
  <2>. QED  BY <2>1 DEF Page, Panel, Kept, Kinds
<1>2. CASE ~IsEmpty(a)
  <2>1. a \in Answers /\ a.size \in Nat \ {0}
    BY <1>2, DashboardAssumption DEF IsEmpty
  <2> DEFINE q == ProcessMetrics(p, a)
  <2>2. q.metrics = Shows(p.metrics, a) /\ q.computed = p.computed
    BY <1>2, <2>1, MetricsProcessed
  <2> HIDE DEF q
  <2>3. Delivered(p, q, "metrics", a)
    BY <2>1, <2>2 DEF Delivered, Kinds, Shows
  <2>. QED  BY <2>3 DEF q
<1>. QED  BY <1>1, <1>2

LEMMA ComputedShown ==
  ASSUME NEW p \in Page, NEW a \in Answers \cup {None}
  PROVE  \/ Kept(p, ProcessComputedMetrics(p, a))
         \/ Delivered(p, ProcessComputedMetrics(p, a), "computed", a)
<1>1. CASE IsEmpty(a)
  <2>1. ProcessComputedMetrics(p, a) =
          [p EXCEPT !["computed"] = [p.computed EXCEPT !.shown = "empty"]]
    BY <1>1 DEF ProcessComputedMetrics, HandleEmptyResponse
  <2>. QED  BY <2>1 DEF Page, Panel, Kept, Kinds
<1>2. CASE ~IsEmpty(a)
  <2>1. a \in Answers /\ a.size \in Nat \ {0}
    BY <1>2, DashboardAssumption DEF IsEmpty
  <2> DEFINE q == ProcessComputedMetrics(p, a)
  <2>2. q.computed = Shows(p.computed, a) /\ q.metrics = p.metrics
    BY <1>2, <2>1, ComputedProcessed
  <2> HIDE DEF q
  <2>3. Delivered(p, q, "computed", a)
    BY <2>1, <2>2 DEF Delivered, Kinds, Shows
  <2>. QED  BY <2>3 DEF q
<1>. QED  BY <1>1, <1>2

LEMMA OwedValues ==
  /\ Owed(Asked) = Kinds /\ Owed(Unused) = {} /\ Owed(Done) = {}
  /\ \A f : /\ f.pc \in {"responses", "metricsText"} => Owed(f) = Kinds
            /\ f.pc = "computedText" => Owed(f) = {"computed"}
BY DEF Owed, Asked, Unused, Done

\* fetchData from line 223 on, whatever its processing of the metrics left.
LEMMA ProceedEnds ==
  ASSUME NEW i \in Ids, NEW f \in Fetch, NEW p, PageOK(p, filter), DataOK,
         ProceedToComputed(i, f, p)
  PROVE  /\ DataOK' /\ Kept(p, page')
         /\ UNCHANGED <<isPolling, started>>
         /\ \E g : fetch' = [fetch EXCEPT ![i] = g] /\ Owed(g) \subseteq {"computed"}
<1>1. CASE /\ fetch' = [fetch EXCEPT ![i] = [f EXCEPT !.pc = "computedText"]]
           /\ page' = p
           /\ UNCHANGED <<timerVars, started, status, lastUpdate, filter>>
  <2> DEFINE g == [f EXCEPT !.pc = "computedText"]
  <2>1. g.pc = "computedText"
    BY DEF Fetch
  <2> HIDE DEF g
  <2>2. Owed(g) \subseteq {"computed"}
    BY <2>1, OwedValues
  <2>3. fetch' = [fetch EXCEPT ![i] = g]
    BY <1>1 DEF g
  <2>. QED  BY <1>1, <2>2, <2>3 DEF DataOK, Kept, timerVars
<1>2. CASE Finish(i, HandleEmptyResponse(p, "computed"))
  <2>1. /\ page' = HandleEmptyResponse(p, "computed") /\ lastUpdate' = TRUE
        /\ fetch' = [fetch EXCEPT ![i] = Done]
        /\ UNCHANGED <<isPolling, started, filter>>
    BY <1>2 DEF Finish, timerVars
  <2>2. PageOK(page', filter) /\ Kept(p, page')
    BY <2>1, EmptyKeepsOK DEF Kept, Kinds
  <2>. QED  BY <2>1, <2>2, OwedValues DEF DataOK
<1>. QED  BY <1>1, <1>2 DEF ProceedToComputed

LEMMA DataInit == Init => DataOK
<1> SUFFICES ASSUME Init PROVE DataOK
  OBVIOUS
<1>1. filter \in [Kinds -> Filters] /\ lastUpdate \in BOOLEAN
  BY DashboardAssumption DEF Init
<1>2. NewPanel \in Panel /\ PanelAgrees(NewPanel) /\ \A text : Filtered(NewPanel, text)
  BY DEF NewPanel, Panel, PanelAgrees, Filtered
<1>3. page = [metrics |-> NewPanel, computed |-> NewPanel, unique |-> {},
              overview |-> [metrics |-> 0, computed |-> 0, unique |-> {}]]
  BY DEF Init
<1>4. NewPanel.total = 0 /\ NewPanel.datasets = {} /\ NewPanel.table = None
  BY DEF NewPanel
<1>5. page \in Page
  BY <1>2, <1>3 DEF Page
<1>6. Agrees(page)
  BY <1>2, <1>3, <1>4 DEF Agrees
<1>7. Filtered(page.metrics, filter["metrics"]) /\ Filtered(page.computed, filter["computed"])
  BY <1>2, <1>3
<1>. QED  BY <1>1, <1>5, <1>6, <1>7 DEF DataOK, PageOK

(***************************************************************************)
(* The steps of PolledPage.                                                *)
(***************************************************************************)

owedNow == [j \in Ids |-> Owed(fetch[j])]

LEMMA OwedStep ==
  ASSUME DOMAIN fetch = Ids, NEW i \in Ids, NEW g, fetch' = [fetch EXCEPT ![i] = g]
  PROVE  owedNow' = [owedNow EXCEPT ![i] = Owed(g)]
<1>1. \A j \in Ids : fetch'[j] = IF j = i THEN g ELSE fetch[j]
  OBVIOUS
<1>2. owedNow' = [j \in Ids |-> Owed(fetch'[j])]
  BY DEF owedNow, Owed
<1>3. \A j \in Ids : Owed(fetch'[j]) = IF j = i THEN Owed(g) ELSE Owed(fetch[j])
  BY <1>1
<1>. QED  BY <1>2, <1>3 DEF owedNow

LEMMA StepGivesUp ==
  ASSUME DOMAIN fetch = Ids, NEW i \in Ids, NEW g, fetch' = [fetch EXCEPT ![i] = g],
         Owed(g) \subseteq Owed(fetch[i]), Kept(page, page'), UNCHANGED <<isPolling, started>>
  PROVE  Polled!Next
<1>1. owedNow' = [owedNow EXCEPT ![i] = Owed(g)] /\ owedNow[i] = Owed(fetch[i])
  BY OwedStep DEF owedNow
<1>2. UNCHANGED <<[k \in Kinds |-> page[k].table], [k \in Kinds |-> page[k].total]>>
  BY DEF Kept
<1>3. Polled!GiveUp(i)
  BY <1>1, <1>2 DEF Polled!GiveUp, owedNow
<1>. QED  BY <1>3 DEF Polled!Next, Ids

LEMMA StepDelivers ==
  ASSUME DOMAIN fetch = Ids, NEW i \in Ids, NEW g, fetch' = [fetch EXCEPT ![i] = g],
         NEW kind \in Kinds, NEW a, kind \in Owed(fetch[i]),
         Owed(g) \subseteq Owed(fetch[i]) \ {kind},
         Delivered(page, page', kind, a), UNCHANGED <<isPolling, started>>
  PROVE  Polled!Next
<1> DEFINE shown == [k \in Kinds |-> page[k].table]
           counted == [k \in Kinds |-> page[k].total]
<1>1. owedNow' = [owedNow EXCEPT ![i] = Owed(g)] /\ owedNow[i] = Owed(fetch[i])
  BY OwedStep DEF owedNow
<1>2. shown' = [shown EXCEPT ![kind] = a]
  BY DEF Delivered
<1>3. counted' = [counted EXCEPT ![kind] = @ + a.size]
  BY DEF Delivered
<1>4. Polled!Deliver(i, kind, a)
  BY <1>1, <1>2, <1>3 DEF Polled!Deliver, owedNow, Delivered
<1>. QED  BY <1>4 DEF Polled!Next, Ids, Delivered

LEMMA StepPolls ==
  ASSUME FetchesOK, FetchData, UNCHANGED page, isPolling' = TRUE
  PROVE  Polled!Next
<1> DEFINE n == started + 1
<1>1. /\ started < MaxFetches /\ started' = n /\ fetch' = [fetch EXCEPT ![n] = Asked]
      /\ n \in Ids /\ DOMAIN fetch = Ids
  BY DashboardAssumption DEF FetchData, FetchesOK, Ids
<1>2. owedNow' = [owedNow EXCEPT ![n] = Kinds]
  BY <1>1, OwedStep, OwedValues
<1>3. Polled!Poll
  BY <1>1, <1>2 DEF Polled!Poll, owedNow
<1>. QED  BY <1>3 DEF Polled!Next

\* The abstract variables do not notice steps that leave polls and answers alone.
LEMMA StepStutters ==
  ASSUME UNCHANGED <<isPolling, started, owedNow>>, Kept(page, page')
  PROVE  UNCHANGED Polled!vars
BY DEF Polled!vars, owedNow, Kept

LEMMA KeptByEmpty ==
  ASSUME NEW texts, NEW p, PageOK(p, texts), NEW kind \in Kinds
  PROVE  Kept(p, HandleEmptyResponse(p, kind))
BY EmptyKeepsOK DEF Kept

LEMMA DataUnchanged ==
  ASSUME DataOK, UNCHANGED <<lastUpdate, filter, page>>
  PROVE  DataOK' /\ Kept(page, page')
BY DEF DataOK, Kept

LEMMA StepResponses ==
  ASSUME FetchesOK, DataOK, NEW i \in Ids, Responses(i)
  PROVE  DataOK' /\ [Polled!Next]_(Polled!vars)
<1>1. PICK kind \in Kinds, outcome \in {"ok", "failed"} :
        FirstResponse(i, kind, outcome) \/ BothResponses(i, kind, outcome)
  BY DEF Responses
<1> DEFINE f == [fetch[i] EXCEPT ![kind] = outcome]
<1>2. fetch[i].pc = "responses" /\ FetchOK(fetch[i]) /\ DOMAIN fetch = Ids
  BY <1>1 DEF FirstResponse, BothResponses, FetchesOK
<1>3. f \in Fetch /\ f.pc = "responses"
  BY <1>2, Learns
<1>4. Owed(fetch[i]) = Kinds /\ Owed(f) = Kinds
  BY <1>2, <1>3, OwedValues
<1>5. ASSUME NEW g, Owed(g) = Kinds, fetch' = [fetch EXCEPT ![i] = g],
             UNCHANGED <<timerVars, started, status, lastUpdate, filter, page>>
      PROVE  DataOK' /\ [Polled!Next]_(Polled!vars)
  <2>1. DataOK' /\ Kept(page, page')
    BY <1>5, DataUnchanged
  <2>2. UNCHANGED <<isPolling, started>>
    BY <1>5 DEF timerVars
  <2>. QED  BY <1>2, <1>4, <1>5, <2>1, <2>2, StepGivesUp
<1>6. CASE FirstResponse(i, kind, outcome)
  <2>1. /\ fetch' = [fetch EXCEPT ![i] = f]
        /\ UNCHANGED <<timerVars, started, status, lastUpdate, filter, page>>
    BY <1>6 DEF FirstResponse
  <2> HIDE DEF f
  <2>. QED  BY <1>4, <1>5, <2>1
<1>7. CASE BothResponses(i, kind, outcome)
  <2>1. CASE /\ fetch' = [fetch EXCEPT ![i] = [f EXCEPT !.pc = "metricsText"]]
             /\ UNCHANGED <<timerVars, started, status, lastUpdate, filter, page>>
    <3> DEFINE g == [f EXCEPT !.pc = "metricsText"]
    <3> HIDE DEF f
    <3>1. g.pc = "metricsText"
      BY <1>3 DEF Fetch
    <3>2. fetch' = [fetch EXCEPT ![i] = g]
      BY <2>1
    <3> HIDE DEF g
    <3>3. Owed(g) = Kinds
      BY <3>1, OwedValues
    <3>. QED  BY <1>5, <2>1, <3>2, <3>3
  <2>2. CASE ProceedToComputed(i, f, HandleEmptyResponse(page, "metrics"))
    <3> DEFINE p == HandleEmptyResponse(page, "metrics")
    <3>1. PageOK(p, filter) /\ Kept(page, p)
      BY EmptyKeepsOK, KeptByEmpty DEF DataOK, Kinds
    <3> HIDE DEF f, p
    <3>2. /\ DataOK' /\ Kept(p, page') /\ UNCHANGED <<isPolling, started>>
          /\ \E g : fetch' = [fetch EXCEPT ![i] = g] /\ Owed(g) \subseteq {"computed"}
      BY <1>3, <2>2, <3>1, ProceedEnds DEF p
    <3>3. PICK g : fetch' = [fetch EXCEPT ![i] = g] /\ Owed(g) \subseteq {"computed"}
      BY <3>2
    <3>4. Kept(page, page')
      BY <3>1, <3>2 DEF Kept
    <3>5. Owed(g) \subseteq Owed(fetch[i])
      BY <1>4, <3>3 DEF Kinds
    <3>6. Polled!Next
      BY <1>2, <3>2, <3>3, <3>4, <3>5, StepGivesUp
    <3>. QED  BY <3>2, <3>6
  <2>. QED  BY <1>7, <2>1, <2>2 DEF BothResponses
<1>. QED  BY <1>1, <1>6, <1>7

LEMMA StepMetricsText ==
  ASSUME FetchesOK, DataOK, NEW i \in Ids, NEW a \in Answers \cup {None}, MetricsText(i, a)
  PROVE  DataOK' /\ Polled!Next
<1> DEFINE p == ProcessMetrics(page, a)
<1>1. fetch[i].pc = "metricsText" /\ ProceedToComputed(i, fetch[i], p)
  BY DEF MetricsText
<1>2. fetch[i] \in Fetch /\ DOMAIN fetch = Ids /\ Owed(fetch[i]) = Kinds
  BY <1>1, OwedValues DEF FetchesOK, FetchOK
<1>3. PageOK(p, filter)
  BY MetricsKeepOK DEF DataOK
<1>4. Kept(page, p) \/ Delivered(page, p, "metrics", a)
  BY MetricsShown DEF DataOK, PageOK
<1> HIDE DEF p
<1>5. /\ DataOK' /\ Kept(p, page') /\ UNCHANGED <<isPolling, started>>
      /\ \E g : fetch' = [fetch EXCEPT ![i] = g] /\ Owed(g) \subseteq {"computed"}
  BY <1>1, <1>2, <1>3, ProceedEnds
<1>6. PICK g : fetch' = [fetch EXCEPT ![i] = g] /\ Owed(g) \subseteq {"computed"}
  BY <1>5
<1>7. /\ Owed(g) \subseteq Owed(fetch[i]) \ {"metrics"} /\ Owed(g) \subseteq Owed(fetch[i])
      /\ "metrics" \in Owed(fetch[i]) /\ "metrics" \in Kinds
  BY <1>2, <1>6 DEF Kinds
<1>8. CASE Kept(page, p)
  <2>1. Kept(page, page')
    BY <1>5, <1>8 DEF Kept
  <2>. QED  BY <1>2, <1>5, <1>6, <1>7, <2>1, StepGivesUp
<1>9. CASE Delivered(page, p, "metrics", a)
  <2>1. Delivered(page, page', "metrics", a)
    BY <1>5, <1>7, <1>9 DEF Kept, Delivered
  <2>. QED  BY <1>2, <1>5, <1>6, <1>7, <2>1, StepDelivers
<1>. QED  BY <1>4, <1>8, <1>9

LEMMA StepComputedText ==
  ASSUME FetchesOK, DataOK, NEW i \in Ids, NEW a \in Answers \cup {None}, ComputedText(i, a)
  PROVE  DataOK' /\ Polled!Next
<1>1. /\ fetch[i].pc = "computedText" /\ fetch' = [fetch EXCEPT ![i] = Done]
      /\ page' = ProcessComputedMetrics(page, a) /\ lastUpdate' = TRUE
      /\ UNCHANGED <<isPolling, started, filter>>
  BY DEF ComputedText, Finish, timerVars
<1>2. DOMAIN fetch = Ids /\ Owed(fetch[i]) = {"computed"} /\ Owed(Done) = {}
  BY <1>1, OwedValues DEF FetchesOK
<1>3. DataOK'
  BY <1>1, ComputedKeepOK DEF DataOK
<1>4. Kept(page, page') \/ Delivered(page, page', "computed", a)
  BY <1>1, ComputedShown DEF DataOK, PageOK
<1>5. CASE Kept(page, page')
  BY <1>1, <1>2, <1>3, <1>5, StepGivesUp
<1>6. CASE Delivered(page, page', "computed", a)
  <2>1. /\ "computed" \in Kinds /\ "computed" \in Owed(fetch[i])
        /\ Owed(Done) \subseteq Owed(fetch[i]) \ {"computed"}
    BY <1>2 DEF Kinds
  <2>2. Polled!Next
    BY <1>1, <1>2, <1>6, <2>1, StepDelivers
  <2>. QED  BY <1>3, <2>2
<1>. QED  BY <1>4, <1>5, <1>6

LEMMA StepTextFails ==
  ASSUME FetchesOK, DataOK, NEW i \in Ids, TextFails(i)
  PROVE  DataOK' /\ Polled!Next
<1>1. /\ fetch' = [fetch EXCEPT ![i] = Done]
      /\ UNCHANGED <<isPolling, started, lastUpdate, filter, page>>
  BY DEF TextFails, timerVars
<1>2. DataOK' /\ Kept(page, page')
  BY <1>1, DataUnchanged
<1>. QED  BY <1>1, <1>2, StepGivesUp, OwedValues DEF FetchesOK

LEMMA StepTexts ==
  ASSUME FetchesOK, DataOK, NEW i \in Ids, Texts(i)
  PROVE  DataOK' /\ Polled!Next
BY StepMetricsText, StepComputedText, StepTextFails DEF Texts

LEMMA StepTimer ==
  ASSUME FetchesOK, DataOK, NEW h \in Handles, TimerFires(h)
  PROVE  DataOK' /\ FetchesOK' /\ Polled!Next
<1>1. FetchData /\ isPolling' = isPolling /\ isPolling /\ UNCHANGED <<lastUpdate, filter, page>>
  BY DEF TimerFires, timerVars
<1>2. isPolling' = TRUE
  BY <1>1
<1>. QED  BY <1>1, <1>2, DataUnchanged, FetchDataStarts, StepPolls

LEMMA StepSetPollingInterval ==
  ASSUME TimersOK, FetchesOK, DataOK, NEW interval \in Intervals, SetPollingInterval(interval)
  PROVE  DataOK' /\ FetchesOK' /\ [Polled!Next]_(Polled!vars)
<1>1. UNCHANGED <<isPolling, lastUpdate, filter, page>>
  BY DEF SetPollingInterval
<1>2. DataOK' /\ Kept(page, page')
  BY <1>1, DataUnchanged
<1>3. CASE isPolling
  <2>1. FetchData /\ isPolling' = TRUE
    BY <1>1, <1>3 DEF SetPollingInterval, StartPolling, TimersOK
  <2>. QED  BY <1>1, <1>2, <2>1, FetchDataStarts, StepPolls
<1>4. CASE ~isPolling
  <2>1. UNCHANGED <<started, fetch, status>>
    BY <1>4 DEF SetPollingInterval
  <2>2. UNCHANGED owedNow
    BY <2>1 DEF owedNow
  <2>. QED  BY <1>1, <1>2, <2>1, <2>2, FetchesUnchanged, StepStutters
<1>. QED  BY <1>3, <1>4

LEMMA StepPause ==
  ASSUME FetchesOK, DataOK, PauseAutoRefresh
  PROVE  DataOK' /\ FetchesOK' /\ Polled!Next
<1>1. isPolling' = FALSE /\ UNCHANGED <<started, fetch, status, lastUpdate, filter, page>>
  BY DEF PauseAutoRefresh
<1>2. DataOK' /\ Kept(page, page')
  BY <1>1, DataUnchanged
<1>3. UNCHANGED <<[k \in Kinds |-> page[k].table], [k \in Kinds |-> page[k].total]>>
  BY <1>2 DEF Kept
<1>4. Polled!Pause
  BY <1>1, <1>3 DEF Polled!Pause
<1>. QED  BY <1>1, <1>2, <1>4, FetchesUnchanged DEF Polled!Next

LEMMA StepResume ==
  ASSUME FetchesOK, DataOK, ResumeAutoRefresh
  PROVE  DataOK' /\ FetchesOK' /\ Polled!Next
<1>1. FetchData /\ isPolling' = TRUE /\ UNCHANGED <<lastUpdate, filter, page>>
  BY DEF ResumeAutoRefresh, StartPolling
<1>. QED  BY <1>1, DataUnchanged, FetchDataStarts, StepPolls

LEMMA StepFilterInput ==
  ASSUME FetchesOK, DataOK, NEW kind \in Kinds, NEW text \in Filters, FilterInput(kind, text)
  PROVE  DataOK' /\ FetchesOK' /\ UNCHANGED Polled!vars
<1>1. /\ filter' = [filter EXCEPT ![kind] = text] /\ page' = ApplyFilters(page, filter')
      /\ UNCHANGED <<isPolling, started, fetch, status, lastUpdate>>
  BY DEF FilterInput, timerVars
<1>2. filter' \in [Kinds -> Filters]
  BY <1>1 DEF DataOK
<1>3. PageOK(page', filter') /\ Kept(page, page')
  <2>1. PageOK(page, filter)
    BY DEF DataOK
  <2>2. /\ PageOK(ApplyFilters(page, filter'), filter')
        /\ \A k \in Kinds : /\ ApplyFilters(page, filter')[k].table = page[k].table
                            /\ ApplyFilters(page, filter')[k].total = page[k].total
    BY <1>2, <2>1, FiltersKeepOK
  <2>. QED  BY <1>1, <2>2, Zenon DEF Kept
<1>4. UNCHANGED owedNow
  BY <1>1 DEF owedNow
<1>. QED  BY <1>1, <1>2, <1>3, <1>4, FetchesUnchanged, StepStutters DEF DataOK

LEMMA StepLegendClick ==
  ASSUME FetchesOK, DataOK, NEW kind \in Kinds, NEW l, LegendClick(kind, l)
  PROVE  DataOK' /\ FetchesOK' /\ UNCHANGED Polled!vars
<1>1. /\ page' = Toggled(page, kind, l) /\ l \in page[kind].datasets
      /\ UNCHANGED <<isPolling, started, fetch, status, lastUpdate, filter>>
  BY DEF LegendClick, Toggled, timerVars
<1>2. PageOK(page', filter) /\ Kept(page, page')
  BY <1>1, ToggleKeepsOK DEF DataOK, Kept
<1>3. UNCHANGED owedNow
  BY <1>1 DEF owedNow
<1>. QED  BY <1>1, <1>2, <1>3, FetchesUnchanged, StepStutters DEF DataOK

LEMMA StepClear ==
  ASSUME FetchesOK, DataOK, ClearData
  PROVE  DataOK' /\ FetchesOK' /\ Polled!Next
<1>1. page' = Cleared(page) /\ UNCHANGED <<isPolling, started, fetch, status, lastUpdate, filter>>
  BY DEF ClearData, Cleared, timerVars
<1>2. PageOK(page', filter) /\ \A k \in Kinds : page'[k].table = None /\ page'[k].total = 0
  BY <1>1, ClearKeepsOK DEF DataOK
<1>3. DataOK'
  BY <1>1, <1>2 DEF DataOK
<1>4. UNCHANGED owedNow
  BY <1>1 DEF owedNow
<1>5. Polled!Clear
  BY <1>1, <1>2, <1>4 DEF Polled!Clear, owedNow
<1>. QED  BY <1>1, <1>3, <1>5, FetchesUnchanged DEF Polled!Next

(***************************************************************************)
(* The theorems.                                                           *)
(***************************************************************************)

\* The inductive invariant.
IInv == TimersOK /\ FetchesOK /\ DataOK

LEMMA InitIInv == Init => IInv
BY TimersInit, FetchesInit, DataInit DEF IInv

\* Every step keeps the invariant and is one of PolledPage, or none there.
LEMMA NextIInv == IInv /\ [Next]_vars => IInv' /\ [Polled!Next]_(Polled!vars)
<1> SUFFICES ASSUME IInv, [Next]_vars
             PROVE  IInv' /\ [Polled!Next]_(Polled!vars)
  OBVIOUS
<1> USE DEF IInv
<1>1. ASSUME NEW i \in Ids, Responses(i)
      PROVE  IInv' /\ [Polled!Next]_(Polled!vars)
  <2>1. UNCHANGED timerVars
    BY <1>1 DEF Responses, FirstResponse, BothResponses, ProceedToComputed, Finish
  <2>. QED  BY <1>1, <2>1, TimersUnchanged, FetchesResponses, StepResponses
<1>2. ASSUME NEW i \in Ids, Texts(i)
      PROVE  IInv' /\ [Polled!Next]_(Polled!vars)
  <2>1. UNCHANGED timerVars
    BY <1>2 DEF Texts, MetricsText, ComputedText, TextFails, ProceedToComputed, Finish
  <2>. QED  BY <1>2, <2>1, TimersUnchanged, FetchesTexts, StepTexts
<1>3. ASSUME NEW h \in Handles, TimerFires(h)
      PROVE  IInv' /\ [Polled!Next]_(Polled!vars)
  <2>1. UNCHANGED timerVars
    BY <1>3 DEF TimerFires
  <2>. QED  BY <1>3, <2>1, TimersUnchanged, StepTimer
<1>4. ASSUME NEW interval \in Intervals, SetPollingInterval(interval)
      PROVE  IInv' /\ [Polled!Next]_(Polled!vars)
  BY <1>4, TimersSetPollingInterval, StepSetPollingInterval
<1>5. CASE PauseAutoRefresh
  BY <1>5, TimersPause, StepPause
<1>6. CASE ResumeAutoRefresh
  BY <1>6, TimersResume, StepResume
<1>7. ASSUME NEW kind \in Kinds, NEW text \in Filters, FilterInput(kind, text)
      PROVE  IInv' /\ [Polled!Next]_(Polled!vars)
  <2>1. UNCHANGED timerVars
    BY <1>7 DEF FilterInput
  <2>. QED  BY <1>7, <2>1, TimersUnchanged, StepFilterInput
<1>8. CASE ClearData
  <2>1. UNCHANGED timerVars
    BY <1>8 DEF ClearData
  <2>. QED  BY <1>8, <2>1, TimersUnchanged, StepClear
<1>0. ASSUME NEW c \in Clickable, LegendClick(c.kind, c.label)
      PROVE  IInv' /\ [Polled!Next]_(Polled!vars)
  <2>1. UNCHANGED timerVars
    BY <1>0 DEF LegendClick
  <2>2. c.kind \in Kinds
    BY DashboardAssumption DEF Kinds
  <2>. QED  BY <1>0, <2>1, <2>2, TimersUnchanged, StepLegendClick
<1>9. CASE UNCHANGED vars
  <2>1. UNCHANGED <<timerVars, isPolling, started, fetch, status, lastUpdate, filter, page>>
    BY <1>9 DEF vars, timerVars
  <2>2. UNCHANGED owedNow
    BY <2>1 DEF owedNow
  <2>. QED  BY <2>1, <2>2, TimersUnchanged, FetchesUnchanged, DataUnchanged, StepStutters
<1>. QED  BY <1>0, <1>1, <1>2, <1>3, <1>4, <1>5, <1>6, <1>7, <1>8, <1>9 DEF Next, User

\* The inductive invariant holds in every state the page reaches
\* (app.js:162-246, 282-296, 484-530, 590-643).
THEOREM Invariance == Safety => []IInv
BY InitIInv, NextIInv, PTL DEF Safety

LEMMA IInvImplies == IInv => TypeOK /\ OneTimer /\ LoadingMeansFetching /\ PageAgrees
<1> SUFFICES ASSUME IInv
             PROVE  TypeOK /\ OneTimer /\ LoadingMeansFetching /\ PageAgrees
  OBVIOUS
<1>1. TimersOK /\ FetchesOK /\ DataOK
  BY DEF IInv
<1>2. page \in Page /\ PageAgrees
  BY <1>1, PageProperties DEF DataOK, PageOK
<1>3. TypeOK
  BY <1>1, <1>2 DEF TypeOK, TimersOK, FetchesOK, DataOK, Page
<1>. QED  BY <1>1, <1>2, <1>3 DEF TimersOK, FetchesOK

\* Variables keep their types; a fetch at an await has the responses that await
\* needs (app.js:194-246).
THEOREM TypeCorrectness == Safety => []TypeOK
BY Invariance, IInvImplies, PTL

\* Any sequence of slider, checkbox and button events leaves one timer at the
\* slider's interval while automatic refresh is on, none while it is off
\* (app.js:162-192).
THEOREM TimerIsOne == Safety => []OneTimer
BY Invariance, IInvImplies, PTL

\* "Fetching data..." is shown only while the newest fetch is under way, however
\* many overlap, fail and end in another order (app.js:195, 240-245).
THEOREM LoadingIsTrue == Safety => []LoadingMeansFetching
BY Invariance, IInvImplies, PTL

\* Charts, tables, totals and overview tell of the same answers, whatever
\* fetches, Clear Data and filters interleave (app.js:282-296, 361-374,
\* 590-609, 625-643).
THEOREM PageIsConsistent == Safety => []PageAgrees
BY Invariance, IInvImplies, PTL

\* The page implements PolledPage: an answer is shown and counted at most once
\* per poll, and only polls and Clear Data change what is shown
\* (app.js:171-246, 625-646).
THEOREM Implementation == Safety => Refinement
<1>1. Init => Polled!Init
  <2> SUFFICES ASSUME Init PROVE Polled!Init
    OBVIOUS
  <2>1. \A i \in Ids : Owed(fetch[i]) = IF i = 1 THEN Kinds ELSE {}
    BY OwedValues DEF Init
  <2>2. \A k \in Kinds : page[k].table = None /\ page[k].total = 0
    BY DEF Init, NewPanel, Kinds
  <2>. QED  BY <2>1, <2>2 DEF Init, Polled!Init, Ids
<1>. QED  BY <1>1, InitIInv, NextIInv, PTL DEF Safety, Refinement, Polled!Spec

\* While automatic refresh is off no fetch starts (app.js:162-192).
THEOREM PauseIsHeeded == Safety => PauseHolds
<1>1. IInv /\ [Next]_vars => [~isPolling /\ ~isPolling' => started' = started]_vars
  <2> SUFFICES ASSUME IInv, [Next]_vars, ~isPolling, ~isPolling'
               PROVE  started' = started
    OBVIOUS
  <2>1. [Polled!Next]_(Polled!vars)
    BY NextIInv
  <2>2. isPolling = FALSE /\ isPolling' = FALSE
    BY NextIInv DEF IInv, TimersOK
  <2>. QED  BY <2>1, <2>2 DEF Polled!Next, Polled!Poll, Polled!Pause, Polled!Deliver,
              Polled!GiveUp, Polled!Clear, Polled!vars
<1>. QED  BY <1>1, Invariance, InitIInv, NextIInv, PTL DEF Safety, PauseHolds

(***************************************************************************)
(* What comes into view.                                                   *)
(***************************************************************************)

\* From page p to page q, a panel that counts no new answer hides what it hid.
Veils(p, q) == \A k \in Kinds : q[k].total = p[k].total => p[k].hidden \subseteq q[k].hidden

LEMMA EmptyVeils ==
  ASSUME NEW texts, NEW p, NEW q, PageOK(q, texts), Veils(p, q), NEW kind \in Kinds
  PROVE  Veils(p, HandleEmptyResponse(q, kind))
BY EmptyKeepsOK DEF Veils

LEMMA ProceedVeils ==
  ASSUME NEW i, NEW f, NEW p, PageOK(p, filter), Veils(page, p), ProceedToComputed(i, f, p)
  PROVE  Veils(page, page')
BY EmptyVeils DEF ProceedToComputed, Finish, Kinds

LEMMA ResponsesVeil ==
  ASSUME DataOK, NEW i \in Ids, Responses(i)
  PROVE  Veils(page, page')
<1>1. PICK kind \in Kinds, outcome \in {"ok", "failed"} :
        FirstResponse(i, kind, outcome) \/ BothResponses(i, kind, outcome)
  BY DEF Responses
<1>2. Veils(page, page) /\ PageOK(page, filter) /\ "metrics" \in Kinds
  BY DEF Veils, DataOK, Kinds
<1>3. CASE page' = page
  BY <1>2, <1>3
<1>4. ASSUME NEW f, ProceedToComputed(i, f, HandleEmptyResponse(page, "metrics"))
      PROVE  Veils(page, page')
  BY <1>2, <1>4, EmptyVeils, EmptyKeepsOK, ProceedVeils
<1>. QED  BY <1>1, <1>3, <1>4 DEF FirstResponse, BothResponses

LEMMA MetricsVeil ==
  ASSUME DataOK, NEW i \in Ids, NEW a \in Answers \cup {None}, MetricsText(i, a)
  PROVE  Veils(page, page')
<1> DEFINE p == ProcessMetrics(page, a)
<1>1. page \in Page /\ PageOK(p, filter)
  BY MetricsKeepOK DEF DataOK, PageOK
<1>2. Veils(page, p)
  <2>1. CASE IsEmpty(a)
    <3>1. p = HandleEmptyResponse(page, "metrics") /\ Veils(page, page) /\ "metrics" \in Kinds
      BY <2>1 DEF ProcessMetrics, Veils, Kinds
    <3>. QED  BY <3>1, EmptyVeils DEF DataOK
  <2>2. CASE ~IsEmpty(a)
    <3>1. a \in Answers /\ a.size \in Nat \ {0} /\ page.metrics.total \in Nat
      BY <1>1, <2>2, DashboardAssumption DEF IsEmpty, Page, Panel
    <3>2. p.metrics = Shows(page.metrics, a) /\ p.computed = page.computed
      BY <1>1, <2>2, <3>1, MetricsProcessed
    <3> HIDE DEF p
    <3>3. p.metrics.total # page.metrics.total
      BY <3>1, <3>2 DEF Shows
    <3>. QED  BY <3>2, <3>3 DEF Veils, Kinds
  <2>. QED  BY <2>1, <2>2
<1>3. ProceedToComputed(i, fetch[i], p)
  BY DEF MetricsText
<1> HIDE DEF p
<1>. QED  BY <1>1, <1>2, <1>3, ProceedVeils

LEMMA ComputedVeil ==
  ASSUME DataOK, NEW i \in Ids, NEW a \in Answers \cup {None}, ComputedText(i, a)
  PROVE  Veils(page, page')
<1> DEFINE p == ProcessComputedMetrics(page, a)
<1>1. page \in Page /\ page' = p
  BY DEF ComputedText, Finish, DataOK, PageOK
<1>2. CASE IsEmpty(a)
  <2>1. p = HandleEmptyResponse(page, "computed") /\ Veils(page, page) /\ "computed" \in Kinds
    BY <1>2 DEF ProcessComputedMetrics, Veils, Kinds
  <2>. QED  BY <1>1, <2>1, EmptyVeils DEF DataOK
<1>3. CASE ~IsEmpty(a)
  <2>1. a \in Answers /\ a.size \in Nat \ {0} /\ page.computed.total \in Nat
    BY <1>1, <1>3, DashboardAssumption DEF IsEmpty, Page, Panel
  <2>2. p.computed = Shows(page.computed, a) /\ p.metrics = page.metrics
    BY <1>1, <1>3, <2>1, ComputedProcessed
  <2> HIDE DEF p
  <2>3. p.computed.total # page.computed.total
    BY <2>1, <2>2 DEF Shows
  <2>. QED  BY <1>1, <2>2, <2>3 DEF Veils, Kinds
<1>. QED  BY <1>2, <1>3

\* What is out of view comes back only by an answer of its kind, its own filter
\* box or its name in the legend, whatever fetches, pauses and Clear Data
\* interleave (app.js:86-95, 484-530).
THEOREM HiddenIsKept == Safety => HiddenStaysHidden
<1> DEFINE A == \A k \in Kinds, l \in Labels :
                  ComesIntoView(k, l) => \/ page'[k].total # page[k].total
                                         \/ filter'[k] # filter[k]
                                         \/ LegendClick(k, l)
<1>1. IInv /\ [Next]_vars => [A]_vars
  <2> SUFFICES ASSUME IInv, Next PROVE A
    OBVIOUS
  <2>k. DataOK
    BY DEF IInv
  <2>0. ASSUME Veils(page, page') PROVE A
    BY <2>0 DEF Veils, ComesIntoView
  <2>1. ASSUME page' = page PROVE A
    BY <2>1 DEF ComesIntoView
  <2> HIDE DEF A
  <2>2. ASSUME NEW i \in Ids, Responses(i) PROVE A
    BY <2>k, <2>0, <2>2, ResponsesVeil
  <2>3. ASSUME NEW i \in Ids, Texts(i) PROVE A
    <3>1. CASE TextFails(i)
      BY <2>1, <3>1 DEF TextFails
    <3>2. ASSUME NEW a \in Answers \cup {None}, MetricsText(i, a) \/ ComputedText(i, a)
          PROVE  A
      BY <2>k, <2>0, <3>2, MetricsVeil, ComputedVeil
    <3>. QED  BY <2>3, <3>1, <3>2 DEF Texts
  <2>4. CASE (\E h \in Handles : TimerFires(h)) \/ PauseAutoRefresh \/ ResumeAutoRefresh
    BY <2>1, <2>4 DEF TimerFires, PauseAutoRefresh, ResumeAutoRefresh
  <2>5. ASSUME NEW interval \in Intervals, SetPollingInterval(interval) PROVE A
    BY <2>1, <2>5 DEF SetPollingInterval
  <2>6. ASSUME NEW kind \in Kinds, NEW text \in Filters, FilterInput(kind, text) PROVE A
    <3>1. /\ page' = ApplyFilters(page, filter') /\ filter' \in [Kinds -> Filters]
      BY <2>k, <2>6 DEF FilterInput, DataOK
    <3>2. \A k \in Kinds : filter'[k] = filter[k] => page[k].hidden \subseteq page'[k].hidden
      BY <2>k, <3>1, FiltersKeepOK DEF DataOK
    <3>. QED  BY <3>2 DEF A, ComesIntoView
  <2>7. ASSUME NEW c \in Clickable, LegendClick(c.kind, c.label) PROVE A
    <3>1. c.kind \in Kinds
      BY DashboardAssumption DEF Kinds
    <3>2. page' = Toggled(page, c.kind, c.label) /\ c.label \in page[c.kind].datasets
      BY <2>7 DEF LegendClick, Toggled
    <3>3. \A k \in Kinds : /\ page[k].hidden \ {c.label} \subseteq page'[k].hidden
                           /\ k # c.kind => page'[k].hidden = page[k].hidden
      BY <2>k, <3>1, <3>2, ToggleKeepsOK DEF DataOK
    <3>4. ASSUME NEW k \in Kinds, NEW l \in Labels, ComesIntoView(k, l)
          PROVE  LegendClick(k, l)
      <4>1. l \in page[k].hidden /\ l \notin page'[k].hidden
        BY <3>4 DEF ComesIntoView
      <4>2. k = c.kind
        BY <3>3, <4>1, Zenon
      <4>3. l = c.label
        BY <3>3, <4>1, Zenon
      <4>. QED  BY <2>7, <4>2, <4>3, Zenon
    <3>. QED  BY <3>4 DEF A
  <2>8. CASE ClearData
    <3>1. page' = Cleared(page)
      BY <2>8 DEF ClearData, Cleared
    <3>2. \A k \in Kinds : page'[k].datasets = {}
      BY <2>k, <3>1, ClearKeepsOK DEF DataOK
    <3>. QED  BY <3>2 DEF A, ComesIntoView
  <2>. QED  BY <2>2, <2>3, <2>4, <2>5, <2>6, <2>7, <2>8 DEF Next, User
<1>. QED  BY <1>1, Invariance, PTL DEF Safety, HiddenStaysHidden
==============================================================================
