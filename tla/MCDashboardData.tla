--------------------------- MODULE MCDashboardData ---------------------------
(* Composes every answer of the two endpoints up to a bound, one metric or  *)
(* forecast at a time, and checks what the dashboard makes of each.         *)
EXTENDS DashboardData

CONSTANTS
  Names,       (* names of metrics, Blank among them                        *)
  Values,      (* values, NotANumber among them                             *)
  Times,       (* times a metric carries                                    *)
  MaxMetrics,  (* metrics in an answer                                      *)
  MaxParts     (* lists of an answer, responses of an answer                *)

ASSUME TimesAssumption == Times \subseteq Nat /\ IsFiniteSet(Times)

VARIABLES
  lists,       (* the body of /api/metrics                                  *)
  responses    (* the body of /api/computed-metrics                         *)

vars == <<lists, responses>>

Metric == [spelling : {"go", "doc"}, name : Names, value : Values, at : Times]

\* The time of plotting is later than any metric's.
Now == 9

Init == lists = << <<>> >> /\ responses = << <<>> >>

AddMetric ==
  /\ Len(RawMetrics(lists)) < MaxMetrics
  /\ \E m \in Metric :
       lists' = [lists EXCEPT ![Len(lists)] = Append(@, m)]
  /\ UNCHANGED responses

NextList ==
  /\ Len(lists) < MaxParts
  /\ lists' = Append(lists, <<>>)
  /\ UNCHANGED responses

\* One forecast for each of some times.
ForecastsFor(name, spelling, at) ==
  LET times == Arranged([t \in at |-> {u \in at : u <= t}])
  IN  [i \in 1..Cardinality(at) |->
         [spelling |-> spelling, name |-> name, value |-> i, at |-> times[i]]]

\* A plugin's response lists each of its names once.
AddForecasts ==
  /\ \E name \in Names \ {Blank}, spelling \in {"go", "doc"}, at \in SUBSET Times :
       LET list == ForecastsFor(name, spelling, at)
       IN  /\ \A entry \in ToSet(Last(responses)) : entry.name # name
           /\ Len(AllComputed(responses)) + Len(list) <= MaxMetrics
           /\ responses' = [responses EXCEPT
                              ![Len(responses)] = Append(@, [name |-> name, list |-> list])]
  /\ UNCHANGED lists

NextPlugin ==
  /\ Len(responses) < MaxParts
  /\ responses' = Append(responses, <<>>)
  /\ UNCHANGED lists

\* One of the two bodies grows; the two are independent.
Next ==
  \/ responses = << <<>> >> /\ AddMetric
  \/ responses = << <<>> >> /\ NextList
  \/ lists = << <<>> >> /\ AddForecasts
  \/ lists = << <<>> >> /\ NextPlugin

Spec == Init /\ [][Next]_vars

(***************************************************************************)
(* What the dashboard shows of an answer.                                  *)
(***************************************************************************)

Raw      == RawMetrics(lists)
Computed == AllComputed(responses)

\* How often p occurs in f, a sequence or a function of positions in one.
Count(f, p) == Cardinality({i \in DOMAIN f : f[i] = p})

\* Points are those a limited chart should keep of all: in order of time, as
\* many as allowed, none of them older than one that was dropped.
NewestOf(points, all, limit) ==
  LET size == Cardinality(DOMAIN all)
  IN  /\ Len(points) = IF size < limit THEN size ELSE limit
      /\ IsSorted(points, LAMBDA p, q : p.x <= q.x)
      /\ \A p \in ToSet(points) : Count(points, p) <= Count(all, p)
      /\ \A p \in ToSet(all) :
           Count(points, p) < Count(all, p) => \A q \in ToSet(points) : p.x <= q.x

\* What one would plot without a limit, by position in the answer.
RawPoints(label) ==
  [i \in {j \in DOMAIN Raw : ChartLabel(Raw[j]) = label} |->
     [x |-> IF Raw[i].spelling = "doc" THEN Raw[i].at ELSE Now, y |-> PointValue(Raw[i])]]

ForecastPoints(label) ==
  [i \in {j \in DOMAIN Computed : Computed[j].name = label} |->
     [x |-> Computed[i].at, y |-> PointValue(Computed[i])]]

\* Every chart keeps exactly the newest points of each metric, whatever order
\* and spelling the answer has: what sort and slice(-n) are there for
\* (app.js:412-418, 473-479).
ChartKeepsNewest ==
  /\ LET chart == GroupByMetricName(Raw, Now)
     IN  \A label \in DOMAIN chart :
           NewestOf(chart[label], RawPoints(label), MaxRawPoints)
  /\ LET chart == GroupComputedMetricsByName(MergeByName(responses), Now)
     IN  \A label \in DOMAIN chart :
           NewestOf(chart[label], ForecastPoints(label), MaxForecastPoints)

\* The table and the chart of raw metrics show the same data: each row of an
\* archiver's answer has a point with its value, under its name.  It rests on
\* the table being shorter than a chart and on both keeping the same end of
\* the answer, although one slices before and the other after sorting
\* (app.js:277-293, 412-418, 536).
RowsArePlotted ==
  (\A m \in ToSet(Raw) : m.spelling = "go") =>
    LET chart == GroupByMetricName(Raw, Now)
        rows  == MetricsTable(Raw)
    IN  \A i \in DOMAIN rows :
          \E label \in DOMAIN chart :
            /\ label = rows[i].name \/ (rows[i].name = "N/A" /\ label = "Unknown")
            /\ \E p \in ToSet(chart[label]) :
                 rows[i].value \in {NotANumber, FormatValue(p.y)}

\* Nothing is lost or doubled when the plugins' results are merged by name:
\* the chart's lists together hold what the table's flat list holds
\* (app.js:326-350).
MergeLosesNothing ==
  LET byName == MergeByName(responses)
  IN  \A m \in ToSet(Computed) \cup UNION {ToSet(byName[n]) : n \in DOMAIN byName} :
        Count(Computed, m) = IF m.name \in DOMAIN byName THEN Count(byName[m.name], m) ELSE 0
==============================================================================
