---------------------------- MODULE DashboardData ----------------------------
(***************************************************************************)
(* What the dashboard, web/app.js, makes of the data it has fetched: the   *)
(* points of a chart, the rows of a table, the merging of the plugins'     *)
(* results.  Pure functions; Dashboard models when they are applied.       *)
(*                                                                         *)
(* The code looks each field up under several spellings.  Two occur: "go", *)
(* the JSON names of pkg/models/metric.go (name, value, nfType,            *)
(* receivedAt), and "doc", those of web/README.md (Name, Value, NFType,    *)
(* ReceivedAt).  Which lookup knows which spelling is what is modelled.    *)
(* A number is counted in thousandths, a time is a natural number.         *)
(* Colours, line widths, HTML and the table of computed metrics, built as  *)
(* that of the raw ones, are left out.                                     *)
(***************************************************************************)
EXTENDS Naturals, Sequences, FiniteSets, SequencesExt

CONSTANTS
  MaxRawPoints,       (* points per metric in the raw chart: 50            *)
  MaxForecastPoints,  (* points per metric in the computed chart: 100      *)
  MaxRows,            (* rows of a table: 10                               *)
  Blank,              (* the empty name, of a metric deleted meanwhile     *)
  NotANumber          (* a value parseFloat makes nothing of               *)

ASSUME LimitsAssumption ==
  /\ MaxRawPoints \in Nat /\ MaxForecastPoints \in Nat /\ MaxRows \in Nat
  /\ MaxRows <= MaxRawPoints
  /\ NotANumber \notin Nat

\* sequence.slice(-n), and the longer sequence.slice(-n) of a shorter one.
LastOf(s, n) == SubSeq(s, (IF Len(s) > n THEN Len(s) - n ELSE 0) + 1, Len(s))

\* Mutant of KeepNewest: slice(0, n) keeps the other end.
KeepOldest(points, n) == SubSeq(points, 1, IF Len(points) > n THEN n ELSE Len(points))

\* Points beyond the limit are dropped from the front of the sorted list.
KeepNewest(points, n) == LastOf(points, n)

\* The members of a finite set from first to last: upto[p] holds p and those
\* before it.
Arranged(upto) ==
  [k \in 1..Cardinality(DOMAIN upto) |->
     CHOOSE p \in DOMAIN upto : Cardinality(upto[p]) = k]

\* The elements of s at the positions in a set, in the order of s.
ElementsAt(s, positions) ==
  LET order == Arranged([j \in positions |-> {i \in positions : i <= j}])
  IN  [k \in 1..Cardinality(positions) |-> s[order[k]]]

\* points.sort((a, b) => a.x - b.x): stable, as JavaScript's sort is.
SortByTime(points) ==
  LET order == Arranged([j \in DOMAIN points |->
                           {i \in DOMAIN points :
                              \/ points[i].x < points[j].x
                              \/ points[i].x = points[j].x /\ i <= j}])
  IN  [k \in DOMAIN points |-> points[order[k]]]

PointValue(m) == IF m.value = NotANumber THEN 0 ELSE m.value

(***************************************************************************)
(* Raw metrics.                                                            *)
(***************************************************************************)

\* The body of /api/metrics: one list, or an object with a list per name.
RawMetrics(lists) == FlattenSeq(lists)

\* The key a metric is grouped under.
ChartLabel(m) == IF m.name # Blank THEN m.name ELSE "Unknown"

\* receivedAt is not among the names looked up: a metric of the archiver is
\* plotted at the time of plotting.
RawTime(m, now) == IF m.spelling = "doc" THEN m.at ELSE now

GroupByMetricName(ms, now) ==
  [label \in {ChartLabel(m) : m \in ToSet(ms)} |->
     LET group  == ElementsAt(ms, {i \in DOMAIN ms : ChartLabel(ms[i]) = label})
         points == [i \in DOMAIN group |-> [x |-> RawTime(group[i], now),
                                            y |-> PointValue(group[i])]]
     IN  KeepNewest(SortByTime(points), MaxRawPoints)]

(***************************************************************************)
(* Computed metrics.  An answer is a sequence of plugin responses, each a  *)
(* sequence of [name, list] in the order of the response's keys.           *)
(***************************************************************************)

ListsOf(responses, name) ==
  LET entries == FlattenSeq(responses)
      named   == ElementsAt(entries, {i \in DOMAIN entries : entries[i].name = name})
  IN  [i \in DOMAIN named |-> named[i].list]

MergedNames(responses) == {entry.name : entry \in ToSet(FlattenSeq(responses))}

\* Mutant of MergeByName: a later plugin's list replaces an earlier one's.
MergeReplaces(responses) ==
  [name \in MergedNames(responses) |-> Last(ListsOf(responses, name))]

\* Two plugins may produce the same metric: their lists are concatenated.
MergeByName(responses) ==
  [name \in MergedNames(responses) |-> FlattenSeq(ListsOf(responses, name))]

\* The flat list, for the table and for the total.
AllComputed(responses) ==
  LET entries == FlattenSeq(responses)
  IN  FlattenSeq([i \in DOMAIN entries |-> entries[i].list])

\* Both spellings are looked up here.
ForecastTime(m, now) == m.at

GroupComputedMetricsByName(byName, now) ==
  [name \in DOMAIN byName |->
     LET list   == byName[name]
         points == [i \in DOMAIN list |-> [x |-> ForecastTime(list[i], now),
                                           y |-> PointValue(list[i])]]
     IN  KeepNewest(SortByTime(points), MaxForecastPoints)]

(***************************************************************************)
(* The table of raw metrics: the last metrics of the answer, the last one  *)
(* first.  Its columns NF type and timestamp are left out.                 *)
(***************************************************************************)

\* toFixed(2); what is no number is shown as it came.
FormatValue(value) == IF value = NotANumber THEN NotANumber ELSE (value + 5) \div 10

Row(m) == [name |-> IF m.name # Blank THEN m.name ELSE "N/A", value |-> FormatValue(m.value)]

\* Mutant of LatestRows: slice(0, n) takes the head of the answer.
LatestRowsFromHead(ms) == Reverse(SubSeq(ms, 1, IF Len(ms) > MaxRows THEN MaxRows ELSE Len(ms)))

LatestRows(ms) == Reverse(LastOf(ms, MaxRows))

MetricsTable(ms) == [i \in DOMAIN LatestRows(ms) |-> Row(LatestRows(ms)[i])]
==============================================================================
