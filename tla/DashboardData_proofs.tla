------------------------- MODULE DashboardData_proofs ------------------------
(* The properties of MCDashboardData, for all limits, names, values, times  *)
(* and answers of any length.                                               *)
EXTENDS MCDashboardData, DashboardDataLemmas

(***************************************************************************)
(* The answers.                                                            *)
(***************************************************************************)

Forecast == [spelling : {"go", "doc"}, name : Names \ {Blank}, value : Nat, at : Nat]
Entry    == [name : Names \ {Blank}, list : Seq(Forecast)]

\* A forecast is listed under its name.  The rest of what the properties rest
\* on is what the operators do with such answers.
WellFormed ==
  /\ lists \in Seq(Seq(Metric)) /\ lists # << >>
  /\ responses \in Seq(Seq(Entry)) /\ responses # << >>
  /\ \A r \in DOMAIN responses : \A e \in DOMAIN responses[r] :
       \A i \in DOMAIN responses[r][e].list :
         responses[r][e].list[i].name = responses[r][e].name

LEMMA InitWellFormed == Init => WellFormed
BY DEF Init, WellFormed

LEMMA AddMetricWellFormed == WellFormed /\ AddMetric => WellFormed'
<1>. SUFFICES ASSUME WellFormed, NEW m \in Metric, UNCHANGED responses,
                     lists' = [lists EXCEPT ![Len(lists)] = Append(@, m)]
              PROVE  WellFormed'
  BY DEF AddMetric
<1>1. Len(lists) \in 1..Len(lists) /\ lists \in Seq(Seq(Metric))
  BY DEF WellFormed
<1>2. Append(lists[Len(lists)], m) \in Seq(Metric)
  BY <1>1
<1>3. lists' \in Seq(Seq(Metric)) /\ Len(lists') = Len(lists)
  BY <1>1, <1>2, ExceptSeq
<1>4. lists' # << >>
  BY <1>1, <1>3
<1>. QED  BY <1>3, <1>4 DEF WellFormed

LEMMA ForecastsForWellFormed ==
  ASSUME NEW name \in Names \ {Blank}, NEW spelling \in {"go", "doc"}, NEW at \in SUBSET Times
  PROVE  LET list == ForecastsFor(name, spelling, at)
         IN  list \in Seq(Forecast) /\ \A i \in DOMAIN list : list[i].name = name
<1> DEFINE upto == [t \in at |-> {u \in at : u <= t}]
           times == Arranged(upto)
<1>1. at \in SUBSET Nat /\ IsFiniteSet(at) /\ Cardinality(at) \in Nat
  BY TimesAssumption, FS_Subset, FS_CardinalityType
<1>2. times \in Bijection(1..Cardinality(at), at)
  <2>1. OrderedBy(at, upto)
    BY <1>1, UpToIsOrder
  <2>. HIDE DEF upto
  <2>. QED  BY <1>1, <2>1, ArrangedInOrder
<1>3. ForecastsFor(name, spelling, at) =
        [i \in 1..Cardinality(at) |->
           [spelling |-> spelling, name |-> name, value |-> i, at |-> times[i]]]
  BY Zenon DEF ForecastsFor
<1>. HIDE DEF times
<1> DEFINE list == [i \in 1..Cardinality(at) |->
                      [spelling |-> spelling, name |-> name, value |-> i, at |-> times[i]]]
<1>4. \A i \in 1..Cardinality(at) : times[i] \in Nat
  BY <1>1, <1>2 DEF Bijection, Injection
<1>5. \A i \in 1..Cardinality(at) : list[i] \in Forecast /\ list[i].name = name
  BY <1>4 DEF Forecast
<1>6. DOMAIN list = 1..Cardinality(at)
  OBVIOUS
<1>7. list \in Seq(Forecast)
  <2>1. list \in [1..Cardinality(at) -> Forecast]
    BY <1>5
  <2>. HIDE DEF list
  <2>. QED  BY <1>1, <2>1, SeqDef
<1>. HIDE DEF list
<1>. QED  BY <1>3, <1>5, <1>6, <1>7 DEF list

LEMMA AddForecastsWellFormed == WellFormed /\ AddForecasts => WellFormed'
<1>. SUFFICES ASSUME WellFormed, UNCHANGED lists, NEW name \in Names \ {Blank},
                     NEW spelling \in {"go", "doc"}, NEW at \in SUBSET Times,
                     responses' = [responses EXCEPT ![Len(responses)] =
                                     Append(@, [name |-> name,
                                                list |-> ForecastsFor(name, spelling, at)])]
              PROVE  WellFormed'
  BY Zenon DEF AddForecasts
<1> DEFINE list == ForecastsFor(name, spelling, at)
           entry == [name |-> name, list |-> list]
<1>1. list \in Seq(Forecast) /\ \A i \in DOMAIN list : list[i].name = name
  BY ForecastsForWellFormed
<1>. HIDE DEF list
<1>2. entry \in Entry /\ \A i \in DOMAIN entry.list : entry.list[i].name = entry.name
  BY <1>1 DEF Entry
<1>. HIDE DEF entry
<1>3. /\ Len(responses) \in 1..Len(responses) /\ responses \in Seq(Seq(Entry))
      /\ DOMAIN responses = 1..Len(responses)
  BY DEF WellFormed
<1>4. Append(responses[Len(responses)], entry) \in Seq(Entry)
  BY <1>2, <1>3
<1>5. /\ responses' \in Seq(Seq(Entry)) /\ Len(responses') = Len(responses)
      /\ DOMAIN responses' = DOMAIN responses
  BY <1>3, <1>4, ExceptSeq DEF entry, list
<1>6. responses' # << >>
  BY <1>3, <1>5
<1>7. ASSUME NEW r \in DOMAIN responses', NEW e \in DOMAIN responses'[r],
             NEW i \in DOMAIN responses'[r][e].list
      PROVE  responses'[r][e].list[i].name = responses'[r][e].name
  <2>1. CASE r # Len(responses)
    <3>1. responses'[r] = responses[r]
      BY <1>3, <1>5, <2>1
    <3>. QED  BY <1>5, <1>7, <3>1 DEF WellFormed
  <2>2. CASE r = Len(responses)
    <3>1. /\ responses'[r] = Append(responses[r], entry)
          /\ responses[r] \in Seq(Entry) /\ r \in DOMAIN responses
      BY <1>3, <2>2 DEF entry, list
    <3>2. \/ e \in DOMAIN responses[r] /\ responses'[r][e] = responses[r][e]
          \/ responses'[r][e] = entry
      BY <1>2, <3>1
    <3>. QED  BY <1>2, <1>7, <3>1, <3>2 DEF WellFormed
  <2>. QED  BY <2>1, <2>2
<1>. QED  BY <1>5, <1>6, <1>7 DEF WellFormed

LEMMA NextWellFormed == WellFormed /\ [Next]_vars => WellFormed'
<1>. SUFFICES ASSUME WellFormed, [Next]_vars PROVE WellFormed'
  OBVIOUS
<1>1. CASE AddMetric
  BY <1>1, AddMetricWellFormed
<1>2. CASE NextList
  <2>1. lists' = Append(lists, << >>) /\ << >> \in Seq(Metric)
    BY <1>2 DEF NextList
  <2>2. lists' \in Seq(Seq(Metric)) /\ lists' # << >>
    BY <2>1, AppendProperties DEF WellFormed
  <2>. QED  BY <1>2, <2>2 DEF NextList, WellFormed
<1>3. CASE AddForecasts
  BY <1>3, AddForecastsWellFormed
<1>4. CASE NextPlugin
  <2>1. /\ responses' = Append(responses, << >>) /\ << >> \in Seq(Entry)
        /\ responses \in Seq(Seq(Entry))
    BY <1>4 DEF NextPlugin, WellFormed
  <2>2. responses' \in Seq(Seq(Entry)) /\ responses' # << >>
    BY <2>1, AppendProperties
  <2>3. \A r \in DOMAIN responses' :
          \/ r \in DOMAIN responses /\ responses'[r] = responses[r]
          \/ responses'[r] = << >>
    BY <2>1
  <2>4. DOMAIN << >> = {}
    OBVIOUS
  <2>. QED  BY <1>4, <2>2, <2>3, <2>4 DEF NextPlugin, WellFormed
<1>5. CASE UNCHANGED vars
  BY <1>5 DEF vars, WellFormed
<1>. QED  BY <1>1, <1>2, <1>3, <1>4, <1>5 DEF Next

\* Every answer is well formed.
THEOREM AlwaysWellFormed == Spec => []WellFormed
BY InitWellFormed, NextWellFormed, PTL DEF Spec

LEMMA RawIsSeq == WellFormed => Raw \in Seq(Metric)
BY FlattenPlaces DEF WellFormed, Raw, RawMetrics

(***************************************************************************)
(* Charts.                                                                 *)
(***************************************************************************)

\* What is left of a sorted list when its front is cut off is what a limited
\* chart should keep.
LEMMA SuffixIsNewest ==
  ASSUME NEW all, \A p \in DOMAIN all : all[p].x \in Nat,
         NEW n \in Nat, NEW h \in Bijection(1..n, DOMAIN all),
         \A k, l \in 1..n : k <= l => all[h[k]].x <= all[h[l]].x,
         NEW limit \in Nat, NEW d \in Nat,
         n < limit => n - d = n,
         ~(n < limit) => n - d = limit,
         NEW kept, DOMAIN kept = 1..(n - d), Len(kept) = n - d,
         \A i \in 1..(n - d) : kept[i] = all[h[d + i]]
  PROVE  NewestOf(kept, all, limit)
<1>1. \A i \in 1..(n - d) : d + i \in 1..n
  OBVIOUS
<1>2. /\ \A k \in 1..n : h[k] \in DOMAIN all
      /\ \A k, l \in 1..n : h[k] = h[l] => k = l
      /\ \A p \in DOMAIN all : \E k \in 1..n : h[k] = p
  BY DEF Bijection, Injection, Surjection, IsInjective
<1>3. IsSorted(kept, LAMBDA p, q : p.x <= q.x)
  <2>1. \A i, j \in 1..(n - d) : i < j => d + i <= d + j
    OBVIOUS
  <2>2. \A i, j \in 1..(n - d) : i < j => kept[i].x <= kept[j].x
    BY <1>1, <2>1
  <2>. QED  BY <2>2 DEF IsSorted
<1> DEFINE In(p) == {i \in DOMAIN kept : kept[i] = p}
           Of(p) == {w \in DOMAIN all : all[w] = p}
<1>4. IsFiniteSet(DOMAIN all) /\ Cardinality(DOMAIN all) = n
  BY CountedUp
<1>5. ASSUME NEW p
      PROVE  IsFiniteSet(In(p)) /\ IsFiniteSet(Of(p))
  <2>1. IsFiniteSet(1..(n - d))
    <3>1. \A a, b \in Int : IsFiniteSet(a..b)
      BY FS_Interval, Zenon
    <3>2. 1 \in Int /\ n - d \in Int
      OBVIOUS
    <3>. QED  BY <3>1, <3>2
  <2>2. In(p) \in SUBSET (1..(n - d)) /\ Of(p) \in SUBSET (DOMAIN all)
    BY Zenon
  <2>3. \A S : IsFiniteSet(S) => \A T \in SUBSET S : IsFiniteSet(T)
    BY FS_Subset, Zenon
  <2>. HIDE DEF In, Of
  <2>. QED  BY <1>4, <2>1, <2>2, <2>3, Zenon
<1>6. ASSUME NEW p
      PROVE  Cardinality(In(p)) <= Cardinality(Of(p))
  <2> DEFINE f == [i \in In(p) |-> h[d + i]]
  <2>1. f \in [In(p) -> Of(p)]
    BY <1>1, <1>2
  <2>2. \A i, j \in In(p) : f[i] = f[j] => i = j
    <3>. SUFFICES ASSUME NEW i \in In(p), NEW j \in In(p), f[i] = f[j]
                  PROVE  i = j
      OBVIOUS
    <3>1. i \in 1..(n - d) /\ j \in 1..(n - d) /\ h[d + i] = h[d + j]
      OBVIOUS
    <3>2. d + i = d + j
      BY <1>1, <1>2, <3>1
    <3>. QED  BY <3>1, <3>2
  <2>3. f \in Injection(In(p), Of(p))
    <3>. HIDE DEF f, In, Of
    <3>. QED  BY <2>1, <2>2, Fun_IsInj
  <2>. HIDE DEF f, In, Of
  <2>. QED  BY <1>5, <2>3, FS_Injection
<1>7. ASSUME NEW p, \A w \in Of(p) : \E i \in In(p) : h[d + i] = w
      PROVE  Cardinality(In(p)) = Cardinality(Of(p))
  <2> DEFINE f == [i \in In(p) |-> h[d + i]]
  <2>1. f \in [In(p) -> Of(p)]
    BY <1>1, <1>2
  <2>2. \A i, j \in In(p) : f[i] = f[j] => i = j
    <3>. SUFFICES ASSUME NEW i \in In(p), NEW j \in In(p), f[i] = f[j]
                  PROVE  i = j
      OBVIOUS
    <3>1. i \in 1..(n - d) /\ j \in 1..(n - d) /\ h[d + i] = h[d + j]
      OBVIOUS
    <3>2. d + i = d + j
      BY <1>1, <1>2, <3>1
    <3>. QED  BY <3>1, <3>2
  <2>3. \A w \in Of(p) : \E i \in In(p) : f[i] = w
    BY <1>7
  <2>. HIDE DEF f, In, Of
  <2>. QED  BY <1>5, <2>1, <2>2, <2>3, SameSize
<1>8. ASSUME NEW p, Cardinality(In(p)) < Cardinality(Of(p)), NEW j \in 1..(n - d)
      PROVE  p.x <= kept[j].x
  <2>1. PICK w \in Of(p) : \A i \in In(p) : h[d + i] # w
    <3>. HIDE DEF In, Of
    <3>1. Cardinality(In(p)) \in Nat /\ Cardinality(Of(p)) \in Nat
      BY <1>5, FS_CardinalityType
    <3>2. Cardinality(In(p)) # Cardinality(Of(p))
      BY <1>8, <3>1
    <3>. QED  BY <1>7, <3>2, Zenon
  <2>2. PICK k \in 1..n : h[k] = w
    BY <1>2
  <2>3. k <= d
    <3>. SUFFICES ASSUME d < k PROVE FALSE
      OBVIOUS
    <3>1. k - d \in 1..(n - d) /\ d + (k - d) = k
      OBVIOUS
    <3>2. k - d \in In(p)
      BY <2>2, <3>1
    <3>. QED  BY <2>1, <2>2, <3>1, <3>2
  <2>. QED  BY <1>1, <2>2, <2>3
<1>9. \A p : Count(kept, p) = Cardinality(In(p)) /\ Count(all, p) = Cardinality(Of(p))
  BY Zenon DEF Count
<1>10. \A q \in ToSet(kept) : \E j \in 1..(n - d) : q = kept[j]
  BY DEF ToSet
<1>11. \A p : Count(kept, p) < Count(all, p) => \A q \in ToSet(kept) : p.x <= q.x
  <2>. HIDE DEF In, Of
  <2>. QED  BY <1>8, <1>9, <1>10
<1>12. \A p : Count(kept, p) <= Count(all, p)
  <2>. HIDE DEF In, Of
  <2>. QED  BY <1>6, <1>9
<1>13. Len(kept) = IF Cardinality(DOMAIN all) < limit THEN Cardinality(DOMAIN all) ELSE limit
  BY <1>4
<1>. QED  BY <1>3, <1>11, <1>12, <1>13, Zenon DEF NewestOf

\* So sorting and slicing the points of a group, in whatever order they come,
\* keeps the newest of them.
LEMMA KeptAreNewest ==
  ASSUME NEW all, \A p \in DOMAIN all : all[p].x \in Nat,
         NEW n \in Nat, NEW at \in Bijection(1..n, DOMAIN all),
         NEW points, DOMAIN points = 1..n, \A k \in 1..n : points[k] = all[at[k]],
         NEW limit \in Nat
  PROVE  NewestOf(KeepNewest(SortByTime(points), limit), all, limit)
<1>1. \A k \in 1..n : at[k] \in DOMAIN all
  BY DEF Bijection, Injection
<1>2. \A k \in 1..n : points[k].x \in Nat
  BY <1>1
<1>3. PICK s \in Bijection(1..n, 1..n) :
        /\ SortByTime(points) = [k \in 1..n |-> points[s[k]]]
        /\ \A k, l \in 1..n : k <= l => points[s[k]].x <= points[s[l]].x
  BY <1>2, SortInOrder, Zenon
<1>4. \A k \in 1..n : s[k] \in 1..n
  BY DEF Bijection, Injection
<1> DEFINE h == [k \in 1..n |-> at[s[k]]]
           V == {all[p] : p \in DOMAIN all}
           sorted == SortByTime(points)
           kept == LastOf(sorted, limit)
<1>5. h \in Bijection(1..n, DOMAIN all)
  <2>1. \A A, B, C : \A f \in Bijection(A, B), g \in Bijection(B, C) :
          [a \in A |-> g[f[a]]] \in Bijection(A, C)
    BY Fun_BijTransitive, Zenon
  <2>2. \A f \in Bijection(1..n, 1..n), g \in Bijection(1..n, DOMAIN all) :
          [a \in 1..n |-> g[f[a]]] \in Bijection(1..n, DOMAIN all)
    BY <2>1, Zenon
  <2>. QED  BY <2>2, Zenon
<1>6. \A k \in 1..n : sorted[k] = all[h[k]] /\ all[h[k]] \in V
  BY <1>1, <1>2, <1>3, <1>4
<1>7. sorted \in Seq(V) /\ Len(sorted) = n
  <2>1. sorted \in [1..n -> V]
    <3>1. sorted = [k \in 1..n |-> sorted[k]]
      BY <1>3
    <3>. HIDE DEF h, V, sorted
    <3>. QED  BY <1>6, <3>1
  <2>. HIDE DEF V, sorted
  <2>. QED  BY <2>1, SeqDef
<1>8. \A k, l \in 1..n : k <= l => all[h[k]].x <= all[h[l]].x
  <2>1. \A k \in 1..n : points[s[k]] = all[h[k]]
    BY <1>4
  <2>. HIDE DEF h
  <2>. QED  BY <1>3, <2>1
<1>. HIDE DEF h, V, sorted
<1>9. /\ kept \in Seq(V)
      /\ \E d \in Nat :
           /\ Len(kept) = Len(sorted) - d
           /\ Len(sorted) < limit => Len(sorted) - d = Len(sorted)
           /\ ~(Len(sorted) < limit) => Len(sorted) - d = limit
           /\ \A i \in 1..(Len(sorted) - d) : kept[i] = sorted[d + i]
  <2>1. sorted \in Seq(V) => kept \in Seq(V) /\
          \E d \in Nat :
            /\ Len(kept) = Len(sorted) - d
            /\ Len(sorted) < limit => Len(sorted) - d = Len(sorted)
            /\ ~(Len(sorted) < limit) => Len(sorted) - d = limit
            /\ \A i \in 1..(Len(sorted) - d) : kept[i] = sorted[d + i]
    BY LastOfDrops, Zenon
  <2>. QED  BY <1>7, <2>1, Zenon
<1>. HIDE DEF kept
<1>10. PICK d \in Nat :
         /\ Len(kept) = n - d
         /\ n < limit => n - d = n
         /\ ~(n < limit) => n - d = limit
         /\ \A i \in 1..(n - d) : kept[i] = sorted[d + i]
  BY <1>7, <1>9
<1>11. \A i \in 1..(n - d) : kept[i] = all[h[d + i]]
  <2>1. \A i \in 1..(n - d) : d + i \in 1..n
    OBVIOUS
  <2>. QED  BY <1>6, <1>10, <2>1
<1>12. DOMAIN kept = 1..(n - d)
  BY <1>9, <1>10
<1>13. NewestOf(kept, all, limit)
  BY <1>5, <1>8, <1>10, <1>11, <1>12, SuffixIsNewest
<1>. QED  BY <1>13, Zenon DEF KeepNewest, kept, sorted

(***************************************************************************)
(* Merging.                                                                *)
(***************************************************************************)

Entries == FlattenSeq(responses)

LEMMA EntriesWellFormed ==
  ASSUME WellFormed
  PROVE  /\ Entries \in Seq(Entry)
         /\ \A e \in 1..Len(Entries) : \A i \in 1..Len(Entries[e].list) :
              Entries[e].list[i].name = Entries[e].name
<1>1. responses \in Seq(Seq(Entry))
  BY DEF WellFormed
<1>2. /\ Entries \in Seq(Entry)
      /\ \E F : PlacedBy(F, responses, Len(responses), Entries)
  BY <1>1, FlattenPlaces DEF Entries
<1>3. PICK F : PlacedBy(F, responses, Len(responses), Entries)
  BY <1>2
<1>4. ASSUME NEW e \in 1..Len(Entries), NEW i \in 1..Len(Entries[e].list)
      PROVE  Entries[e].list[i].name = Entries[e].name
  <2>1. PICK c \in Cells(responses, Len(responses)) : F[c] = e
    BY <1>3 DEF PlacedBy
  <2>2. Entries[e] = responses[c[1]][c[2]]
    BY <1>3, <2>1 DEF PlacedBy
  <2>3. c[1] \in DOMAIN responses /\ c[2] \in DOMAIN responses[c[1]]
    BY <1>1 DEF Cells
  <2>4. Entries[e] \in Entry
    BY <1>2
  <2>5. i \in DOMAIN Entries[e].list
    BY <2>4 DEF Entry
  <2>6. \A k \in DOMAIN responses[c[1]][c[2]].list :
          responses[c[1]][c[2]].list[k].name = responses[c[1]][c[2]].name
    BY <2>3, Zenon DEF WellFormed
  <2>. QED  BY <2>2, <2>5, <2>6
<1>. QED  BY <1>2, <1>4

Lists == [i \in DOMAIN Entries |-> Entries[i].list]

LEMMA ListsAreSeqs ==
  ASSUME WellFormed
  PROVE  /\ Lists \in Seq(Seq(Forecast)) /\ Len(Lists) = Len(Entries)
         /\ \A i \in 1..Len(Entries) : Lists[i] = Entries[i].list
         /\ Computed = FlattenSeq(Lists) /\ Computed \in Seq(Forecast)
<1>1. Entries \in Seq(Entry) /\ DOMAIN Entries = 1..Len(Entries)
  BY EntriesWellFormed
<1>2. \A i \in 1..Len(Entries) : Entries[i].list \in Seq(Forecast)
  <2>1. \A i \in 1..Len(Entries) : Entries[i] \in Entry
    BY <1>1
  <2>2. \A entry \in Entry : entry.list \in Seq(Forecast)
    BY DEF Entry
  <2>. QED  BY <2>1, <2>2
<1>3. Lists \in [1..Len(Entries) -> Seq(Forecast)]
  BY <1>1, <1>2 DEF Lists
<1>4. Lists \in Seq(Seq(Forecast))
  BY <1>1, <1>3, SeqDef
<1>5. Len(Lists) = Len(Entries)
  BY <1>1, <1>3
<1>6. Computed = FlattenSeq(Lists)
  BY Zenon DEF Computed, AllComputed, Lists, Entries
<1>7. Computed \in Seq(Forecast)
  BY <1>4, <1>6, FlattenPlaces
<1>. QED  BY <1>1, <1>4, <1>5, <1>6, <1>7 DEF Lists

\* The list merged under a name holds the forecasts of that name in the flat
\* list, one by one.
LEMMA MergedIsSelected ==
  ASSUME WellFormed, NEW name \in MergedNames(responses)
  PROVE  LET list == MergeByName(responses)[name]
         IN  /\ list \in Seq(Forecast)
             /\ \E G \in Bijection(1..Len(list), {j \in DOMAIN Computed : Computed[j].name = name}) :
                  \A k \in 1..Len(list) : list[k] = Computed[G[k]]
<1> DEFINE positions == {i \in DOMAIN Entries : Entries[i].name = name}
           named == ElementsAt(Entries, positions)
           N == [i \in DOMAIN named |-> named[i].list]
           Mine == {m \in Forecast : m.name = name}
           n == Cardinality(positions)
<1>1. /\ Entries \in Seq(Entry) /\ DOMAIN Entries = 1..Len(Entries)
      /\ Lists \in Seq(Seq(Forecast)) /\ Len(Lists) = Len(Entries)
      /\ \A i \in 1..Len(Entries) : Lists[i] = Entries[i].list
      /\ Computed = FlattenSeq(Lists) /\ Computed \in Seq(Forecast)
  BY EntriesWellFormed, ListsAreSeqs
<1>2. ListsOf(responses, name) = N
  BY Zenon DEF ListsOf, Entries
<1>3. positions \in SUBSET (1..Len(Entries)) /\ positions \in SUBSET Nat /\ IsFiniteSet(positions)
  <2>1. positions \in SUBSET (1..Len(Entries)) /\ Len(Entries) \in Nat
    BY <1>1
  <2>2. IsFiniteSet(1..Len(Entries)) /\ 1..Len(Entries) \subseteq Nat
    BY <2>1, FS_Interval
  <2>. HIDE DEF positions
  <2>. QED  BY <2>1, <2>2, FS_Subset
<1>4. n \in Nat
  BY <1>3, FS_CardinalityType
<1>5. \E at \in Bijection(1..n, positions) : named = [k \in 1..n |-> Entries[at[k]]]
  <2>. HIDE DEF positions
  <2>. QED  BY <1>3, ElementsAtInOrder
<1>6. PICK at \in Bijection(1..n, positions) : named = [k \in 1..n |-> Entries[at[k]]]
  BY <1>5, Zenon
<1>7. \A k \in 1..n : at[k] \in positions /\ at[k] \in 1..Len(Entries)
  <2>. HIDE DEF positions
  <2>. QED  BY <1>3, <1>6 DEF Bijection, Injection
<1>8. \A k \in 1..n : N[k] = Lists[at[k]] /\ N[k] \in Seq(Forecast)
  <2>1. \A i \in 1..Len(Entries) : Lists[i] = Entries[i].list /\ Lists[i] \in Seq(Forecast)
    BY <1>1
  <2>2. \A k \in 1..n : N[k] = Entries[at[k]].list
    <3>. HIDE DEF n, named
    <3>. QED  BY <1>6
  <2>. HIDE DEF N, n, positions
  <2>. QED  BY <1>7, <2>1, <2>2
<1>9. N \in Seq(Seq(Forecast)) /\ Len(N) = n
  <2>1. DOMAIN N = 1..n
    <3>. HIDE DEF n, named
    <3>. QED  BY <1>6
  <2>2. N = [k \in 1..n |-> N[k]]
    <3>. HIDE DEF n, named
    <3>. QED  BY <2>1
  <2>. HIDE DEF N, n
  <2>3. N \in [1..n -> Seq(Forecast)]
    BY <1>8, <2>2
  <2>. QED  BY <1>4, <2>3, SeqDef
<1>10. \A i \in 1..Len(Lists) : \A j \in 1..Len(Lists[i]) : Lists[i][j] \in Mine <=> i \in positions
  <2>. SUFFICES ASSUME NEW i \in 1..Len(Entries), NEW j \in 1..Len(Entries[i].list)
                PROVE  Entries[i].list[j] \in Mine <=> Entries[i].name = name
    BY <1>1
  <2>1. Entries[i].list[j].name = Entries[i].name
    BY EntriesWellFormed
  <2>2. Entries[i].list \in Seq(Forecast)
    <3>1. \A k \in 1..Len(Entries) : Lists[k] = Entries[k].list /\ Lists[k] \in Seq(Forecast)
      BY <1>1
    <3>. QED  BY <3>1
  <2>3. Entries[i].list[j] \in Forecast
    BY <2>2
  <2>. QED  BY <2>1, <2>3
<1> DEFINE list == FlattenSeq(N)
<1>11. Selects(list, Computed, Mine)
  <2>1. at \in Bijection(1..Len(N), positions) /\ positions \in SUBSET (1..Len(Lists))
    BY <1>1, <1>3, <1>6, <1>9, Zenon
  <2>2. \A k \in 1..Len(N) : N[k] = Lists[at[k]]
    BY <1>8, <1>9, Zenon
  <2>3. Lists \in Seq(Seq(Forecast)) /\ N \in Seq(Seq(Forecast))
    BY <1>1, <1>9
  <2>. HIDE DEF N, positions, Mine, n
  <2>4. SelectsLists(N, Lists, Mine, positions, at)
    BY <1>10, <2>1, <2>2, Zenon DEF SelectsLists
  <2>. QED  BY <1>1, <2>3, <2>4, FlattenSelected
<1>12. {j \in 1..Len(Computed) : Computed[j] \in Mine} =
         {j \in DOMAIN Computed : Computed[j].name = name}
  BY <1>1
<1>13. MergeByName(responses)[name] = list
  <2>1. MergeByName(responses)[name] = FlattenSeq(ListsOf(responses, name))
    BY DEF MergeByName
  <2>. QED  BY <1>2, <2>1, Zenon
<1>14. list \in Seq(Forecast)
  <2>. HIDE DEF N
  <2>. QED  BY <1>9, FlattenPlaces
<1>. HIDE DEF list
<1>. QED  BY <1>11, <1>12, <1>13, <1>14, Zenon DEF Selects

LEMMA ForecastIsMerged ==
  ASSUME WellFormed, NEW j \in DOMAIN Computed
  PROVE  Computed[j].name \in MergedNames(responses)
<1>1. /\ Lists \in Seq(Seq(Forecast)) /\ Len(Lists) = Len(Entries) /\ Computed = FlattenSeq(Lists)
      /\ \A i \in 1..Len(Entries) : Lists[i] = Entries[i].list
      /\ Computed \in Seq(Forecast)
  BY ListsAreSeqs
<1>2. PICK F : PlacedBy(F, Lists, Len(Lists), Computed)
  BY <1>1, FlattenPlaces
<1>3. j \in 1..Len(Computed)
  BY <1>1
<1>4. PICK c \in Cells(Lists, Len(Lists)) : F[c] = j
  BY <1>2, <1>3 DEF PlacedBy
<1>5. Computed[j] = Lists[c[1]][c[2]]
  BY <1>2, <1>4 DEF PlacedBy
<1>6. c[1] \in 1..Len(Entries) /\ c[2] \in 1..Len(Lists[c[1]])
  BY <1>1 DEF Cells
<1>7. Lists[c[1]] = Entries[c[1]].list
  BY <1>1, <1>6
<1>8. Computed[j].name = Entries[c[1]].name
  BY <1>5, <1>6, <1>7, EntriesWellFormed
<1>9. Entries[c[1]] \in ToSet(Entries)
  BY <1>6, EntriesWellFormed DEF ToSet
<1>. QED  BY <1>8, <1>9 DEF MergedNames, Entries

LEMMA MergedCount ==
  ASSUME WellFormed, NEW m, m.name \in MergedNames(responses)
  PROVE  Count(Computed, m) = Count(MergeByName(responses)[m.name], m)
<1> DEFINE list == MergeByName(responses)[m.name]
           A == {k \in DOMAIN list : list[k] = m}
           B == {j \in DOMAIN Computed : Computed[j] = m}
           named == {j \in DOMAIN Computed : Computed[j].name = m.name}
<1>1. /\ list \in Seq(Forecast)
      /\ \E G \in Bijection(1..Len(list), named) : \A k \in 1..Len(list) : list[k] = Computed[G[k]]
  BY MergedIsSelected, Zenon
<1>2. PICK G \in Bijection(1..Len(list), named) : \A k \in 1..Len(list) : list[k] = Computed[G[k]]
  BY <1>1, Zenon
<1>. HIDE DEF list
<1>3. DOMAIN list = 1..Len(list)
  BY <1>1
<1>4. /\ \A k \in 1..Len(list) : G[k] \in named
      /\ \A k, l \in 1..Len(list) : G[k] = G[l] => k = l
      /\ \A j \in named : \E k \in 1..Len(list) : G[k] = j
  <2>. HIDE DEF named
  <2>. QED  BY DEF Bijection, Injection, Surjection, IsInjective
<1> DEFINE f == [k \in A |-> G[k]]
<1>5. f \in [A -> B]
  BY <1>2, <1>3, <1>4
<1>6. \A k, l \in A : f[k] = f[l] => k = l
  BY <1>3, <1>4
<1>7. \A j \in B : \E k \in A : f[k] = j
  BY <1>2, <1>3, <1>4
<1>8. IsFiniteSet(B)
  <2>1. DOMAIN Computed = 1..Len(Computed) /\ Len(Computed) \in Nat
    BY ListsAreSeqs
  <2>2. IsFiniteSet(DOMAIN Computed)
    BY <2>1, FS_Interval
  <2>. QED  BY <2>2, FS_Subset
<1>9. Cardinality(A) = Cardinality(B)
  <2>. HIDE DEF A, B, f
  <2>. QED  BY <1>5, <1>6, <1>7, <1>8, SameSize
<1>10. Count(Computed, m) = Cardinality(B)
  BY Zenon DEF Count
<1>11. Count(list, m) = Cardinality(A)
  BY Zenon DEF Count
<1>. QED  BY <1>9, <1>10, <1>11, Zenon DEF list

\* Merging the plugins' results by name loses and doubles nothing, for any
\* number of plugins, names and forecasts (app.js:326-350).
THEOREM MergingLosesNothing == Spec => []MergeLosesNothing
<1>1. ASSUME WellFormed PROVE MergeLosesNothing
  <2> DEFINE byName == MergeByName(responses)
  <2>1. DOMAIN byName = MergedNames(responses)
    BY DEF MergeByName
  <2>2. \A m \in ToSet(Computed) : m.name \in MergedNames(responses)
    BY <1>1, ForecastIsMerged DEF ToSet
  <2>3. ASSUME NEW name \in MergedNames(responses), NEW m \in ToSet(byName[name])
        PROVE  m \in ToSet(Computed)
    <3> DEFINE list == byName[name]
               named == {j \in DOMAIN Computed : Computed[j].name = name}
    <3>1. /\ list \in Seq(Forecast)
          /\ \E G \in Bijection(1..Len(list), named) :
               \A k \in 1..Len(list) : list[k] = Computed[G[k]]
      BY <1>1, MergedIsSelected, Zenon
    <3>. HIDE DEF list
    <3>2. PICK G \in Bijection(1..Len(list), named) :
                 \A k \in 1..Len(list) : list[k] = Computed[G[k]]
      BY <3>1, Zenon
    <3>3. PICK k \in 1..Len(list) : m = list[k]
      BY <2>3, <3>1 DEF ToSet, list
    <3>4. G[k] \in named
      <4>. HIDE DEF named
      <4>. QED  BY DEF Bijection, Injection
    <3>. QED  BY <3>2, <3>3, <3>4 DEF ToSet
  <2>4. ASSUME NEW m \in ToSet(Computed) \cup UNION {ToSet(byName[n]) : n \in DOMAIN byName}
        PROVE  m.name \in DOMAIN byName /\ Count(Computed, m) = Count(byName[m.name], m)
    <3>1. m \in ToSet(Computed)
      <4>. HIDE DEF byName
      <4>. QED  BY <2>1, <2>3
    <3>2. m.name \in MergedNames(responses)
      BY <2>2, <3>1
    <3>. QED  BY <1>1, <2>1, <3>2, MergedCount
  <2>. QED  BY <2>4, Zenon DEF MergeLosesNothing
<1>. QED  BY <1>1, AlwaysWellFormed, PTL

(***************************************************************************)
(* What the charts are made of.                                            *)
(***************************************************************************)

\* points are those of all, one by one, in some order.
Arranges(points, all, n, at) ==
  /\ n \in Nat
  /\ at \in Bijection(1..n, DOMAIN all)
  /\ DOMAIN points = 1..n
  /\ \A k \in 1..n : points[k] = all[at[k]]

Positions(label) == {j \in DOMAIN Raw : ChartLabel(Raw[j]) = label}

\* The points of a group of raw metrics before sorting, in the order of the
\* answer.
LEMMA RawChart ==
  ASSUME WellFormed, NEW label \in {ChartLabel(m) : m \in ToSet(Raw)}
  PROVE  \E n, at, points :
           /\ Arranges(points, RawPoints(label), n, at)
           /\ GroupByMetricName(Raw, Now)[label] = KeepNewest(SortByTime(points), MaxRawPoints)
           /\ \A k \in 1..n : Cardinality({i \in Positions(label) : i <= at[k]}) = k
<1> DEFINE n == Cardinality(Positions(label))
           group == ElementsAt(Raw, {i \in DOMAIN Raw : ChartLabel(Raw[i]) = label})
           points == [i \in DOMAIN group |-> [x |-> RawTime(group[i], Now),
                                             y |-> PointValue(group[i])]]
<1>1. Raw \in Seq(Metric) /\ DOMAIN Raw = 1..Len(Raw) /\ Len(Raw) \in Nat
  BY RawIsSeq
<1>2. Positions(label) \in SUBSET Nat /\ IsFiniteSet(Positions(label)) /\ n \in Nat
  <2>1. IsFiniteSet(1..Len(Raw)) /\ 1..Len(Raw) \subseteq Nat
    BY <1>1, FS_Interval
  <2>2. Positions(label) \in SUBSET (1..Len(Raw))
    BY <1>1 DEF Positions
  <2>. QED  BY <2>1, <2>2, FS_Subset, FS_CardinalityType
<1>3. GroupByMetricName(Raw, Now)[label] = KeepNewest(SortByTime(points), MaxRawPoints)
  <2> DEFINE named(l) == ElementsAt(Raw, {j \in DOMAIN Raw : ChartLabel(Raw[j]) = l})
             chart(l) == KeepNewest(SortByTime(
                           [i \in DOMAIN named(l) |-> [x |-> RawTime(named(l)[i], Now),
                                                      y |-> PointValue(named(l)[i])]]),
                           MaxRawPoints)
  <2>1. GroupByMetricName(Raw, Now) = [l \in {ChartLabel(m) : m \in ToSet(Raw)} |-> chart(l)]
    BY Zenon DEF GroupByMetricName
  <2>2. GroupByMetricName(Raw, Now)[label] = chart(label)
    <3>. HIDE DEF chart
    <3>. QED  BY <2>1
  <2>. QED  BY <2>2, Zenon
<1>4. group = ElementsAt(Raw, Positions(label))
  BY Zenon DEF Positions
<1>. HIDE DEF group
<1>5. \E at \in Bijection(1..n, Positions(label)) :
        /\ group = [k \in 1..n |-> Raw[at[k]]]
        /\ \A k \in 1..n : Cardinality({i \in Positions(label) : i <= at[k]}) = k
  BY <1>2, <1>4, ElementsAtInOrder
<1>6. PICK at \in Bijection(1..n, Positions(label)) :
        /\ group = [k \in 1..n |-> Raw[at[k]]]
        /\ \A k \in 1..n : Cardinality({i \in Positions(label) : i <= at[k]}) = k
  BY <1>5, Zenon
<1>7. DOMAIN points = 1..n
  <2>. HIDE DEF n
  <2>. QED  BY <1>6
<1>8. \A k \in 1..n : at[k] \in Positions(label)
  <2>. HIDE DEF n
  <2>. QED  BY DEF Bijection, Injection
<1>9. DOMAIN RawPoints(label) = Positions(label)
  BY DEF RawPoints, Positions
<1>10. \A k \in 1..n : points[k] = RawPoints(label)[at[k]]
  <2>1. \A k \in 1..n : points[k] = [x |-> RawTime(Raw[at[k]], Now), y |-> PointValue(Raw[at[k]])]
    <3>. HIDE DEF n
    <3>. QED  BY <1>6
  <2>. HIDE DEF n, points
  <2>. QED  BY <1>8, <2>1 DEF RawPoints, RawTime, Positions
<1>11. Arranges(points, RawPoints(label), n, at)
  <2>. HIDE DEF n, points
  <2>. QED  BY <1>2, <1>7, <1>9, <1>10 DEF Arranges
<1>. HIDE DEF points, n
<1>. QED  BY <1>3, <1>6, <1>11

LEMMA RawTimes ==
  ASSUME WellFormed, NEW label
  PROVE  \A p \in DOMAIN RawPoints(label) : RawPoints(label)[p].x \in Nat
<1>1. Raw \in Seq(Metric)
  BY RawIsSeq
<1>2. \A p \in DOMAIN Raw : Raw[p] \in Metric
  BY <1>1
<1>3. \A m \in Metric : m.at \in Nat
  BY TimesAssumption DEF Metric
<1>. QED  BY <1>2, <1>3 DEF RawPoints, Now

\* The points of a group of forecasts before sorting.
LEMMA ForecastChart ==
  ASSUME WellFormed, NEW label \in MergedNames(responses)
  PROVE  LET list == MergeByName(responses)[label]
         IN  \E at, points :
               /\ Arranges(points, ForecastPoints(label), Len(list), at)
               /\ \A k \in 1..Len(list) : at[k] \in DOMAIN Computed /\ Computed[at[k]] = list[k]
               /\ GroupComputedMetricsByName(MergeByName(responses), Now)[label]
                    = KeepNewest(SortByTime(points), MaxForecastPoints)
<1> DEFINE byName == MergeByName(responses)
           list == byName[label]
           named == {j \in DOMAIN Computed : Computed[j].name = label}
           points == [i \in DOMAIN list |-> [x |-> ForecastTime(list[i], Now),
                                            y |-> PointValue(list[i])]]
<1>1. /\ list \in Seq(Forecast)
      /\ \E G \in Bijection(1..Len(list), named) : \A k \in 1..Len(list) : list[k] = Computed[G[k]]
  BY MergedIsSelected, Zenon
<1>2. PICK at \in Bijection(1..Len(list), named) : \A k \in 1..Len(list) : list[k] = Computed[at[k]]
  BY <1>1, Zenon
<1>3. GroupComputedMetricsByName(byName, Now)[label] =
        KeepNewest(SortByTime(points), MaxForecastPoints)
  <2> DEFINE chart(l) == KeepNewest(SortByTime(
                           [i \in DOMAIN byName[l] |-> [x |-> ForecastTime(byName[l][i], Now),
                                                       y |-> PointValue(byName[l][i])]]),
                           MaxForecastPoints)
  <2>1. GroupComputedMetricsByName(byName, Now) = [l \in DOMAIN byName |-> chart(l)]
    BY Zenon DEF GroupComputedMetricsByName
  <2>2. label \in DOMAIN byName
    BY DEF MergeByName
  <2>3. GroupComputedMetricsByName(byName, Now)[label] = chart(label)
    <3>. HIDE DEF chart, byName
    <3>. QED  BY <2>1, <2>2
  <2>. QED  BY <2>3, Zenon
<1>4. DOMAIN ForecastPoints(label) = named
  BY DEF ForecastPoints
<1>. HIDE DEF list
<1>5. DOMAIN list = 1..Len(list) /\ Len(list) \in Nat
  BY <1>1
<1>6. \A k \in 1..Len(list) : at[k] \in named
  <2>. HIDE DEF named
  <2>. QED  BY DEF Bijection, Injection
<1>7. \A k \in 1..Len(list) : points[k] = ForecastPoints(label)[at[k]]
  BY <1>2, <1>5, <1>6 DEF ForecastPoints, ForecastTime
<1>8. DOMAIN points = 1..Len(list)
  BY <1>5
<1>9. Arranges(points, ForecastPoints(label), Len(list), at)
  <2>. HIDE DEF points, named
  <2>. QED  BY <1>4, <1>5, <1>7, <1>8 DEF Arranges
<1>10. \A k \in 1..Len(list) : at[k] \in DOMAIN Computed /\ Computed[at[k]] = list[k]
  BY <1>2, <1>6
<1>. HIDE DEF points
<1>. QED  BY <1>3, <1>9, <1>10, Zenon DEF list

LEMMA ForecastTimes ==
  ASSUME WellFormed, NEW label
  PROVE  \A p \in DOMAIN ForecastPoints(label) : ForecastPoints(label)[p].x \in Nat
<1>1. Computed \in Seq(Forecast)
  BY ListsAreSeqs
<1>2. \A p \in DOMAIN Computed : Computed[p] \in Forecast
  BY <1>1
<1>3. \A m \in Forecast : m.at \in Nat
  BY DEF Forecast
<1>. QED  BY <1>2, <1>3 DEF ForecastPoints

\* Every chart keeps the newest points of each metric, for any limits and any
\* answers (app.js:412-418, 473-479).
THEOREM ChartsKeepNewest == Spec => []ChartKeepsNewest
<1>1. MaxRawPoints \in Nat /\ MaxForecastPoints \in Nat
  BY LimitsAssumption
<1>2. ASSUME WellFormed, NEW label \in DOMAIN GroupByMetricName(Raw, Now)
      PROVE  NewestOf(GroupByMetricName(Raw, Now)[label], RawPoints(label), MaxRawPoints)
  <2>1. label \in {ChartLabel(m) : m \in ToSet(Raw)}
    BY <1>2 DEF GroupByMetricName
  <2>2. PICK n, at, points :
          /\ Arranges(points, RawPoints(label), n, at)
          /\ GroupByMetricName(Raw, Now)[label] = KeepNewest(SortByTime(points), MaxRawPoints)
    BY <1>2, <2>1, RawChart
  <2>3. \A p \in DOMAIN RawPoints(label) : RawPoints(label)[p].x \in Nat
    BY <1>2, RawTimes
  <2>. QED  BY <1>1, <2>2, <2>3, KeptAreNewest DEF Arranges
<1>3. ASSUME WellFormed,
             NEW label \in DOMAIN GroupComputedMetricsByName(MergeByName(responses), Now)
      PROVE  NewestOf(GroupComputedMetricsByName(MergeByName(responses), Now)[label],
                      ForecastPoints(label), MaxForecastPoints)
  <2>1. label \in MergedNames(responses)
    BY <1>3 DEF GroupComputedMetricsByName, MergeByName
  <2>2. PICK n, at, points :
          /\ Arranges(points, ForecastPoints(label), n, at)
          /\ GroupComputedMetricsByName(MergeByName(responses), Now)[label]
               = KeepNewest(SortByTime(points), MaxForecastPoints)
    BY <1>3, <2>1, ForecastChart
  <2>3. \A p \in DOMAIN ForecastPoints(label) : ForecastPoints(label)[p].x \in Nat
    BY <1>3, ForecastTimes
  <2>. QED  BY <1>1, <2>2, <2>3, KeptAreNewest DEF Arranges
<1>4. WellFormed => ChartKeepsNewest
  BY <1>2, <1>3, Zenon DEF ChartKeepsNewest
<1>. QED  BY <1>4, AlwaysWellFormed, PTL

(***************************************************************************)
(* Tables and charts together.                                             *)
(***************************************************************************)

\* Row i of a table is the i-th metric from the end of the answer.
LEMMA RowIsFromTheEnd ==
  ASSUME NEW S, NEW ms \in Seq(S), NEW i \in DOMAIN LatestRows(ms)
  PROVE  /\ i \in Nat /\ i >= 1 /\ i <= MaxRows /\ Len(ms) - i + 1 \in 1..Len(ms)
         /\ LatestRows(ms)[i] = ms[Len(ms) - i + 1]
<1> DEFINE t == LastOf(ms, MaxRows)
<1>1. MaxRows \in Nat /\ Len(ms) \in Nat
  BY LimitsAssumption
<1>2. /\ t \in Seq(S)
      /\ \E d \in Nat :
           /\ Len(t) = Len(ms) - d
           /\ Len(ms) < MaxRows => Len(ms) - d = Len(ms)
           /\ ~(Len(ms) < MaxRows) => Len(ms) - d = MaxRows
           /\ \A j \in 1..(Len(ms) - d) : t[j] = ms[d + j]
  BY <1>1, LastOfProperties, Zenon
<1>. HIDE DEF t
<1>3. PICK d \in Nat :
           /\ Len(t) = Len(ms) - d
           /\ Len(ms) < MaxRows => Len(ms) - d = Len(ms)
           /\ ~(Len(ms) < MaxRows) => Len(ms) - d = MaxRows
           /\ \A j \in 1..(Len(ms) - d) : t[j] = ms[d + j]
  BY <1>2
<1>4. LatestRows(ms) = [j \in 1..Len(t) |-> t[(Len(t) - j) + 1]]
  BY Zenon DEF LatestRows, Reverse, t
<1>5. i \in 1..Len(t) /\ LatestRows(ms)[i] = t[(Len(t) - i) + 1] /\ Len(t) \in Nat
  BY <1>2, <1>4
<1>6. (Len(t) - i) + 1 \in 1..(Len(ms) - d) /\ d + ((Len(t) - i) + 1) = Len(ms) - i + 1
  <2>1. \A a, b \in Nat : a = b - d /\ i \in 1..a =>
          (a - i) + 1 \in 1..(b - d) /\ d + ((a - i) + 1) = b - i + 1
    OBVIOUS
  <2>. QED  BY <1>1, <1>3, <1>5, <2>1
<1>7. t[(Len(t) - i) + 1] = ms[Len(ms) - i + 1]
  BY <1>3, <1>6
<1>8. i \in Nat /\ i >= 1 /\ i <= MaxRows /\ Len(ms) - i + 1 \in 1..Len(ms)
  BY <1>1, <1>3, <1>5
<1>. QED  BY <1>5, <1>7, <1>8

\* The chart keeps points[k]: there are no more points than the limit, or they
\* need no sorting and points[k] is near the end.
StaysIn(points, n, limit, k) ==
  \/ n <= limit
  \/ n - k < limit /\ \A i, j \in 1..n : points[i].x = points[j].x

LEMMA KeptPoint ==
  ASSUME NEW n \in Nat, NEW points, DOMAIN points = 1..n,
         \A i \in 1..n : points[i].x \in Nat, NEW limit \in Nat, NEW k \in 1..n,
         StaysIn(points, n, limit, k)
  PROVE  points[k] \in ToSet(KeepNewest(SortByTime(points), limit))
<1> DEFINE sorted == SortByTime(points)
           kept == LastOf(sorted, limit)
           V == {points[i] : i \in 1..n}
<1>1. PICK s \in Bijection(1..n, 1..n) :
        /\ SortByTime(points) = [i \in 1..n |-> points[s[i]]]
        /\ \A i, j \in 1..n : i <= j => points[s[i]].x <= points[s[j]].x
        /\ (\A i, j \in 1..n : points[i].x = points[j].x) => \A i \in 1..n : s[i] = i
  BY SortInOrder, Zenon
<1>2. /\ \A i \in 1..n : s[i] \in 1..n
      /\ \A j \in 1..n : \E i \in 1..n : s[i] = j
  BY DEF Bijection, Injection, Surjection
<1>3. /\ DOMAIN sorted = 1..n
      /\ \A i \in 1..n : sorted[i] = points[s[i]]
      /\ \A i \in 1..n : sorted[i] \in V
  <2>1. DOMAIN sorted = 1..n /\ \A i \in 1..n : sorted[i] = points[s[i]]
    BY <1>1
  <2>2. \A i \in 1..n : points[i] \in V
    OBVIOUS
  <2>. HIDE DEF sorted, V
  <2>. QED  BY <1>2, <2>1, <2>2
<1>4. sorted \in Seq(V) /\ Len(sorted) = n
  <2>1. sorted = [i \in 1..n |-> sorted[i]]
    BY <1>1
  <2>. HIDE DEF sorted, V
  <2>2. sorted \in [1..n -> V]
    BY <1>3, <2>1
  <2>. QED  BY <2>2, SeqDef
<1>. HIDE DEF sorted, V
<1>5. /\ kept \in Seq(V)
      /\ \E d \in Nat :
           /\ Len(kept) = Len(sorted) - d
           /\ Len(sorted) < limit => Len(sorted) - d = Len(sorted)
           /\ ~(Len(sorted) < limit) => Len(sorted) - d = limit
           /\ \A i \in 1..(Len(sorted) - d) : kept[i] = sorted[d + i]
  BY <1>4, LastOfProperties, Zenon
<1>. HIDE DEF kept
<1>6. PICK d \in Nat :
         /\ Len(kept) = n - d
         /\ n < limit => n - d = n
         /\ ~(n < limit) => n - d = limit
         /\ \A i \in 1..(n - d) : kept[i] = sorted[d + i]
  BY <1>4, <1>5
<1>7. \E i \in 1..n : d < i /\ sorted[i] = points[k]
  <2>1. CASE n <= limit
    <3>1. d = 0
      BY <1>6, <2>1
    <3>2. PICK i \in 1..n : s[i] = k
      BY <1>2
    <3>. QED  BY <1>3, <3>1, <3>2
  <2>2. CASE n - k < limit /\ \A i, j \in 1..n : points[i].x = points[j].x
    <3>1. s[k] = k
      BY <1>1, <2>2
    <3>2. d < k
      BY <1>6, <2>2
    <3>. QED  BY <1>3, <3>1, <3>2
  <2>. QED  BY <2>1, <2>2 DEF StaysIn
<1>8. PICK i \in 1..n : d < i /\ sorted[i] = points[k]
  BY <1>7
<1>9. i - d \in 1..(n - d) /\ d + (i - d) = i
  BY <1>8
<1>10. kept[i - d] = points[k] /\ i - d \in DOMAIN kept
  BY <1>5, <1>6, <1>8, <1>9
<1>11. points[k] \in ToSet(kept)
  BY <1>10 DEF ToSet
<1>. QED  BY <1>11, Zenon DEF KeepNewest, kept, sorted

\* A raw metric near the end of an answer of the archiver is plotted: of its
\* group, at most as many metrics come after it as do in the answer, and the
\* chart is no shorter than the table.
LEMMA RecentIsPlotted ==
  ASSUME WellFormed, \A m \in ToSet(Raw) : m.spelling = "go",
         NEW r \in DOMAIN Raw, Len(Raw) - r < MaxRows
  PROVE  LET label == ChartLabel(Raw[r])
             chart == GroupByMetricName(Raw, Now)
         IN  label \in DOMAIN chart /\ [x |-> Now, y |-> PointValue(Raw[r])] \in ToSet(chart[label])
<1> DEFINE label == ChartLabel(Raw[r])
           P == Positions(label)
           all == RawPoints(label)
<1>1. Raw \in Seq(Metric) /\ DOMAIN Raw = 1..Len(Raw) /\ Len(Raw) \in Nat
  BY RawIsSeq
<1>2. label \in {ChartLabel(m) : m \in ToSet(Raw)} /\ label \in DOMAIN GroupByMetricName(Raw, Now)
  BY DEF ToSet, GroupByMetricName
<1>3. DOMAIN all = P /\ r \in P /\ all[r].y = PointValue(Raw[r])
  BY DEF RawPoints, Positions
<1>4. \A p \in P : all[p].x = Now
  <2>1. \A p \in P : Raw[p].spelling # "doc"
    BY DEF Positions, ToSet
  <2>. QED  BY <2>1 DEF RawPoints, Positions
<1>5. PICK n, at, points :
        /\ Arranges(points, all, n, at)
        /\ GroupByMetricName(Raw, Now)[label] = KeepNewest(SortByTime(points), MaxRawPoints)
        /\ \A k \in 1..n : Cardinality({i \in P : i <= at[k]}) = k
  BY <1>2, RawChart
<1>6. P \subseteq 1..Len(Raw)
  BY <1>1 DEF Positions
<1>. HIDE DEF P, all, label
<1>7. /\ n \in Nat /\ DOMAIN points = 1..n /\ at \in Bijection(1..n, P)
      /\ \A k \in 1..n : at[k] \in P /\ points[k] = all[at[k]]
      /\ \A p \in P : \E k \in 1..n : at[k] = p
  BY <1>3, <1>5 DEF Arranges, Bijection, Injection, Surjection
<1>8. PICK k \in 1..n : at[k] = r
  BY <1>3, <1>7
<1>9. n - k <= Len(Raw) - r
  <2> DEFINE before == {i \in P : i <= r}
             after == P \ before
  <2>1. Cardinality(before) = k
    BY <1>5, <1>8
  <2>2. IsFiniteSet(P) /\ Cardinality(P) = n
    BY <1>7, CountedUp
  <2>3. Cardinality(after) = n - k
    <3>1. P \cap before = before
      OBVIOUS
    <3>2. \A S, T : IsFiniteSet(S) =>
            Cardinality(S \ T) = Cardinality(S) - Cardinality(S \cap T)
      BY FS_Difference, Zenon
    <3>3. Cardinality(after) = Cardinality(P) - Cardinality(P \cap before)
      BY <2>2, <3>2, Zenon
    <3>. HIDE DEF before, after
    <3>4. Cardinality(after) = Cardinality(P) - Cardinality(before)
      BY <3>1, <3>3, Zenon
    <3>. QED  BY <2>1, <2>2, <3>4, Zenon
  <2>4. r \in 1..Len(Raw)
    BY <1>1
  <2>5. after \in SUBSET ((r + 1)..Len(Raw))
    <3>. SUFFICES ASSUME NEW p \in after
                  PROVE  p \in (r + 1)..Len(Raw)
      BY Zenon
    <3>1. p \in P /\ ~(p <= r)
      OBVIOUS
    <3>2. p \in 1..Len(Raw)
      BY <1>6, <3>1, Zenon
    <3>. HIDE DEF after
    <3>. QED  BY <1>1, <2>4, <3>1, <3>2
  <2>6. /\ IsFiniteSet((r + 1)..Len(Raw))
        /\ Cardinality((r + 1)..Len(Raw)) = Len(Raw) - r
    <3>1. \A a, b \in Int : /\ IsFiniteSet(a..b)
                            /\ a > b => Cardinality(a..b) = 0
                            /\ ~(a > b) => Cardinality(a..b) = b - a + 1
      <4>1. \A a, b \in Int : /\ IsFiniteSet(a..b)
                              /\ Cardinality(a..b) = IF a > b THEN 0 ELSE b - a + 1
        BY FS_Interval, Zenon
      <4>. QED  BY <4>1, Zenon
    <3>2. \A a, b \in Nat : a <= b => /\ a + 1 \in Int /\ b \in Int
                                     /\ (a + 1 > b => 0 = b - a)
                                     /\ b - (a + 1) + 1 = b - a
      OBVIOUS
    <3>3. ASSUME NEW a \in Nat, NEW b \in Nat, a <= b
          PROVE  IsFiniteSet((a + 1)..b) /\ Cardinality((a + 1)..b) = b - a
      <4> DEFINE c == a + 1
      <4>1. /\ c \in Int /\ b \in Int
            /\ c > b => 0 = b - a
            /\ ~(c > b) => b - c + 1 = b - a
        BY <3>2, <3>3
      <4>. HIDE DEF c
      <4>2. /\ IsFiniteSet(c..b)
            /\ c > b => Cardinality(c..b) = 0
            /\ ~(c > b) => Cardinality(c..b) = b - c + 1
        BY <3>1, <4>1, Zenon
      <4>3. Cardinality(c..b) = b - a
        <5>1. CASE c > b
          BY <4>1, <4>2, <5>1, Zenon
        <5>2. CASE ~(c > b)
          BY <4>1, <4>2, <5>2, Zenon
        <5>. QED  BY <5>1, <5>2, Zenon
      <4>. QED  BY <4>2, <4>3 DEF c
    <3>4. r \in Nat /\ r <= Len(Raw)
      BY <1>1, <2>4
    <3>. QED  BY <1>1, <3>3, <3>4, Zenon
  <2>. HIDE DEF after
  <2>. QED  BY <1>1, <1>7, <2>3, <2>5, <2>6, FS_Subset
<1>10. StaysIn(points, n, MaxRawPoints, k)
  <2>1. n - k < MaxRawPoints
    BY <1>1, <1>7, <1>9, LimitsAssumption
  <2>2. \A i, j \in 1..n : points[i].x = points[j].x
    BY <1>4, <1>7
  <2>. QED  BY <2>1, <2>2 DEF StaysIn
<1>11. \A i \in 1..n : points[i].x \in Nat
  BY <1>4, <1>7 DEF Now
<1>12. points[k] \in ToSet(KeepNewest(SortByTime(points), MaxRawPoints))
  BY <1>7, <1>10, <1>11, LimitsAssumption, KeptPoint
<1>13. points[k] = [x |-> Now, y |-> PointValue(Raw[r])]
  BY <1>3, <1>7, <1>8 DEF all, RawPoints, P, Positions, ToSet
<1>. QED  BY <1>2, <1>5, <1>12, <1>13 DEF label

\* Each row of the table of raw metrics has its point in the chart of its name,
\* for any answer of the archiver: the table is no longer than a chart and both
\* keep the end of the answer (app.js:277-293, 412-418, 536).
THEOREM RowsPlotted == Spec => []RowsArePlotted
<1> DEFINE chart == GroupByMetricName(Raw, Now)
           rows == MetricsTable(Raw)
<1>1. ASSUME WellFormed, \A m \in ToSet(Raw) : m.spelling = "go", NEW i \in DOMAIN rows
      PROVE  \E label \in DOMAIN chart :
               /\ label = rows[i].name \/ (rows[i].name = "N/A" /\ label = "Unknown")
               /\ \E p \in ToSet(chart[label]) : rows[i].value \in {NotANumber, FormatValue(p.y)}
  <2>1. i \in DOMAIN LatestRows(Raw) /\ rows[i] = Row(LatestRows(Raw)[i])
    BY DEF MetricsTable
  <2>2. Raw \in Seq(Metric) /\ DOMAIN Raw = 1..Len(Raw) /\ Len(Raw) \in Nat
    BY <1>1, RawIsSeq
  <2> DEFINE r == Len(Raw) - i + 1
             m == Raw[r]
             label == ChartLabel(m)
  <2>3. /\ i \in Nat /\ i >= 1 /\ i <= MaxRows /\ r \in 1..Len(Raw)
        /\ LatestRows(Raw)[i] = m
    BY <2>1, <2>2, RowIsFromTheEnd
  <2>4. Len(Raw) - r < MaxRows
    BY <2>2, <2>3, LimitsAssumption
  <2>5. label \in DOMAIN chart /\ [x |-> Now, y |-> PointValue(m)] \in ToSet(chart[label])
    <3>. HIDE DEF r
    <3>. QED  BY <1>1, <2>2, <2>3, <2>4, RecentIsPlotted
  <2>6. rows[i] = Row(m)
    BY <2>1, <2>3
  <2>. HIDE DEF m, chart, rows
  <2>7. label = rows[i].name \/ (rows[i].name = "N/A" /\ label = "Unknown")
    BY <2>6 DEF Row, ChartLabel
  <2>8. rows[i].value \in {NotANumber, FormatValue(PointValue(m))}
    BY <2>6 DEF Row, FormatValue, PointValue
  <2>. QED  BY <2>5, <2>7, <2>8
<1>2. WellFormed => RowsArePlotted
  BY <1>1, Zenon DEF RowsArePlotted
<1>. QED  BY <1>2, AlwaysWellFormed, PTL
==============================================================================
