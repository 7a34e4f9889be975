------------------------- MODULE SarimaPlugin_proofs -------------------------
(***************************************************************************)
(* The invariants of SarimaPlugin for every set of configurations.         *)
(***************************************************************************)
EXTENDS SarimaPlugin, SequenceTheorems, TLAPS

\* How many of c samples a window of size w keeps.
Kept(c, w) == IF c < w THEN c ELSE w

\* The newest of c samples.
Newest(c, w) == [i \in 1..Kept(c, w) |-> c - Kept(c, w) + i]

\* Appending the next sample and cutting keeps the newest samples.
LEMMA KeepsNewest ==
  ASSUME NEW c \in Nat, NEW w \in Nat
  PROVE  KeepWindow(Append(Newest(c, w), c + 1), w) = Newest(c + 1, w)
<1> DEFINE b == Newest(c, w)
           s == Append(b, c + 1)
<1>1. /\ b \in Seq(Int)
      /\ Len(b) = Kept(c, w)
      /\ \A i \in 1..Kept(c, w) : b[i] = c - Kept(c, w) + i
  BY DEF Newest, Kept
<1>2. /\ s \in Seq(Int)
      /\ Len(s) = Kept(c, w) + 1
      /\ \A i \in 1..Kept(c, w) : s[i] = c - Kept(c, w) + i
      /\ s[Kept(c, w) + 1] = c + 1
  <2>. HIDE DEF b
  <2>. QED  BY <1>1, AppendProperties
<1>. HIDE DEF b, s
<1>3. CASE c < w
  <2>1. Kept(c, w) = c /\ Kept(c + 1, w) = c + 1
    BY <1>3 DEF Kept
  <2>2. KeepWindow(s, w) = SubSeq(s, 1, c + 1)
    BY <1>2, <1>3, <2>1 DEF KeepWindow
  <2>3. /\ SubSeq(s, 1, c + 1) \in Seq(Int)
        /\ Len(SubSeq(s, 1, c + 1)) = c + 1
        /\ \A i \in 1..c + 1 : SubSeq(s, 1, c + 1)[i] = i
    BY <1>2, <2>1, SubSeqProperties
  <2>4. SubSeq(s, 1, c + 1) = [i \in 1..c + 1 |-> c + 1 - (c + 1) + i]
    BY <2>3, LenProperties
  <2>5. Newest(c + 1, w) = [i \in 1..c + 1 |-> c + 1 - (c + 1) + i]
    BY <2>1 DEF Newest
  <2>. QED  BY <2>2, <2>4, <2>5 DEF b, s
<1>4. CASE c >= w
  <2>1. Kept(c, w) = w /\ Kept(c + 1, w) = w
    BY <1>4 DEF Kept
  <2>2. KeepWindow(s, w) = SubSeq(s, 2, w + 1)
    BY <1>2, <1>4, <2>1 DEF KeepWindow
  <2>3. /\ SubSeq(s, 2, w + 1) \in Seq(Int)
        /\ Len(SubSeq(s, 2, w + 1)) = w
        /\ \A i \in 1..w : SubSeq(s, 2, w + 1)[i] = c - w + i + 1
    BY <1>2, <2>1, SubSeqProperties
  <2>4. SubSeq(s, 2, w + 1) = [i \in 1..w |-> c + 1 - w + i]
    BY <2>3, LenProperties
  <2>5. Newest(c + 1, w) = [i \in 1..w |-> c + 1 - w + i]
    BY <2>1 DEF Newest
  <2>. QED  BY <2>2, <2>4, <2>5 DEF b, s
<1>. QED  BY <1>3, <1>4

Counting == fittedModel # None => newSamples = count - fittedModel

\* Forecasts are for consecutive samples after one that has come, not after the
\* last fit.
Consecutive ==
  forecastedValues # <<>> =>
    /\ forecastedValues = [i \in 1..Horizon |-> forecastedValues[1] - 1 + i]
    /\ forecastedValues[1] - 1 \in 1..count
    /\ fittedModel # None => forecastedValues[1] - 1 <= fittedModel

\* Execute follows a sample that has come; once the window has reached the
\* minimum it stays there.
Filled ==
  ready \/ returned # None => count > 0 /\ Len(metricBuffer) >= config.MinimumSamples

IInv ==
  /\ TypeOK
  /\ WindowIsNewest
  /\ Counting
  /\ Consecutive
  /\ Filled
  /\ RefitOnTime
  /\ ForecastsAreAligned

LEMMA InitInv == Init => IInv
<1> SUFFICES ASSUME Init PROVE IInv
  OBVIOUS
<1>1. Capacity \in Nat
  <2>1. config.WindowSize \in WindowSizes
    BY DEF Init, AnalyticsConfig
  <2>2. config.WindowSize \in Int
    BY <2>1, SarimaAssumption
  <2>. QED  BY <2>2 DEF Capacity
<1>2. TypeOK
  <2>1. <<>> \in Seq(Nat) /\ <<>> \in Seq(1..0) /\ Len(<<>>) = 0
    BY EmptySeq
  <2>2. config \in AnalyticsConfig /\ Len(metricBuffer) <= Capacity
    BY <1>1, <2>1 DEF Init
  <2>3. newSamples \in 0..count /\ count \in Nat /\ metricBuffer \in Seq(1..count)
    BY <2>1 DEF Init
  <2>4. Len(forecastedValues) = 0 /\ forecastedValues \in Seq(Nat)
    BY <2>1 DEF Init
  <2>. QED  BY <2>2, <2>3, <2>4 DEF Init, TypeOK
<1>3. WindowIsNewest
  BY <1>1 DEF Init, WindowIsNewest
<1>. QED
  BY <1>2, <1>3 DEF Init, IInv, Counting, Consecutive, Filled, RefitOnTime,
     ForecastsAreAligned

\* Facts every step uses.
LEMMA Config ==
  ASSUME TypeOK
  PROVE  /\ config.WindowSize \in Int
         /\ config.SamplesRefreshModel \in Int
         /\ config.MinimumSamples \in Int
         /\ Capacity \in Nat
         /\ Horizon \in Nat
         /\ config.WindowSize >= 0 => Capacity = config.WindowSize
<1>1. /\ config.WindowSize \in WindowSizes
      /\ config.SamplesRefreshModel \in RefreshIntervals
      /\ config.MinimumSamples \in Minima
  BY DEF TypeOK, AnalyticsConfig
<1>2. /\ config.WindowSize \in Int
      /\ config.SamplesRefreshModel \in Int
      /\ config.MinimumSamples \in Int
  BY <1>1, SarimaAssumption
<1>3. Capacity \in Nat /\ (config.WindowSize >= 0 => Capacity = config.WindowSize)
  BY <1>2 DEF Capacity
<1>4. Horizon \in Nat
  BY <1>2 DEF Horizon
<1>. QED  BY <1>2, <1>3, <1>4

LEMMA NewestType ==
  ASSUME NEW c \in Nat, NEW w \in Nat
  PROVE  Newest(c, w) \in Seq(1..c) /\ Len(Newest(c, w)) = Kept(c, w)
<1>1. Kept(c, w) \in Nat /\ \A i \in 1..Kept(c, w) : c - Kept(c, w) + i \in 1..c
  BY DEF Kept
<1>. QED  BY <1>1 DEF Newest

LEMMA WindowLength ==
  ASSUME TypeOK, WindowIsNewest
  PROVE  Len(metricBuffer) = Kept(count, Capacity)
<1>1. metricBuffer = Newest(count, Capacity)
  BY DEF WindowIsNewest, Newest, Kept
<1>. QED  BY <1>1, NewestType, Config DEF TypeOK

\* ProcessMetric keeps the newest samples and says whether they are enough.
LEMMA ProcessMetricLength ==
  ASSUME IInv, ProcessMetric
  PROVE  /\ metricBuffer' = Newest(count', Capacity)
         /\ metricBuffer' \in Seq(1..count')
         /\ Len(metricBuffer') = Kept(count', Capacity)
         /\ count \in Nat /\ count' \in Nat /\ count' = count + 1
         /\ ready' \in BOOLEAN /\ (ready' <=> Len(metricBuffer') >= config.MinimumSamples)
<1>1. /\ count' = count + 1 /\ count \in Nat /\ count + 1 \in Nat /\ Capacity \in Nat
      /\ config.WindowSize = Capacity
  BY Config DEF IInv, TypeOK, ProcessMetric
<1>2. metricBuffer = Newest(count, Capacity)
  BY DEF IInv, WindowIsNewest, Newest, Kept
<1>3. metricBuffer' = Newest(count', Capacity)
  BY <1>1, <1>2, KeepsNewest DEF ProcessMetric
<1>4. metricBuffer' \in Seq(1..count') /\ Len(metricBuffer') = Kept(count', Capacity)
  BY <1>1, <1>3, NewestType
<1>5. ready' \in BOOLEAN /\ (ready' <=> Len(metricBuffer') >= config.MinimumSamples)
  <2> DEFINE P == Len(metricBuffer') >= config.MinimumSamples
  <2>1. P \in BOOLEAN
    OBVIOUS
  <2>2. ready' = P
    BY DEF ProcessMetric
  <2> HIDE DEF P
  <2>3. ready' \in BOOLEAN /\ (ready' <=> P)
    BY <2>1, <2>2
  <2>. QED  BY <2>3 DEF P
<1>. QED  BY <1>1, <1>3, <1>4, <1>5

LEMMA StepProcessMetric == IInv /\ ProcessMetric => IInv'
<1> SUFFICES ASSUME IInv, ProcessMetric PROVE IInv'
  OBVIOUS
<1>1. /\ TypeOK
      /\ config' = config
      /\ newSamples' = newSamples + 1
      /\ fittedModel' = fittedModel
      /\ forecastedValues' = forecastedValues
      /\ returned' = returned
      /\ running' = running
      /\ Capacity' = Capacity /\ Horizon' = Horizon
  BY DEF IInv, ProcessMetric, Capacity, Horizon
<1>2. /\ Capacity \in Nat /\ Horizon \in Nat
      /\ config.MinimumSamples \in Int
      /\ Len(metricBuffer) = Kept(count, Capacity)
  BY Config, WindowLength DEF IInv
<1>3. WindowIsNewest'
  BY <1>1, ProcessMetricLength DEF WindowIsNewest, Newest, Kept
<1>4. /\ Len(metricBuffer') <= Capacity'
      /\ Len(metricBuffer') >= Len(metricBuffer)
  BY <1>1, <1>2, ProcessMetricLength DEF Kept
<1>5. TypeOK'
  BY <1>1, <1>4, ProcessMetricLength DEF TypeOK
<1>6. Counting'
  BY <1>1, ProcessMetricLength DEF IInv, Counting, TypeOK
<1>7. Consecutive'
  <2>1. SUFFICES ASSUME forecastedValues # <<>>
                 PROVE  Consecutive'
    BY <1>1 DEF Consecutive
  <2>2. forecastedValues[1] - 1 \in 1..count'
    BY <2>1, ProcessMetricLength DEF IInv, Consecutive
  <2>. QED  BY <1>1, <2>1, <2>2 DEF IInv, Consecutive
<1>8. Filled' /\ (returned' # None => ready')
  <2>1. Len(metricBuffer) \in Nat /\ Len(metricBuffer') \in Nat
    BY <1>2, ProcessMetricLength DEF Kept
  <2>. QED  BY <1>1, <1>2, <1>4, <2>1, ProcessMetricLength DEF IInv, Filled
<1>. QED
  BY <1>3, <1>5, <1>6, <1>7, <1>8 DEF IInv, RefitOnTime, ForecastsAreAligned

\* What all the ways through Execute share.
LEMMA ExecuteKeeps ==
  ASSUME IInv, Execute
  PROVE  /\ config' = config /\ count' = count /\ metricBuffer' = metricBuffer
         /\ ready /\ ready' = FALSE
         /\ WindowIsNewest' /\ Filled'
         /\ running' = running
         /\ Capacity' = Capacity /\ Horizon' = Horizon
         /\ Capacity \in Nat /\ Horizon \in Nat
         /\ config.SamplesRefreshModel \in Int
         /\ count \in Nat \ {0}
<1>1. /\ config' = config /\ count' = count /\ metricBuffer' = metricBuffer
      /\ ready /\ ready' = FALSE
      /\ running' = running
      /\ Capacity' = Capacity /\ Horizon' = Horizon
  BY DEF Execute, Capacity, Horizon
<1>2. WindowIsNewest' /\ Filled'
  BY <1>1 DEF IInv, WindowIsNewest, Filled
<1>3. count \in Nat \ {0}
  BY <1>1 DEF IInv, Filled, TypeOK
<1>. QED  BY <1>1, <1>2, <1>3, Config DEF IInv

LEMMA StepFitFails == IInv /\ Execute /\ FitFails => IInv'
<1> SUFFICES ASSUME IInv, Execute, FitFails PROVE IInv'
  OBVIOUS
<1>k. /\ TypeOK /\ config' = config /\ count' = count /\ metricBuffer' = metricBuffer
      /\ ready' = FALSE /\ count \in Nat \ {0} /\ running' = running
      /\ Capacity' = Capacity /\ Horizon' = Horizon /\ Capacity \in Nat /\ Horizon \in Nat
      /\ WindowIsNewest' /\ Filled'
  BY ExecuteKeeps DEF IInv
<1>1. /\ newSamples' = newSamples /\ forecastedValues' = forecastedValues
      /\ fittedModel' \in {fittedModel, None} /\ returned' = None
  BY DEF FitFails
<1>2. TypeOK'
  BY <1>1, <1>k DEF TypeOK
<1>. QED
  BY <1>1, <1>2, <1>k DEF IInv, Counting, Consecutive, RefitOnTime, ForecastsAreAligned

LEMMA StepPredictFails == IInv /\ Execute /\ PredictFails => IInv'
<1> SUFFICES ASSUME IInv, Execute, PredictFails PROVE IInv'
  OBVIOUS
<1>k. /\ TypeOK /\ config' = config /\ count' = count /\ metricBuffer' = metricBuffer
      /\ ready' = FALSE /\ count \in Nat \ {0} /\ running' = running
      /\ Capacity' = Capacity /\ Horizon' = Horizon /\ Capacity \in Nat /\ Horizon \in Nat
      /\ WindowIsNewest' /\ Filled'
  BY ExecuteKeeps DEF IInv
<1>1. /\ newSamples' = 0 /\ forecastedValues' = forecastedValues
      /\ fittedModel' = count /\ returned' = None
  BY DEF PredictFails
<1>2. TypeOK'
  <2>1. newSamples' \in 0..count /\ fittedModel' \in 1..count
    BY <1>1, <1>k
  <2>. QED  BY <1>1, <1>k, <2>1 DEF TypeOK
<1>. QED
  BY <1>1, <1>2, <1>k DEF IInv, Counting, Consecutive, RefitOnTime, ForecastsAreAligned

LEMMA StepRefresh == IInv /\ Execute /\ Refresh => IInv'
<1> SUFFICES ASSUME IInv, Execute, Refresh PROVE IInv'
  OBVIOUS
<1>k. /\ TypeOK /\ config' = config /\ count' = count /\ metricBuffer' = metricBuffer
      /\ ready' = FALSE /\ count \in Nat \ {0} /\ running' = running
      /\ Capacity' = Capacity /\ Horizon' = Horizon /\ Capacity \in Nat /\ Horizon \in Nat
      /\ WindowIsNewest' /\ Filled'
  BY ExecuteKeeps DEF IInv
<1> DEFINE R == config.SamplesRefreshModel
<1>0. /\ R \in Int /\ Horizon = (IF R > 0 THEN R ELSE 0)
      /\ Horizon \in Nat /\ count \in Nat \ {0} /\ config' = config /\ count' = count
  BY Config, <1>k DEF Horizon
<1>1. /\ newSamples' = 0 /\ fittedModel' = count
      /\ forecastedValues' = [i \in 1..Horizon |-> count + i]
      /\ returned' = forecastedValues'
  BY DEF Refresh
<1>2. /\ forecastedValues' \in Seq(Nat) /\ Len(forecastedValues') = Horizon
      /\ forecastedValues' # <<>> => Horizon > 0 /\ forecastedValues'[1] = count + 1
  <2>1. forecastedValues' \in Seq(Nat) /\ Len(forecastedValues') = Horizon
    BY <1>0, <1>1
  <2>2. forecastedValues' # <<>> => Horizon # 0
    BY <2>1, EmptySeq
  <2>. QED  BY <1>0, <1>1, <2>1, <2>2
<1>3. TypeOK'
  <2>1. newSamples' \in 0..count /\ fittedModel' \in 1..count
    BY <1>0, <1>1
  <2>. QED  BY <1>0, <1>1, <1>2, <1>k, <2>1 DEF TypeOK
<1>4. Counting' /\ RefitOnTime'
  BY <1>0, <1>1, SarimaAssumption DEF Counting, RefitOnTime
<1>5. Consecutive'
  <2>1. SUFFICES ASSUME forecastedValues' # <<>> PROVE Consecutive'
    BY DEF Consecutive
  <2>2. forecastedValues'[1] - 1 = count
    BY <1>0, <1>2, <2>1
  <2>3. forecastedValues'[1] - 1 \in 1..count' /\ forecastedValues'[1] - 1 <= fittedModel'
    BY <1>0, <1>1, <2>2
  <2>4. forecastedValues' = [i \in 1..Horizon' |-> forecastedValues'[1] - 1 + i]
    BY <1>1, <1>k, <2>2
  <2>. QED  BY <2>3, <2>4 DEF Consecutive
<1>6. ForecastsAreAligned'
  <2>1. SUFFICES ASSUME returned' # <<>> PROVE ForecastsAreAligned'
    BY DEF ForecastsAreAligned
  <2> DEFINE made   == forecastedValues'[1] - 1
             behind == fittedModel' - made
  <2>2. made = count /\ behind = 0 /\ Horizon = R
    BY <1>0, <1>1, <1>2, <2>1
  <2>3. made \in 1..fittedModel'
    BY <1>0, <1>1, <2>2
  <2>4. R - (count' - fittedModel') = Horizon /\ count' - behind = count
    BY <1>0, <1>1, <2>2
  <2> HIDE DEF behind
  <2>5. returned' = [i \in 1..(R - (count' - fittedModel')) |-> count' - behind + i]
    BY <1>1, <2>4
  <2>. QED  BY <1>0, <2>3, <2>5 DEF ForecastsAreAligned, behind
<1>. QED  BY <1>3, <1>4, <1>5, <1>6, <1>k DEF IInv

LEMMA StepReturnRemaining == IInv /\ Execute /\ ReturnRemaining => IInv'
<1> SUFFICES ASSUME IInv, Execute, ReturnRemaining PROVE IInv'
  OBVIOUS
<1>k. /\ TypeOK /\ config' = config /\ count' = count /\ metricBuffer' = metricBuffer
      /\ ready' = FALSE /\ count \in Nat \ {0} /\ running' = running
      /\ Capacity' = Capacity /\ Horizon' = Horizon /\ Capacity \in Nat /\ Horizon \in Nat
      /\ WindowIsNewest' /\ Filled'
  BY ExecuteKeeps DEF IInv
<1> DEFINE R == config.SamplesRefreshModel
           L == Len(forecastedValues)
<1>0. R \in Int /\ count \in Nat \ {0} /\ config' = config /\ count' = count
  BY Config, <1>k
<1>1. /\ newSamples' = newSamples /\ fittedModel' = fittedModel
      /\ forecastedValues' = forecastedValues
      /\ returned' = SubSeq(forecastedValues, newSamples + 1, L)
  BY DEF ReturnRemaining
<1>2. /\ fittedModel # None /\ newSamples < R
      /\ newSamples \in Nat /\ fittedModel \in Nat
      /\ newSamples = count - fittedModel
      /\ Horizon = R
  BY <1>0 DEF IInv, TypeOK, Counting, ReturnRemaining, NeedsRefresh, Horizon
<1>3. /\ forecastedValues \in Seq(Nat) /\ L \in {0, R} /\ L \in Nat
      /\ \A i \in newSamples + 1 .. L : forecastedValues[i] \in Nat
  BY <1>0, <1>2, LenProperties DEF IInv, TypeOK
<1>4. /\ returned' \in Seq(Nat)
      /\ Len(returned') = IF newSamples + 1 <= L THEN L - newSamples ELSE 0
      /\ \A i \in 1 .. L - newSamples : returned'[i] = forecastedValues[newSamples + i]
  <2>1. newSamples + 1 \in Int /\ L \in Int
    BY <1>2, <1>3
  <2>2. \A i \in newSamples + 1 .. L : forecastedValues[i] \in Nat
    BY <1>3
  <2> DEFINE s == SubSeq(forecastedValues, newSamples + 1, L)
  <2>3. /\ s \in Seq(Nat)
        /\ Len(s) = IF newSamples + 1 <= L THEN L - (newSamples + 1) + 1 ELSE 0
        /\ \A i \in 1 .. L - (newSamples + 1) + 1 : s[i] = forecastedValues[newSamples + 1 + i - 1]
    <3> HIDE DEF L
    <3>. QED  BY <2>1, <2>2, SubSeqProperties
  <2> HIDE DEF s, L
  <2>4. returned' = s
    BY <1>1 DEF s
  <2>. QED  BY <1>2, <1>3, <2>3, <2>4
<1>5. TypeOK'
  BY <1>1, <1>4, <1>k DEF TypeOK
<1>6. Counting' /\ RefitOnTime' /\ Consecutive'
  BY <1>0, <1>1, <1>2, <1>k DEF IInv, Counting, RefitOnTime, Consecutive
<1>7. ForecastsAreAligned'
  <2>1. SUFFICES ASSUME returned' # <<>> PROVE ForecastsAreAligned'
    BY DEF ForecastsAreAligned
  <2>2. L = R /\ Len(returned') = R - newSamples
    <3>1. Len(returned') # 0
      BY <1>4, <2>1, EmptySeq
    <3>2. L # 0
      BY <1>2, <1>4, <3>1
    <3>3. L = R
      BY <1>3, <3>2
    <3>4. Len(returned') = IF newSamples + 1 <= L THEN L - newSamples ELSE 0
      BY <1>4
    <3> HIDE DEF L
    <3>5. newSamples + 1 <= L
      BY <3>1, <3>4
    <3>. QED  BY <3>3, <3>4, <3>5
  <2> DEFINE made   == forecastedValues[1] - 1
             behind == fittedModel - made
  <2>3. /\ forecastedValues = [i \in 1..R |-> made + i]
        /\ made \in 1..count /\ made <= fittedModel
    <3>1. forecastedValues # <<>>
      BY <1>2, <2>2, EmptySeq
    <3>. QED  BY <1>2, <3>1 DEF IInv, Consecutive
  <2>4. made \in 1..fittedModel /\ behind \in Nat
    BY <1>0, <1>2, <2>3
  <2>5. \A i \in 1..R - newSamples : returned'[i] = count - behind + i
    <3> SUFFICES ASSUME NEW i \in 1..R - newSamples
                 PROVE  returned'[i] = count - behind + i
      OBVIOUS
    <3>1. returned'[i] = forecastedValues[newSamples + i]
      BY <1>4, <2>2
    <3>2. newSamples + i \in 1..R
      BY <1>0, <1>2
    <3>3. forecastedValues[newSamples + i] = made + (newSamples + i)
      <4> HIDE DEF made
      <4>. QED  BY <2>3, <3>2
    <3>4. made + (newSamples + i) = count - behind + i
      BY <1>0, <1>2, <2>4
    <3>. QED  BY <3>1, <3>3, <3>4
  <2> HIDE DEF behind
  <2>6. returned' = [i \in 1..(R - newSamples) |-> count - behind + i]
    BY <1>0, <1>2, <1>4, <2>2, <2>5, LenProperties
  <2>7. returned' = [i \in 1..(R - (count' - fittedModel')) |-> count' - behind + i]
    <3>1. count' - fittedModel' = newSamples
      BY <1>0, <1>1, <1>2
    <3>. QED  BY <1>0, <2>6, <3>1
  <2>. QED  BY <1>0, <1>1, <2>4, <2>7 DEF ForecastsAreAligned, behind
<1>. QED  BY <1>5, <1>6, <1>7, <1>k DEF IInv

LEMMA NextInv == IInv /\ [Next]_vars => IInv'
<1> SUFFICES ASSUME IInv, [Next]_vars PROVE IInv'
  OBVIOUS
<1>1. CASE ProcessMetric
  BY <1>1, StepProcessMetric
<1>2. CASE Execute
  BY <1>2, StepFitFails, StepPredictFails, StepRefresh, StepReturnRemaining DEF Execute
<1>3. CASE CutPanics \/ RefreshPanics \/ UNCHANGED vars
  <2>1. /\ UNCHANGED <<config, count, metricBuffer, newSamples, fittedModel,
                       forecastedValues, ready, returned>>
        /\ running' \in BOOLEAN
    BY <1>3 DEF CutPanics, RefreshPanics, vars, IInv, TypeOK
  <2>2. Capacity' = Capacity /\ Horizon' = Horizon
    BY <2>1 DEF Capacity, Horizon
  <2>3. TypeOK'
    BY <2>1, <2>2 DEF IInv, TypeOK
  <2>. QED
    BY <2>1, <2>2, <2>3 DEF IInv, WindowIsNewest, Counting, Consecutive, Filled,
       RefitOnTime, ForecastsAreAligned
<1>. QED  BY <1>1, <1>2, <1>3 DEF Next

\* The inductive invariant holds in every reachable state, for every set of
\* configurations.
THEOREM Invariance == Spec => []IInv
<1>. QED  BY InitInv, NextInv, PTL DEF Spec

\* Every variable keeps its type (ProcessMetric, Execute).
THEOREM TypeCorrectness == Spec => []TypeOK
<1>1. IInv => TypeOK
  BY DEF IInv
<1>. QED  BY <1>1, Invariance, PTL

\* The buffer is always the newest samples in order (line 132-138).
THEOREM NewestWindow == Spec => []WindowIsNewest
<1>1. IInv => WindowIsNewest
  BY DEF IInv
<1>. QED  BY <1>1, Invariance, PTL

\* The forecasts of a result are for consecutive samples, as many as are missing
\* until the next refresh, all behind by the distance of the last fit from the
\* one they were made after, whatever fits and predictions failed (line 195-256).
THEOREM AlignedForecasts == Spec => []ForecastsAreAligned
<1>1. IInv => ForecastsAreAligned
  BY DEF IInv
<1>. QED  BY <1>1, Invariance, PTL

\* No call returns a result while a fit is due: a fit that fails is tried again
\* with every sample (line 195, 203-215, 247).  The forecasts may be older.
THEOREM RefitsOnTime == Spec => []RefitOnTime
<1>1. IInv => RefitOnTime
  BY DEF IInv
<1>. QED  BY <1>1, Invariance, PTL

\* Samples are executed from the minimum on (line 136-144).
THEOREM ExecutesFromMinimum == Spec => ExecutesFromTheMinimumOn
<1>1. IInv /\ [Next]_vars =>
        [count' # count =>
           (ready' <=> count' >= config.MinimumSamples
                       /\ config.WindowSize >= config.MinimumSamples)]_vars
  <2> SUFFICES ASSUME IInv, Next, count' # count
               PROVE  ready' <=> count' >= config.MinimumSamples
                                 /\ config.WindowSize >= config.MinimumSamples
    OBVIOUS
  <2>1. ProcessMetric
    BY DEF Next, Execute, CutPanics, RefreshPanics
  <2>2. Len(metricBuffer') = Kept(count', Capacity)
        /\ count' \in Nat
        /\ (ready' <=> Len(metricBuffer') >= config.MinimumSamples)
    BY <2>1, ProcessMetricLength
  <2>3. /\ config.WindowSize \in Nat /\ config.MinimumSamples \in Int
        /\ Capacity = config.WindowSize
    BY <2>1, Config DEF IInv, ProcessMetric
  <2>. QED  BY <2>2, <2>3 DEF Kept
<1>. QED  BY <1>1, Invariance, PTL DEF Spec, ExecutesFromTheMinimumOn
=============================================================================
