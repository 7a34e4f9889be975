---------------------------- MODULE SarimaPlugin ----------------------------
(***************************************************************************)
(* The forecasting plugin, plugin/analytics/HPE_SARIMA_connected_ue.go:    *)
(* the window of samples, the model fitted on it every so many samples and *)
(* the forecasts handed out until the next fit.                            *)
(*                                                                         *)
(* The engine calls ProcessMetric and, if it says so, Execute, one call at *)
(* a time.  Accepted samples are numbered from 1 in the order of arrival;  *)
(* a forecast is the number of the sample it predicts (its time is that of *)
(* the last sample plus the mean distance times its index).  What the      *)
(* goarima library computes is left out, not that it may fail or panic.    *)
(* Nothing recovers from a panic in the plugin: its process ends.          *)
(***************************************************************************)
EXTENDS Integers, Sequences

CONSTANTS
  WindowSizes,       (* values of ANALYTICS_WINDOW_SIZE                    *)
  RefreshIntervals,  (* values of ANALYTICS_SAMPLES_REFRESH_MODEL          *)
  Minima,            (* values of ANALYTICS_MINIMUM_SAMPLES                *)
  MaxSamples,        (* bound: samples accepted                            *)
  None               (* no model, no entry in the result                   *)

\* strconv.Atoi reads any integer and nothing checks it.
ASSUME SarimaAssumption ==
  /\ WindowSizes \subseteq Int
  /\ RefreshIntervals \subseteq Int
  /\ Minima \subseteq Int
  /\ MaxSamples \in Nat
  /\ None \notin Nat /\ None \notin Seq(Nat)

VARIABLES
  running,           (* the plugin's process has not ended by a panic      *)
  config,            (* what SetEnvironment has read                       *)
  count,             (* number of samples accepted                         *)
  metricBuffer,      (* the samples kept                                   *)
  newSamples,        (* samples since the last fit                         *)
  fittedModel,       (* the sample the model was fitted at                 *)
  forecastedValues,  (* the forecasts of the last prediction               *)
  ready,             (* ProcessMetric has said true, Execute comes next    *)
  returned           (* the forecasts in the result of the last Execute    *)

vars == <<running, config, count, metricBuffer, newSamples, fittedModel, forecastedValues,
          ready, returned>>

AnalyticsConfig == [WindowSize : WindowSizes, SamplesRefreshModel : RefreshIntervals,
                    MinimumSamples : Minima]

\* The samples the window may hold.
Capacity == IF config.WindowSize > 0 THEN config.WindowSize ELSE 0

\* The forecasts of one prediction.
Horizon == IF config.SamplesRefreshModel > 0 THEN config.SamplesRefreshModel ELSE 0

TypeOK ==
  /\ running \in BOOLEAN
  /\ config \in AnalyticsConfig
  /\ count \in Nat
  /\ metricBuffer \in Seq(1..count) /\ Len(metricBuffer) <= Capacity
  /\ newSamples \in 0..count
  /\ fittedModel \in (1..count) \cup {None}
  /\ forecastedValues \in Seq(Nat) /\ Len(forecastedValues) \in {0, Horizon}
  /\ ready \in BOOLEAN
  /\ returned \in Seq(Nat) \cup {None}

Init ==
  /\ running = TRUE
  /\ config \in AnalyticsConfig
  /\ count = 0 /\ metricBuffer = <<>> /\ newSamples = 0
  /\ fittedModel = None /\ forecastedValues = <<>>
  /\ ready = FALSE /\ returned = None

\* Mutant of KeepWindow: trims as soon as the window is full.
KeepWindowShort(buffer, size) ==
  SubSeq(buffer, (IF Len(buffer) >= size THEN Len(buffer) - size + 1 ELSE 0) + 1, Len(buffer))

\* Mutant of KeepWindow: trims one sample too late.
KeepWindowLate(buffer, size) ==
  SubSeq(buffer, (IF Len(buffer) > size + 1 THEN Len(buffer) - size - 1 ELSE 0) + 1, Len(buffer))

\* buffer[len(buffer)-size:], if it is longer than size.
KeepWindow(buffer, size) ==
  SubSeq(buffer, (IF Len(buffer) > size THEN Len(buffer) - size ELSE 0) + 1, Len(buffer))

\* A sample with a time and the subscribed name; any other changes nothing.
ProcessMetric ==
  /\ running /\ ~ready
  /\ count < MaxSamples
  /\ config.WindowSize >= 0
  /\ count' = count + 1
  /\ metricBuffer' = KeepWindow(Append(metricBuffer, count'), config.WindowSize)
  /\ newSamples' = newSamples + 1
  /\ ready' = (Len(metricBuffer') >= config.MinimumSamples)
  /\ UNCHANGED <<running, config, fittedModel, forecastedValues, returned>>

\* The cut of a window of negative size begins beyond the end of the slice.
CutPanics ==
  /\ running /\ ~ready
  /\ count < MaxSamples
  /\ config.WindowSize < 0
  /\ running' = FALSE
  /\ UNCHANGED <<config, count, metricBuffer, newSamples, fittedModel, forecastedValues,
                 ready, returned>>

NeedsRefresh == fittedModel = None \/ newSamples >= config.SamplesRefreshModel

\* No time series, the model stays; or no model of it.
FitFails ==
  /\ NeedsRefresh
  /\ fittedModel' \in {fittedModel, None}
  /\ returned' = None
  /\ UNCHANGED <<newSamples, forecastedValues>>

\* The model is new, the forecasts are still those of the old one.
PredictFails ==
  /\ NeedsRefresh
  /\ fittedModel' = count
  /\ newSamples' = 0
  /\ returned' = None
  /\ UNCHANGED forecastedValues

\* Mutant of Refresh: newSamples is not reset.
RefreshKeepsCounting ==
  /\ NeedsRefresh /\ metricBuffer # <<>>
  /\ fittedModel' = count
  /\ forecastedValues' = [i \in 1..Horizon |-> count + i]
  /\ returned' = forecastedValues'
  /\ UNCHANGED newSamples

\* Without a sample there is none to date the forecasts from (line 230).
Refresh ==
  /\ NeedsRefresh /\ metricBuffer # <<>>
  /\ fittedModel' = count
  /\ newSamples' = 0
  /\ forecastedValues' = [i \in 1..Horizon |-> count + i]
  /\ returned' = forecastedValues'

\* Mutant of ReturnRemaining: one forecast too many is returned.
ReturnRemainingLate ==
  /\ ~NeedsRefresh
  /\ returned' = SubSeq(forecastedValues, newSamples, Len(forecastedValues))
  /\ UNCHANGED <<newSamples, fittedModel, forecastedValues>>

\* What is left of the forecasts, as many dropped as samples have come.
ReturnRemaining ==
  /\ ~NeedsRefresh
  /\ returned' = SubSeq(forecastedValues, newSamples + 1, Len(forecastedValues))
  /\ UNCHANGED <<newSamples, fittedModel, forecastedValues>>

Execute ==
  /\ running /\ ready
  /\ ready' = FALSE
  /\ FitFails \/ PredictFails \/ Refresh \/ ReturnRemaining
  /\ UNCHANGED <<running, config, count, metricBuffer>>

\* A panic in the library, or at line 230 if the window is empty.
RefreshPanics ==
  /\ running /\ ready
  /\ NeedsRefresh
  /\ running' = FALSE
  /\ UNCHANGED <<config, count, metricBuffer, newSamples, fittedModel, forecastedValues,
                 ready, returned>>

Next == ProcessMetric \/ CutPanics \/ Execute \/ RefreshPanics

Spec == Init /\ [][Next]_vars

(***************************************************************************)
(* Properties.                                                             *)
(***************************************************************************)

\* The model is fitted on the newest samples, without a gap and in order of
\* arrival: what append and the repeated cut are for (line 132-138).
WindowIsNewest ==
  LET kept == IF count < Capacity THEN count ELSE Capacity
  IN  metricBuffer = [i \in 1..kept |-> count - kept + i]

\* A non-empty result holds a forecast for every sample until the next refresh,
\* in order, all of them behind by one and the same distance: that of the last
\* fit from the one they were made after.  (When the last fit's prediction
\* succeeded it is 0, and the first forecast is that of the next sample; when it
\* failed, newSamples counts from the new fit while the forecasts are those of
\* an older one, and samples that have long arrived are "forecast".)  No other
\* failure moves counter, fit and forecasts against each other (line 195-256);
\* the engine publishes the first one.
ForecastsAreAligned ==
  ~ready /\ returned \notin {None, <<>>} =>
    LET made   == forecastedValues[1] - 1
        behind == fittedModel - made
    IN  /\ made \in 1..fittedModel
        /\ returned = [i \in 1..(config.SamplesRefreshModel - (count - fittedModel)) |->
                         count - behind + i]

\* No call returns a result, even an empty one, while a fit is due: the last
\* successful fit is less than the refresh interval away, or was made in that
\* very call, since a fit that fails is tried again with every sample (line 195,
\* 203-215, 247).  This is about the fit, not about the age of the forecasts
\* returned, which ForecastsAreAligned states.
RefitOnTime ==
  ~ready /\ returned # None =>
    /\ fittedModel # None
    /\ fittedModel = count \/ count - fittedModel < config.SamplesRefreshModel
    /\ newSamples = count - fittedModel

\* Every sample from the minimum on leads to an Execute and none before; none
\* ever does if the window is smaller than the minimum (line 136-144).
ExecutesFromTheMinimumOn ==
  [][count' # count =>
       (ready' <=> count' >= config.MinimumSamples
                   /\ config.WindowSize >= config.MinimumSamples)]_vars
=============================================================================
