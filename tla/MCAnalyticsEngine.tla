-------------------------- MODULE MCAnalyticsEngine --------------------------
(* Two plugins: the first computes a forecast from a raw metric, the second *)
(* subscribes to the raw metric and to the forecast, and publishes forecasts *)
(* itself, so that it feeds itself for as long as it finds something to      *)
(* compute.  The name "other" stands for every metric nobody subscribes to,  *)
(* of a collector or of the first plugin.                                    *)
EXTENDS AnalyticsEngine

CONSTANTS raw, forecast, other

MCNames == {raw, forecast, other}
MCRaw == {raw, other}
MCSubscribed == <<{raw}, {raw, forecast}>>
MCProduced == <<{forecast, other}, {forecast}>>
==============================================================================
