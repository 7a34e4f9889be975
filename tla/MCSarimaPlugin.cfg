\* Every number below zero, zero, and one to three, so that the window is below,
\* at and above the minimum; enough samples for two refreshes.
\* At the bound on samples, or after a panic, the plugin rests: no deadlock check.
SPECIFICATION Spec
CONSTANTS
  None = None
  WindowSizes <- MCSettings
  RefreshIntervals <- MCSettings
  Minima <- MCSettings
  MaxSamples = 9
INVARIANTS
  TypeOK
  WindowIsNewest
  ForecastsAreAligned
  RefitOnTime
PROPERTIES
  ExecutesFromTheMinimumOn
CHECK_DEADLOCK FALSE
