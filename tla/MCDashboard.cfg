\* Three overlapping fetches, two intervals, a filter that hides one of two metrics.
SPECIFICATION Spec
CONSTANTS
  None = None
  Labels = {"cpu", "mem"}
  Answers <- MCAnswers
  Intervals = {5, 60}
  Handles = {t1, t2}
  Filters = {"", "cpu"}
  Hits <- MCHits
  NoFilter = ""
  Clickable <- MCClickable
  MaxFetches = 3
INVARIANTS
  TypeOK
  OneTimer
  LoadingMeansFetching
  PageAgrees
PROPERTIES
  PauseHolds
  HiddenStaysHidden
  Refinement
  PollingGoesOn
