\* The limits 50, 100 and 10 scaled down, and answers larger than each of them.
\* An answer at the bounds grows no further: no deadlock check.
SPECIFICATION Spec
CONSTANTS
  Blank = Blank
  NotANumber = NotANumber
  Names = {"a", "b", Blank}
  Values = {1004, 2000, NotANumber}
  Times = {1, 2}
  MaxRawPoints = 2
  MaxForecastPoints = 2
  MaxRows = 2
  MaxMetrics = 3
  MaxParts = 2
INVARIANTS
  ChartKeepsNewest
  RowsArePlotted
  MergeLosesNothing
CHECK_DEADLOCK FALSE
