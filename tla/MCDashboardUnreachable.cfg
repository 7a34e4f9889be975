\* The same page, one fetch is enough.
SPECIFICATION Spec
CONSTANTS
  None = None
  Labels = {"cpu", "mem"}
  Answers <- MCAnswers
  Intervals = {5, 60}
  Handles = {t1, t2}
  Filters = {"", "cpu"}
  Hits <- MCHits
  NoFilter = ""
  Clickable <- MCClickable
  MaxFetches = 2
PROPERTIES
  ConnectedMeansAnswered
