\* Two slices are enough for one collector to lose its entry.
SPECIFICATION Safety
CONSTANTS
  NSlices = 2
  None = None
INVARIANT
  TerminateStopsAll
