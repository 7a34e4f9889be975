\* Three slices, any of them misconfigured.
SPECIFICATION Spec
CONSTANTS
  NSlices = 3
  None = None
INVARIANTS
  TypeOK
  TerminateStopsTracked
  WaitFindsKilled
PROPERTIES
  SignalEnds
