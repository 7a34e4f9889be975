\* Safety of the archiver: two metrics, two values, as many gauges.
SPECIFICATION Safety
CONSTANTS
  Names = {m1, m2}
  Refused = {}
  Descs = {d1}
  Values = {v1, v2}
  Gauges = {g1, g2}
  TTL = 1
  None = None
INVARIANTS
  TypeOK
  NoGaugeLeak
  OnlyForeignPanics
  ExposedIsStored
  StalenessBounded
PROPERTIES
  Refinement
