\* One metric is enough for AddMetric to write back what the cleaner deleted.
SPECIFICATION Safety
CONSTANTS
  Names = {m1}
  Refused = {}
  Descs = {d1}
  Values = {v1}
  Gauges = {g1, g2}
  TTL = 1
  None = None
INVARIANT
  ListedIsRegistered
