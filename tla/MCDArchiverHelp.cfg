\* One metric whose description changes between two of its lives.
SPECIFICATION Safety
CONSTANTS
  Names = {m1}
  Refused = {}
  Descs = {d1, d2}
  Values = {v1}
  Gauges = {g1, g2}
  TTL = 1
  None = None
INVARIANT
  SecondLifeRegisters
