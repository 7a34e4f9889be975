\* Liveness of the archiver under the fairness of its goroutines; one of the
\* names is refused by Prometheus.
SPECIFICATION Spec
CONSTANTS
  Names = {m1, m2, bad}
  Refused = {bad}
  Descs = {d1}
  Values = {v1}
  Gauges = {g1, g2}
  TTL = 1
  None = None
PROPERTY
  ExpiredIsRemoved
