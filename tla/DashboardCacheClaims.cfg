\* Claims that the code refutes; with -continue TLC reports each.
CONSTANTS
  Requests = {q1, q2}
  ANALYTICS_CACHE_TTL_SECONDS = 3
  Latency = 2
  None = None
SPECIFICATION Spec
INVARIANTS
  CachedForTheTTL
PROPERTIES
  NeverBackInTime
