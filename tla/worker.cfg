SPECIFICATION Spec
CONSTANTS
  Keys <- MCKeys
  Routes <- MCRoutes
  Logins <- MCLogins
  Guards = {g1, g2}
  WINDOW = 1
  MAX_BUCKETS = 1
  m1 = m1
  m2 = m2
  Mails = {m1, m2}
  Waits = {a1, a2}
  Queries = {q1, q2}
  MODELS = 2
  CACHE_MAX = 1
  Traffics <- MCTraffics
INVARIANTS
  TypeOK
  RateHeld
  GuessesBounded
  ReportsTrue
  OneConnection
  CacheHeld
PROPERTIES
  QueuePromise
  AllAnswered
