CONSTANTS
  r1 = r1
  r2 = r2
  r3 = r3
  m1 = m1
  m2 = m2
  m3 = m3
  bad = bad
  Request = {r1, r2, r3}
  Model = {m1, m2, m3, bad}
  Loadable = {m1, m2, m3}
  Blank = Blank
  Free = Free
  Workload <- MCWorkload
  Threads = 2
  CacheSize = 2

SPECIFICATION FairSpec
CHECK_DEADLOCK FALSE

INVARIANTS
  TypeOK
  PoolSound
  CacheSound
  AnswersExplained
  StreamsWhole

PROPERTIES
  CachedInstanceStable
  RequestsAnswered
  HealthzIndependent
