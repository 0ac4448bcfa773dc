CONSTANTS
  good = good
  bad = bad
  Process = {1, 2, 3, 4}
  Path = {good, bad}
  NoPath = NoPath
  Port = {8000}
  Nobody = Nobody
  Accelerators <- Mps
  Yaml = good
  Url = 8000

SPECIFICATION DocumentedSpec
CHECK_DEADLOCK FALSE

INVARIANTS
  ServesAsDocumented
