CONSTANTS
  Process = {1, 2, 3, 4}
  Path = {yaml}
  NoPath = NoPath
  Port = {8000}
  Nobody = Nobody
  Accelerators = {}
  Yaml = yaml
  Url = 8000

SPECIFICATION HarnessSpec
CHECK_DEADLOCK FALSE

INVARIANTS
  PollMeansOwnServer
