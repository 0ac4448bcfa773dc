CONSTANTS
  good = good
  bad = bad
  Process = {1, 2, 3, 4}
  Path = {good, bad}
  NoPath = NoPath
  Port = {8000}
  Nobody = Nobody
  Accelerators = {}
  Yaml = good
  Url = 8000

SPECIFICATION MCSpec
CHECK_DEADLOCK FALSE

INVARIANTS
  TypeOK
  ConfigInForce
  EnvironmentMustBeSound
  ConfigMeaning
  NoStrayKeys
  OwnSetting

PROPERTIES
  ExitExplained
  StartConcludes
  PollEnds
