CONSTANTS
  X = X
  PcLimit = 65536
  Bus = {}

SPECIFICATION TestSpec
CHECK_DEADLOCK FALSE

INVARIANTS
  InstructionsAsDocumented
