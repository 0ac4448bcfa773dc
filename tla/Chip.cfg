CONSTANTS
  X = X
  PcLimit = 4
  Bus = {X}
  Cell = {0, 1, 2, 3}

SPECIFICATION ChipSpec

PROPERTIES
  ExecutesItsProgram
