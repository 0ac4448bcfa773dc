CONSTANTS
  WordBits = 3
  NumRegs = 2
  Drives <- MCDrives

SPECIFICATION Spec

INVARIANTS
  AluComputes

PROPERTIES
  RegisterWrites
