CONSTANTS
  X = X
  PcLimit = 4
  Bus <- MCBus

SPECIFICATION FairSpec

PROPERTIES
  WedgedOnlyByUnknown
  ImplementsInstructionSet
