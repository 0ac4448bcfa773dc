CONSTANTS
  a = a
  b = b
  Eos = Eos
  Token = {a, b, Eos}
  NumLayers = 2
  NPositions = 5
  Embed <- TermEmbed
  KeyValue <- TermKeyValue
  Block <- TermBlock
  LMHead <- TermLMHead
  Activation <- TermActivation
  Prompts <- MCPrompts
  MaxNew <- MCMaxNew
  NoLogits = NoLogits
  Uninit = Uninit
  NoCache = NoCache

SPECIFICATION FairSpec

INVARIANTS
  TypeOK
  KVCoherent
  ActivationsAgree
  CallAccounting
  StopsInTime

PROPERTIES
  StoredRowsFinal
  CallReturns
  ImplementsTextGeneration
