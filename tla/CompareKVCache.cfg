CONSTANTS
  a = a
  b = b
  Eos = Eos
  Token = {a, b, Eos}
  NumLayers = 2
  NPositions = 4
  Embed <- TermEmbed
  KeyValue <- TermKeyValue
  Block <- TermBlock
  LMHead <- TermLMHead
  Activation <- TermActivation
  Prompts <- MCPrompts
  MaxNew <- MCMaxNew
  NoLogits = NoLogits
  Uninit = Uninit
  NoCache = NoCache

SPECIFICATION CompareSpec

CHECK_DEADLOCK FALSE

INVARIANTS
  CompareTypeOK
  UncachedRetracesCached

PROPERTIES
  ComparisonReported
