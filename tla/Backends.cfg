CONSTANTS
  Requests <- MCRequests
  NPositions = 4
  DefaultBudget = 3
  BuildPrompt <- PromptWords
  Retokenized <- MCRetokenized

SPECIFICATION Spec
CHECK_DEADLOCK FALSE

INVARIANTS
  UsageAddsUp
  BudgetKept
  SameVerdict
