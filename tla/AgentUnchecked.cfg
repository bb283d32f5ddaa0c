SPECIFICATION Spec
CONSTANTS
  Graphs = {"agent", "simple", "rag"}
  Window = 1
  MaxParallel = 2
  MaxErrors = 3
  Attempts = 2
  TokenBudget = 7
  ToolCallBudget = 3
  MaxTurns = 2
  MaxLookups = 3
  MaxLost = 1
CHECK_DEADLOCK FALSE
INVARIANT
  UncheckedRepliesStay
