SPECIFICATION MCSpec
CONSTANTS
  Turns = {u1}
  NoTurn = NoTurn
  Senders = {c1, c2}
  Outcomes = {"Completed", "Failed", "Cancelled"}
  SplitKinds = {"new", "continue"}
  MaxActions = 2
  MaxRunning = 1
  MaxTopics = 3
  MaxSessions = 2
  MaxTorn = 1
  MaxFaults = 1
  MaxRestarts = 1
  Summaries = 2
  Raised = 2
  OptionsCap = 2
CHECK_DEADLOCK FALSE
INVARIANTS
  SlotsAreUsed
  FocusNeverLost
  TurnsReachTopicsWhole
PROPERTIES
  TopicsSettle
