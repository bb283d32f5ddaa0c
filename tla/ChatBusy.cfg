SPECIFICATION Spec
CONSTANTS
  Turns = {u1}
  NoTurn = NoTurn
  Senders = {c1, c2}
  Outcomes = {"Completed", "Failed", "Cancelled"}
  SplitKinds = {"new", "continue"}
  MaxActions = 2
  MaxRunning = 1
  MaxTopics = 3
  MaxSessions = 2
  MaxTorn = 1
  MaxFaults = 1
  MaxRestarts = 1
CHECK_DEADLOCK FALSE
INVARIANT
  TurnTakesEffectOnce
