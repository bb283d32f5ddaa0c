SPECIFICATION MCSpec
CONSTANTS
  Graphs <- ValidGraphs
  Inputs = {0, 1, 2}
  Results <- AnyResult
  IterationLimit = 25
  MaxActive = 3
  MaxLost = 1
  Users = {"u"}
  BuiltIns = {"web_search"}
  Custom = {"rates"}
  Calls = {c1, c2}
  MaxStarts = 3
  MaxErrors = 1
  NOps = 3
  Hosts = {"address", "name", "private"}
  PublicHosts = {"address"}
  NamedHosts = {"name"}
  SourceHeaders <- MCHeaders
  MaxHops = 1
  Choosing = 2
  Turns = {u1}
  NoTurn = NoTurn
  Senders = {s1, s2}
  Outcomes = {"Completed", "Failed", "Cancelled"}
  SplitKinds = {"new", "continue"}
  MaxActions = 2
  MaxRunning = 1
  MaxTopics = 3
  MaxSessions = 2
  MaxTorn = 1
  MaxFaults = 1
  MaxRestarts = 1
SYMMETRY Alike
CHECK_DEADLOCK FALSE
INVARIANTS
  NeverPanics
  OrderIndependent
  SeededAsConfigured
  ActiveWasReviewed
  RaceAccounts
  RequestsStayGuarded
  
  TurnLandsOnce
PROPERTIES
  JoinsFoldEveryBranch
