SPECIFICATION MCSpec
CONSTANTS
  Executions = {e1, e2, e3}
  Crons = {"often", "seldom"}
  Fires <- MCFires
  LastInstant = 4
  Daemons = {d1, d2}
  MaxDeaths = 2
  Instances = {i1, i2, i3}
  Tokens = {"t1", "t2"}
  Ttl = 2
  LastHour = 4
  Pages = {1, 2, 3, 4}
  MaxHopRows = 5
  MaxNeighbors = 2
  Window = 5
  Texts <- MCTexts
  Prompts <- MCPrompts
  Decisions <- MCDecisions
  Verdicts <- MCVerdicts
  Deadlines = {1, 4, 5, 6, 20}
  RecordTime = 3
  MaxMonths = 2
  MaxFaults = 1
CHECK_DEADLOCK FALSE
INVARIANTS
  SchedulesKeepTime
  CheckedOwnersAreAlone
  SessionsHonoured
  LookupsComputeTheirMeaning
  EveryCallAudited
  RecordedBeforeTheDeadline
  BlameIsTheCallers
PROPERTIES
  NoStarvation
