SPECIFICATION CalmSpec
CONSTANTS
  Executions = {e1}
  NoExec = NoExec
  Workers = {w1, w2}
  Clients = {c1, c2}
  Ops = {"interrupt", "resume", "cancel"}
  MaxBoots = 2
  MaxStep = 2
  MaxFaults = 1
  MaxDrops = 0
  MaxIterations = 3
CHECK_DEADLOCK FALSE
INVARIANTS
  LeaseMatchesRunning
  ContiguousCheckpoints
  RowMirrorsLatest
PROPERTIES
  CheckpointsImmutable
  TicksNeverReopen
  RunningSettles
