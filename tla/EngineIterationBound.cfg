SPECIFICATION Spec
CONSTANTS
  Executions = {e1}
  NoExec = NoExec
  Workers = {w1}
  Clients = {}
  Ops = {}
  MaxBoots = 1
  MaxStep = 3
  MaxFaults = 0
  MaxDrops = 0
  MaxIterations = 2
CHECK_DEADLOCK FALSE
INVARIANTS
  CheckpointsBoundedByIterations
