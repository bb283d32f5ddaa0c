SPECIFICATION Spec
CONSTANTS
  Executions = {e1}
  NoExec = NoExec
  Workers = {w1, w2}
  Clients = {c1, c2}
  Ops = {"interrupt"}
  MaxBoots = 1
  MaxStep = 2
  MaxFaults = 0
  MaxDrops = 0
  MaxIterations = 3
SYMMETRY Anonymous
CHECK_DEADLOCK FALSE
INVARIANTS
  NoOrphanCheckpoints
