SPECIFICATION Spec
CONSTANTS
  Executions = {e1, e2}
  NoExec = NoExec
  Workers = {w1, w2}
  Clients = {}
  Ops = {}
  MaxBoots = 2
  MaxStep = 2
  MaxFaults = 1
  MaxDrops = 1
  MaxIterations = 2
SYMMETRY Anonymous
CHECK_DEADLOCK FALSE
INVARIANTS
  TypeOK
  SoleEngine
PROPERTIES
  ImplementsQueue
