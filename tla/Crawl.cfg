SPECIFICATION MCSpec
CONSTANTS
  Urls = {"a", "b"}
  Versions = {"v1", "v2", "blank"}
  Size <- MCSize
  MaxContent = 2
  Callers = {c1, c2, c3}
  Keys = {"", "k"}
  Links <- MCLinks
  MaxPages = 2
  MaxConcurrent = 2
  MaxDisturbances = 1
SYMMETRY MCSymmetry
CHECK_DEADLOCK FALSE
INVARIANTS
  JobRowsTellTheTruth
  ReadsOneVersion
PROPERTIES
  HandOffHeals
