SPECIFICATION Spec
CONSTANTS
  Servers = {s1, s2}
  Terms <- OneTerm
  Tries = 6
  RETRY_SECONDS = 60
  Nothing = nothing
  MaxRuns = 1
  MaxLost = 0
  MaxStray = 0
INVARIANTS
  TriesWait
CHECK_DEADLOCK FALSE
