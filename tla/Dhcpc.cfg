SPECIFICATION LiveSpec
CONSTANTS
  Servers = {s1}
  Terms <- TwoTerms
  Tries = 3
  RETRY_SECONDS = 60
  Nothing = nothing
  MaxRuns = 2
  MaxLost = 3
  MaxStray = 1
INVARIANTS
  TypeOK
  AckedAddress
  GaveUpForLoss
PROPERTIES
  AsksAgain
CHECK_DEADLOCK FALSE
