SPECIFICATION Spec
CONSTANTS
  Telnetd = telnetd
  Orphan = orphan
  NoPid = nopid
  NoJob = nojob
  Cmds = {}
  Gettys = {0, 1}
  Minions = {8}
  WantTelnetd = TRUE
  Jobs = {}
  ByHand = {}
  Pids = {p1, p2, p3}
  StaleReuse = TRUE
  Races = TRUE
  MaxAsk = 0
  MaxTime = 1
SYMMETRY PidSymmetry
INVARIANTS
  TypeOK
  OneEach
  Supervised
PROPERTIES
  LeftAloneTillReuse
