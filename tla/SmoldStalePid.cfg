SPECIFICATION Spec
CONSTANTS
  Telnetd = telnetd
  Orphan = orphan
  NoPid = nopid
  NoJob = nojob
  Cmds = {"reboot"}
  Gettys = {0}
  Minions = {}
  WantTelnetd = TRUE
  Jobs = {}
  ByHand = {}
  Pids = {p1, p2}
  StaleReuse = TRUE
  Races = TRUE
  MaxAsk = 0
  MaxTime = 0
SYMMETRY PidSymmetry
PROPERTIES
  LeftAlone
