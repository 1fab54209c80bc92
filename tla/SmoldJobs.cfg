SPECIFICATION Spec
CONSTANTS
  Telnetd = telnetd
  Orphan = orphan
  NoPid = nopid
  NoJob = nojob
  Cmds = {"reboot"}
  Gettys = {0}
  Minions = {}
  WantTelnetd = FALSE
  Jobs = {dhcp}
  ByHand = {}
  Pids = {p1, p2, p3}
  StaleReuse = FALSE
  Races = TRUE
  MaxAsk = 2
  MaxTime = 3
SYMMETRY PidSymmetry
INVARIANTS
  NoJobOverlooked
  NoJobLeftBehind
  OneRenewal
PROPERTIES
  RemovedWhenDue
