SPECIFICATION LiveSpec
CONSTANTS
  Telnetd = telnetd
  Orphan = orphan
  NoPid = nopid
  NoJob = nojob
  Cmds = {"reboot"}
  Gettys = {0}
  Minions = {}
  WantTelnetd = FALSE
  Jobs = {}
  ByHand = {}
  Pids = {p1}
  StaleReuse = FALSE
  Races = TRUE
  MaxAsk = 0
  MaxTime = 0
PROPERTIES
  ShutdownObeyed
