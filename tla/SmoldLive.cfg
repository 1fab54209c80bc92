SPECIFICATION LiveSpec
CONSTANTS
  Telnetd = telnetd
  Orphan = orphan
  NoPid = nopid
  NoJob = nojob
  Cmds = {"reboot"}
  Gettys = {0}
  Minions = {}
  WantTelnetd = FALSE
  Jobs = {dhcp}
  ByHand = {}
  Pids = {p1, p2}
  StaleReuse = FALSE
  Races = FALSE
  MaxAsk = 2
  MaxTime = 2
PROPERTIES
  JobTaken
  GettyBack
  ShutdownObeyed
