SPECIFICATION Spec
CONSTANTS
  Typed <- MCTyped
  BufSize = 5
  MaxLine = 3
  CmdLines <- MCCmdLines
  MaxTokens = 3
  ShellLines <- MCShellLines
  MaxStages = 3
  ImageJobs <- MCImageJobs
  Word = 2
  ImageBytes <- MCImageBytes
  BlockSize = 4
  MaxBody = 8
  MaxBlks = 2
  FlashJobs <- MCFlashJobs
  Erase = 4
  Page = 2
  Chunk = 2
  Blocks = 3
  FlashBytes <- MCFlashBytes
  Seconds = 2
  MaxQueue = 2
  Servers = 2
  MaxResults = 2
  Replies <- MCReplies
  Requests = 3
  PoolSize = 2
  Wrap = 16
  Delta = 7
  Times <- MCTimes
  ClockJobs <- MCClockJobs
  Minute = 2
  Hour = 4
  Day = 8
  Half = 1048576
  MaxTicks = 4
  NameJobs <- MCNameJobs
  FileBytes = {"x", "y", "z", "o"}
  FileRoom = 9
  Pids = {1, 2, 3}
  MaxStarts = 3
  Names = {"a", "b"}
  Tries = 3
  MaxLogins = 2
  MaxPlugs = 1
INVARIANTS
  TypeOK
  ReadsLines
  WordsAsWritten
  NothingHeld
  ImageAndDevice
  FlashAsAsked
  BadLeftAlone
  OwnAnswer
  ClocksRight
  NothingLost
  KeptLeftAlone
  HardwareGoes
PROPERTIES
  PromptAgain
  WaitsEnd
CHECK_DEADLOCK FALSE
