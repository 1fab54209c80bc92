SPECIFICATION Spec
CONSTANTS
  MaxSessions = 1
  QueueSize = 4
  BufSize = 4
  MinRead = 1
  ClientBytes <- ClientAlphabets
  ShellBytes <- ShellAlphabets
  SockRoom = 2
  PtyRoom = 1
  MaxConns = 3
  Readers = {1, 2, 3}
  MaxSend <- Sends
  MaxSay <- Says
INVARIANTS
  TypeOK
  ShellInput
  ClientOutput
PROPERTIES
  EndsWhenLost
CHECK_DEADLOCK FALSE
