SPECIFICATION LiveSpec
CONSTANTS
  MaxSessions = 2
  QueueSize = 2
  BufSize = 2
  MinRead = 1
  ClientBytes <- Text
  ShellBytes <- Text
  SockRoom = 1
  PtyRoom = 1
  MaxConns = 2
  Readers = {2}
  MaxSend <- FewSends
  MaxSay <- FewSays
PROPERTIES
  BytesGetThere
CHECK_DEADLOCK FALSE
