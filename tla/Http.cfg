SPECIFICATION LiveSpec
CONSTANTS
  c1 = c1
  Conns <- MCConns
  Kinds <- All
  MaxClients = 2
  MaxRetries = 2
  MaxFiles = 1
  FileChunks = 2
  MaxRequests = 3
  MayFail = TRUE
INVARIANTS CountIsSessions NothingLost
PROPERTIES ClosesWhole AnswerEnds IdleEnds FilesReturn
