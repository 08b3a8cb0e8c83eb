SPECIFICATION FairSpec
CONSTANTS
  Message <- MCMessage
  MaxMessages = 2
  MaxConn = 2
  BufSize = 4
  MaxRead = 2
  KeepAlive = {TRUE, FALSE}
INVARIANTS TypeOK BytesExact StopServesOneMore
PROPERTIES HeaderKept ConnectionEnds
CHECK_DEADLOCK FALSE
