\* number pipes of both signs, ordinary pipes, more output than a pipe holds
SPECIFICATION FairSpec
CONSTANTS
  Conn = {c1}
  NoConn = NoConn
  KMaxClient = 1
  Lines <- BigLines
  MaxLines = 4

CHECK_DEADLOCK FALSE
INVARIANTS
  OutputIsWired
  WaitsOnlyForEarlier
PROPERTIES
  NoOutputDropped
  LineCompletes
