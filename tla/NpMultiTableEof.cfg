\* a client that closes its connection
SPECIFICATION Spec
CONSTANTS
  Proc = {p1, p2}
  NoProc = NoProc
  KMaxClient = 2
  Commands = {"hangup"}
  Names = {}
  NoName = NoName
  NoMsg = NoMsg
  Off = Off
  MaxCommands = 0
CHECK_DEADLOCK FALSE
INVARIANTS
  RowsOfTheLiving
