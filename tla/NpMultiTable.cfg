\* two clients use all commands, and leave one way or the other
SPECIFICATION Spec
CONSTANTS
  Proc = {p1, p2}
  NoProc = NoProc
  KMaxClient = 2
  Commands = {"yell", "tell", "exit", "hangup", "name"}
  Names = {n1}
  NoName = NoName
  NoMsg = NoMsg
  Off = Off
  MaxCommands = 1
CHECK_DEADLOCK FALSE
INVARIANTS
  MailIsShownOnce
  NamesAreUnique
PROPERTIES
  TakesOnlyInWindow
  MasterFallsInAWindow
