\* three connections for two ids
SPECIFICATION FairSpec
CONSTANTS
  Conn = {c1, c2, c3}
  NoConn = NoConn
  KMaxClient = 2
  Names = {n1}
  NoName = NoName
  Unknown = Unknown
  Left = Left
  Vars = {"V"}
  Commands <- SomeCommands
  Pieces <- SomePieces
  Leavers = {c1}
  MaxLines = 2
  MaxCuts = 1
CHECK_DEADLOCK FALSE
INVARIANTS
  NamesAreUnique
  NewsAreCurrent
  
  NoLineIsSwallowed

  
