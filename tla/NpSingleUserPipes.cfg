\* user pipes, exits, lines that stop half way, reuse of ids, and a third client for two ids
SPECIFICATION Spec
CONSTANTS
  Conn = {c1, c2, c3}
  NoConn = NoConn
  KMaxClient = 2
  Lines <- UserPipeLines
  MaxLines = 3
SYMMETRY Symmetry
CHECK_DEADLOCK FALSE
INVARIANTS
  PipesBelongToTheLiving
  NoCrossTalk
