\* user pipes between two rows, three clients for them
SPECIFICATION Spec
CONSTANTS
  Proc = {p1, p2, p3}
  NoProc = NoProc
  KMaxClient = 2
  Lines <- PipeLines
  MaxLines = 3
  MaxShared = 2
  MaxHangups = 2

SYMMETRY Symmetry
CHECK_DEADLOCK FALSE
INVARIANTS
  NoInheritedPipe
  PipeIsReadable
  CleanInput
  ExitForgetsPipes
