\* the lines of test_case/t1.txt
SPECIFICATION Spec
CONSTANTS
  Conn = {c1}
  NoConn = NoConn
  KMaxClient = 1
  Lines <- TestLines
  MaxLines = 2
SYMMETRY Symmetry
CHECK_DEADLOCK FALSE
INVARIANTS
  OrdinaryPipeIsWired
