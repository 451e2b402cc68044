\* npshell: a line waits for the children of a number pipe
SPECIFICATION Spec
CONSTANTS
  Shells = {"npshell"}
  Depth = 4
  BatchSize = 2
  Lines <- SomeLines
  MaxLines = 2

CHECK_DEADLOCK FALSE
INVARIANTS
  NumberPipesAreNotWaitedFor
