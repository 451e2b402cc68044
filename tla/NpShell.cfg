\* npshell and np_simple: number pipes, batches, big outputs, lines that start no command
SPECIFICATION FairSpec
CONSTANTS
  Shells = {"npshell", "np_simple"}
  Depth = 4
  BatchSize = 2
  Lines <- SomeLines
  MaxLines = 4
CHECK_DEADLOCK FALSE
INVARIANTS
  TypeOK
  InputIsDue
  OutputIsAimed
  DescriptorsAreAccountedFor
  WaitsOnlyForEarlier
PROPERTIES
  LineCompletes
