\* three slots, four queries, both projects
SPECIFICATION FairSpec
CONSTANTS
  Slot = {0, 1, 2}
  Queries <- SomeQueries
  Files <- SomeFiles
  Outputs <- SomeOutputs
  MaxPrompts = 3

CHECK_DEADLOCK FALSE
INVARIANTS
  TypeOK
  OneCommandPerPrompt
  NoCommandBeforeDeath
PROPERTIES
  PageEnds
