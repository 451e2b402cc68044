\* one session for each kind of request; the client sends one unit after it, the server two
SPECIFICATION FairSpec
CONSTANTS
  Wants <- SomeWants
  Lookup <- SomeLookup
  Conf <- SomeConf
  MaxSend <- SomeSends
  Window = 2

CHECK_DEADLOCK FALSE
INVARIANTS
  TypeOK
  RequestIsUnderstood
  BindIsAnswered
  EveryAddressIsAnswered
  AcceptIsTrue
PROPERTIES
  RelaysAreStreams
  SessionEnds
