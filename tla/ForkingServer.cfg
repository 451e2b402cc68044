\* three connections, each of the three servers
SPECIFICATION FairSpec
CONSTANTS
  Conn = {c1, c2, c3}
  Parent = Parent
  NoConn = NoConn
  Kinds = {"http", "socks", "simple"}

CHECK_DEADLOCK FALSE
INVARIANTS
  NoZombieIsForgotten
  SocketsAreNotShared
PROPERTIES
  EveryoneIsServed
