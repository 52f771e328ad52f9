SPECIFICATION FairSpec
CONSTANTS
  Sessions = {s1}
  Talkers = {s1}
  Mishaps = {"connection", "transport", "force"}
  Asks = {"race"}
  Supervisor = Supervisor
  World = World
  Operator = Operator
  Callers = {s1, Supervisor, World, Operator}
  Waiters = {s1, Supervisor}
  OutboundCapacity = 1
  MaxActive = 3
PROPERTIES
  GracefulShutdownEnds
CHECK_DEADLOCK FALSE
