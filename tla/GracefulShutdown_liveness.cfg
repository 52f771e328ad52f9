SPECIFICATION FairSpec
CONSTANTS
  Sessions = {s1}
  Talkers = {s1}
  Mishaps = {"connection", "transport", "pump", "force"}
  Asks = {"publish", "write", "race"}
  Supervisor = Supervisor
  World = World
  Operator = Operator
  Callers = {s1, Supervisor, World, Operator}
  Waiters = {s1, Supervisor}
  OutboundCapacity = 1
  MaxActive = 3
PROPERTIES
  ShutdownEnds
CHECK_DEADLOCK FALSE
