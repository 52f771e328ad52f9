SPECIFICATION Spec
CONSTANTS
  Sessions = {s1, s2}
  Talkers = {s1}
  Mishaps = {"connection", "pump"}
  Asks = {"publish", "write", "race"}
  Supervisor = Supervisor
  World = World
  Operator = Operator
  Callers = {s1, s2, Supervisor, World, Operator}
  Waiters = {s1, s2, Supervisor}
  OutboundCapacity = 1
  MaxActive = 5
INVARIANTS
  SealedAfterProducers
  GuardsMatchWork
  RequestsFinishBeforeQuiesce
  PublicationsWrittenBeforeTeardown
CHECK_DEADLOCK FALSE
