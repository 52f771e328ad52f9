SPECIFICATION FairSpec
CONSTANTS
  None = None
  Tasks = {t1, t2, t3}
  Closers = {supervisor, operator}
  Waiters = {supervisor, session}
  Callers = {t1, t2, t3, supervisor, operator, session}
  MaxActive = 2
INVARIANTS
  NoLostGateWakeup
  DrainIsFinal
  GuardsCounted
PROPERTIES
  DrainWaitEnds
CHECK_DEADLOCK FALSE
