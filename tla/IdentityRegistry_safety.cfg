SPECIFICATION Spec
CONSTANTS
  None = None
  Stranger = s4
  Nicknames = {n1}
  Sessions = {s1, s2, s3, s4}
  Tasks = {t1, t2}
  Tokens = {k1}
  SourceIp <- TwoAddresses
  IdentityCapacity = 2
  MigrationTtl = 1
  ClockLag = 1
  MaxRetainDepth = 1
  MaxGeneration = 4
  MaxTransferId = 3
  MaxClock = 2
  MaxArrivalEpoch = 0
  IngressCapacity = 0
SYMMETRY Symmetry
INVARIANTS
  OperationsPinGeneration
  GenerationsAgree
  FreezeHasOneTicket
  OwnershipIsRecoverable
  NoLostDrainWakeup
PROPERTIES
  OwnershipMovesByPermit
  ImplementsFence
CHECK_DEADLOCK FALSE
