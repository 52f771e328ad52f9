SPECIFICATION FairSpec
CONSTANTS
  None = None
  Stranger = None
  Nicknames = {n1}
  Sessions = {s1, s2}
  Tasks = {t1, t2}
  Tokens = {k1}
  SourceIp <- TwoAddresses
  IdentityCapacity = 1
  MigrationTtl = 1
  ClockLag = 0
  MaxRetainDepth = 0
  MaxGeneration = 3
  MaxTransferId = 3
  MaxClock = 1
  MaxArrivalEpoch = 2
  IngressCapacity = 1
PROPERTIES
  DatagramKeepsItsGeneration
  MigrationRequestEnds
  OwnerlessIsReleased
CHECK_DEADLOCK FALSE
