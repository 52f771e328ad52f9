SPECIFICATION Spec
CONSTANTS
    Users = {u1, u2}
    NoUser = NoUser
    MaxGeneration = 2
    MaxEpoch = 2
    MaxAttempt = 3
    MaxFailures = 2
    MaxWorkers = 2
SYMMETRY Symmetry
INVARIANTS
      CreditedOnce
    WorldNeverAhead
      CurrentRewardsAccepted
CHECK_DEADLOCK FALSE
