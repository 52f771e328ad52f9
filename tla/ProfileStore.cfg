SPECIFICATION Spec
CONSTANTS
    Stores = {s1, s2}
    Requests = {r1, r2, r3, r4}
    Damaged = Damaged
    NoRequest = NoRequest
    Load = Load
    Retention = 3
    MaxRevision = 6
SYMMETRY Symmetry
INVARIANTS
      PromisesSurvive
    RetentionHolds
PROPERTIES
    ReadableStaysReadable
    ImplementsRegister
CHECK_DEADLOCK FALSE
