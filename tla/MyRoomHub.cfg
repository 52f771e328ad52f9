SPECIFICATION Spec
CONSTANTS
    a = a
    b = b
    c = c
    d = d
    None = None
    Riders = {a, b, c, d}
    Seats = {1}
    Policies = {open, shut}
    RoomLocked = {shut}
    ItemsLocked = {shut}
    Default = open
    Resources = {items}
    OwnerItems = items
    Capacity = 3
    Last <- Generation
    Readers = {a}
    Editors = {c}
    Reporters = {b}
INVARIANTS
    HubIsSound
    PresenceIsCurrent
    StopsHaveACause
PROPERTIES
    ReadsAreEntitled
CHECK_DEADLOCK FALSE
