SPECIFICATION Spec
CONSTANTS
    Riders = {a, b}
    Watchers = {}
    Referees = {}
    Channels = {solo, other}
    TeamChannels = {}
    ScoreChannels = {}
    Slots = 2
    ObserverSlots = 0
    MaxRoom = 2
    MaxEpoch = 2
    MaxGeneration = 2
    MaxFilled = 0
    DidNotFinish = 0
SYMMETRY Symmetry
INVARIANTS
    MembershipCoherent
    LanesMatchRosters
    RacesAreAttended
PROPERTIES
    FinishesAreExact
CHECK_DEADLOCK FALSE
