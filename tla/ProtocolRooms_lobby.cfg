SPECIFICATION FairSpec
CONSTANTS
    Riders = {a, b, w}
    Watchers = {}
    Referees = {w}
    Channels = {solo, team}
    TeamChannels = {team}
    ScoreChannels = {team}
    Slots = 2
    ObserverSlots = 1
    MaxRoom = 1
    MaxEpoch = 1
    MaxGeneration = 1
    MaxFilled = 2
    DidNotFinish = 1
INVARIANTS
    RoomsCoherent
PROPERTIES
    ArmedLoadingEnds
CHECK_DEADLOCK FALSE
