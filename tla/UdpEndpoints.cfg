SPECIFICATION Spec
CONSTANTS
    Riders = {a, b}
    Players = {a}
    Hosts = {h1, h2}
    Ports = {1, 2}
    MaxEpoch = 4
    MaxGeneration = 2
    Capacity = 1
    MaxActive = 1
    MaxWaiting = 1
INVARIANTS
    RoutesAreFresh
    AdvertisedIsCurrent
    WorldGoesOn
SYMMETRY Symmetry
