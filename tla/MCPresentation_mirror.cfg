SPECIFICATION Spec
CONSTANTS
    Sources = {1, 2}
    PortOf <- TwoPorts
    HashOf <- OwnHash
    Chunks = 2
    GenMod = 4
    MaxEvents = 3
CHECK_DEADLOCK FALSE
INVARIANTS
    NewestProfileReadable
    ActivatedIsStored
PROPERTIES
    WantedIsShown
    OnlyDeviceIsCandidate
