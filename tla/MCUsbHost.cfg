SPECIFICATION Spec
CONSTANTS
    Ports = {p0, p1}
    Fates <- MCFates
    DeviceMax = 3
    InterfaceMax = 3
    SlotMax = 2
    ReaderCap = 2
    RuntimeCap = 2
    CommandCap = 2
    Attempts = 2
    MaxEvents = 3
CHECK_DEADLOCK FALSE
INVARIANTS
    TopologyAgrees
    RuntimeAgrees
    MovementKeepsItsButtons
PROPERTIES
    UnpluggedIsForgotten
