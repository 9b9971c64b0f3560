\* Single build: two keys with room for one and a mouse button, or two consumer
\* usages, on two devices.
CONSTANTS
    i1 = i1 i2 = i2 k1 = k1 k2 = k2 b1 = b1 u1 = u1 u2 = u2
    Dual = FALSE
    Kinds = {"Keyboard", "Mouse", "Consumer"}
    HostCount = 2
    Keys = {k1, k2}
    Modifiers = {}
    Buttons = {b1}
    Usages = {u1, u2}
    KeyLimit = 1
    Interfaces = {i1, i2}
    DeviceOf <- OwnDevice
    Repertoires <- TypingOrRemote
    Leds = {"off"}
    Off = "off"
SPECIFICATION Spec
SYMMETRY Symmetry
CHECK_DEADLOCK FALSE
INVARIANTS
    HeldAcrossSwitchIsHidden
    NoStuckInput
PROPERTIES
    FreshPressIsShown
