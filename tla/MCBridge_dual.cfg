\* Dual build: two BLE hosts and Wired, a key, the keyboard LEDs.
CONSTANTS
    i1 = i1 i2 = i2 k1 = k1 k2 = k2 b1 = b1 u1 = u1 u2 = u2
    Dual = TRUE
    Kinds = {"Keyboard"}
    HostCount = 2
    Keys = {k1}
    Modifiers = {}
    Buttons = {}
    Usages = {}
    KeyLimit = 1
    Interfaces = {i1}
    DeviceOf <- OwnDevice
    Repertoires <- AllControls
    Leds = {"off", "caps"}
    Off = "off"
SPECIFICATION Spec
CHECK_DEADLOCK FALSE
INVARIANTS
    
    LedsFollowTarget
    
