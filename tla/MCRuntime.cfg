SPECIFICATION Spec
CONSTANTS
    Hosts = {1, 2}
    Interfaces = {1, 2, 3}
    DeviceOf <- MCDeviceOf
    Identities = {"k1", "k2", "k3"}
    Capacity = 2
    PairingTimeout = 2
    Generations = 4
    LastEvent = 1
    Horizon = 4
    Requests <- MCRequests
    Scenarios <- MCScenarios
CHECK_DEADLOCK FALSE

    
    
PROPERTIES
    
    OnlyRequestsForget
    DeadlinesAreKept
