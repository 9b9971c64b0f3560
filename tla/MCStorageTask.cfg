CONSTANTS
    InputCap = 2
    CommandCap = 2
    NormalDelay = 1
    LazyDelay = 2
    ActiveRetry = 1
    ForceAfter = 2
    RetryBase = 1
    RetryMax = 2
    FailureLimit = 2
    Handshake = 2
    StorageOperation = 3
    UsbOperation = 4
    EnumMax = 2
    Backends <- FlashMayBeMissing
    MaxGen = 3
    Burst = 1
    MaxFailures = 1
    StartGens <- FirstGens
SPECIFICATION Spec
INVARIANTS
    NoHandshakeTimesOut
    QuietWhileBusy
PROPERTIES
    StoredIsCurrent
    StagedIsWritten
