SPECIFICATION NicFairSpec
CONSTANTS
    a = a
    b = b
    c = c
    Nodes = {a, b, c}
    Broadcast = "ff"
    Multicast = "mc"
    Frames <- MCTriangle
    UseAck = TRUE
    PrioritizeByUP = FALSE
    MaxQueueSize = 2
    RetryLimit = 1
    CwMin = 1
    CwMax = 2
    CwMulticast = 1
    SlotTime = 1
    SifsTime = 1
    DifsTime = 3
    AckTimeout = 3
    DataTime = 2
    AckTime = 1
    Hears <- MCMesh
    MaxTransmissions = 3
INVARIANTS
    CurrentFrameIsSent
    AcksAreProtected
PROPERTIES
    GivesUpAfterAllRetries
    ImplementsLink
