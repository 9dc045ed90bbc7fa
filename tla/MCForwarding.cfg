SPECIFICATION FwdSpec
CONSTANTS
    n1 = n1
    m1 = m1
    m2 = m2
    Nodes = {n1}
    Names <- MCNames
    Tokens <- MCTokens
    LowerFaces = {"wlan"}
    UpperFaces = {"app"}
    Macs = {"m0", m1}
    Interests <- MCInterests
    DataPackets <- MCDataPackets
    PitMaxSize <- MCPitMaxSize
    FibMaxSize <- MCFibMaxSize
    CsMaxSize <- MCCsMaxSize
    EntryLifetime = 2
    RegisterLifetime = 4
    Forwarders = {n1}
    CachesUnsolicited = {n1}
    MacMapping = "IU_DU"
    MacOf <- MCMacOf
    Broadcast = "ff"
    DefaultFace = "wlan"
    InterestDelays = {0, 1}
    DataDelays = {0, 1}
    MaxDelay = 1
    CheckPeriod = 2
    Horizon = 3
    MaxTime = 5
INVARIANTS
    FwdTypeOK
    UniquePitNames
    NothingFreshIsPending
PROPERTIES
    PendingIsAccountedFor
