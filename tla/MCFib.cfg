SPECIFICATION FibSpec
CONSTANTS
    Nodes = {n1}
    Names <- MCNames
    Tokens <- MCTokens
    LowerFaces = {wlan}
    UpperFaces = {app}
    Macs = {m1}
    FibMaxSize <- MCFibMaxSize
    Interests = {}
    DataPackets <- MCDataPackets
    EntryLifetime = 3
    RegisterLifetime = 7
    CheckPeriod = 2
    Horizon = 3
    MaxTime = 9
INVARIANTS
    FibTypeOK
    FibFirstMatchIsLongest
    FibNoOverdueRoute
PROPERTIES
    FibBindingsArePermanent
