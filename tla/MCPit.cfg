SPECIFICATION PitFairSpec
CONSTANTS
    Nodes = {n1}
    Names <- MCNames
    Tokens <- MCTokens
    LowerFaces = {wlan}
    UpperFaces = {app}
    Macs = {m1}
    PitMaxSize <- MCPitMaxSize
    Interests <- MCInterests
    DataPackets = {}
    CheckPeriod = 2
    Horizon = 5
    MaxTime = 11
INVARIANTS
    PitTypeOK
    PitNoOverdueEntry
PROPERTIES
    PitDrains
