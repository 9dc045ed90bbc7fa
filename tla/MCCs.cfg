SPECIFICATION CsSpec
CONSTANTS
    Nodes = {n1}
    Names <- MCNames
    Tokens <- MCTokens
    LowerFaces = {wlan}
    UpperFaces = {app}
    Macs = {m1}
    CsMaxSize <- MCCsMaxSize
    Interests = {}
    DataPackets <- MCDataPackets
    CheckPeriod = 2
    Horizon = 5
    MaxTime = 11
INVARIANTS
    CsTypeOK
    CsFreshnessBounded
    CsNotStaleEarly
    CsNamesUnique
PROPERTIES
    CsEvictsOldestOnly
