SPECIFICATION NetSpec
CONSTANTS
    asker = asker
    left = left
    right = right
    source = source
    Lifetime = 3
    Nodes = {asker, left, right, source}
    Names <- MCNames
    Tokens <- MCTokens
    LowerFaces = {"wlan"}
    UpperFaces = {"app"}
    Macs = {asker, left, right, source}
    Interests <- MCInterests
    DataPackets <- MCDataPackets
    PitMaxSize <- MCPitMaxSize
    FibMaxSize <- MCFibMaxSize
    CsMaxSize <- MCCsMaxSize
    EntryLifetime = 3
    RegisterLifetime = 20
    Forwarders = {left, right}
    CachesUnsolicited = {}
    MacMapping = "IU_DU"
    MacOf <- MCMacOf
    Broadcast = "ff"
    DefaultFace = "wlan"
    InterestDelays = {1}
    DataDelays = {1}
    MaxDelay = 1
    CheckPeriod = 3
    Horizon = 5
    MaxTime = 5
    Producers <- MCProducers
    PrefixOf <- MCPrefixOf
    Registering <- MCProducers
    DataFreshness <- MCDataFreshness
    ProducerStart <- MCStart
    ProducerStop <- MCNeverStops
    AnswerDelay = 0
    Consumers <- MCConsumers
    Wanted <- MCInterests
    Hears <- MCDiamond
    Lossy = TRUE
    MacDelay = 0
    MaxRepeats = 1
    MaxAsks = 2
    AskUntil = 5
    Crowded = TRUE
SYMMETRY MCRouters
INVARIANTS
    NetTypeOK
    BreadcrumbsLeadHome
    NoAnswerUnasked
