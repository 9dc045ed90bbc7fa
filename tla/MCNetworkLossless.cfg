SPECIFICATION NetFairSpec
CONSTANTS
    asker = asker
    left = left
    right = right
    source = source
    Lifetime = 7
    Nodes = {asker, left, right, source}
    Names <- MCNames
    Tokens <- MCTokens
    LowerFaces = {"wlan"}
    UpperFaces = {"app"}
    Macs = {asker, left, right, source}
    Interests <- MCInterests
    DataPackets <- MCDataPackets
    PitMaxSize <- MCPitMaxSize
    FibMaxSize <- MCFibMaxSize
    CsMaxSize <- MCCsMaxSize
    EntryLifetime = 3
    RegisterLifetime = 20
    Forwarders = {left, right}
    CachesUnsolicited = {}
    MacMapping = "IU_DU"
    MacOf <- MCMacOf
    Broadcast = "ff"
    DefaultFace = "wlan"
    InterestDelays = {1, 2}
    DataDelays = {0, 1}
    MaxDelay = 2
    CheckPeriod = 20
    Horizon = 17
    MaxTime = 17
    Producers <- MCProducers
    PrefixOf <- MCPrefixOf
    Registering <- MCProducers
    DataFreshness <- MCDataFreshness
    ProducerStart <- MCStart
    ProducerStop <- MCNeverStops
    AnswerDelay = 1
    Consumers <- MCConsumers
    Wanted <- MCInterests
    Hears <- MCDiamond
    Lossy = FALSE
    MacDelay = 1
    MaxRepeats = 0
    MaxAsks = 2
    AskUntil = 5
    Crowded = FALSE
PROPERTIES
    NetImplementsForwarding
    AskedIsAnswered
