SPECIFICATION ConsumerFairSpec
CONSTANTS
    Nodes = {n1}
    HistorySize = 2
    NumInterests = 4
    InterestReTx = 1
    InterestLifetime = 1
    SendInterval = 3
    StartTime = 1
    StopTime <- MCNever
    RetxDelays = {0, 1}
    MaxRetxDelay = 1
    SeqNos = {0, 1, 5}
    Uninitialized = {0, 7}
    CheckPeriod = 1
    Horizon = 0
    MaxTime = 17
INVARIANTS
    ConsumerTypeOK
    SlotsAreTheirOwn
    NoneOutlivesPatience
PROPERTIES
    GivesUpByOwnCount
    StatisticsAreReal
    ConsumerFinishes
