SPECIFICATION ConsumerSpec
CONSTANTS
    Nodes = {n1}
    HistorySize = 2
    NumInterests = 3
    InterestReTx = 1
    InterestLifetime = 2
    SendInterval = 1
    StartTime = 1
    StopTime <- MCNever
    RetxDelays = {0, 1}
    MaxRetxDelay = 1
    SeqNos = {0, 1, 5}
    Uninitialized = {0, 7}
    CheckPeriod = 1
    Horizon = 0
    MaxTime = 12
PROPERTIES
    GivesUpByOwnCount
