SPECIFICATION PartsSpec
SYMMETRY ClientSymmetry
CONSTANTS
    Clients = {c1, c2, c3}
    Pair = {c1, c2}
    Ids <- MCIds
    NoId = "none"
    Parents = {"p"}
    Lanes <- MCLanes
    ProviderLane = "provider"
    Requests <- AllRequests
    NoRequest = NoRequest
    Configs <- CapacityConfigs
    InitConfig <- QueueConfig
    Deltas <- BudgetDeltas
    U64Max = 3
    MaxTicket = 4
INVARIANT LeavesAreConsistent
INVARIANT NoLostWakeup
INVARIANT ScopeBudgetsHold
PROPERTY FifoWithinClass
PROPERTY NoOvercommit
