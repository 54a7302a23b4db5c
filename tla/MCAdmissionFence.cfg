SPECIFICATION TimedSpec
CONSTANTS
    Clients = {c1, c2}
    Ids <- MCIds
    NoId = "none"
    Parents = {"p"}
    Lanes <- MCLanes
    ProviderLane = "provider"
    Requests <- QueueRequests
    NoRequest = NoRequest
    Configs <- NoConfigs
    InitConfig <- QueueConfig
    Deltas <- NoDeltas
    U64Max = 3
    MaxTicket = 4
PROPERTIES
    EvictedWaiterSeesFence
