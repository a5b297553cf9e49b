\* Two faults: one to leave a hole in the nonces, one to meet it.
CONSTANTS
    Markets = {1}
    Orders = {3}
    Accounts = {4}
    OrderData <- MCOrderData
    PosData <- MCPosData
    Old = {3}
    PriceAt <- MCPriceAt
    MaintenanceBps = 250
    MaxRetries = 2
    MaxFaults = 2
SPECIFICATION FairSpec
INVARIANTS
    NonceTroubleHeals
PROPERTIES
    JobsKnown
