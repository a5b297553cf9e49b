\* Two cycles at once, the lists refreshed between them, a job older than the
\* fallback's window, one order whose execution reverts the batch; the second
\* price is out of one posting's reach from the first.
CONSTANTS
    Slots = {1, 2}
    Orders = {1}
    Accounts = {3}
    OrderData <- MCOrderData
    PosData <- MCPosData
    Poison = {1}
    Old = {3}
    QuoteAt <- MCQuoteAt
    Source = "orderly"
    Decimals = 1
    MaxDeviationBps = 5000
    MaintenanceBps = 250
    PageCap = 2
    MaxRetries = 2
    RefreshEvery = 1
    AlertAfter = 2
    MaxFaults = 1
    MaxPending = 2
SPECIFICATION FairSpec
PROPERTIES
    StaleOnlyFromLate
    PricesFlow
    JobsServed
    StuckIsAlerted
