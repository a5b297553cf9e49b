\* Two cycles at once, two failures, a price out of reach in the middle.
CONSTANTS
    Slots = {1, 2}
    Markets = {0, 5}
    Sources = {"pyth", "orderly"}
    Source <- MCSource
    PriceAt <- MCPriceAt
    Digits <- MCDigits
    Decimals = 1
    MaxDeviationBps = 5000
    MaxRetries = 2
    AlertAfter = 2
    MaxFaults = 2
    MaxPending = 2
SPECIFICATION FairSpec
PROPERTIES
    StaleOnlyFromLate
    PricesPosted
    RefusalsAlerted
