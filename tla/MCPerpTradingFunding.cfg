SPECIFICATION Spec
CONSTANTS
    ONE = 4
    Users = {u1}
    Markets = {m1}
    Tokens = {usdc}
    NoUser = NoUser
    NoToken = NoToken
    UsdScale <- Dec18
    TakerFeeBps = 1000
    MakerFeeBps = 500
    LiquidationFeeBps = 5000
    InsuranceFeeBps = 10000
    MaxLeverage = 12
    MaintenanceMarginBps = 2000
    MaxOpenInterest = 40
    MinPositionSizeUsd = 4
    MaxPriceStaleness = 1
    MaxPriceDeviationBps = 5000
    DampingFactor = 5000
    AdlThreshold = 2
    InitialPool <- SmallPool
    MaxPositions = 1
    StartTime = 2
    MaxTime = 4
    MaxSlotMargin = 8
    Prices = {8}
    FundingRates <- Rates
    Amounts = {8}
    VaultAmounts = {}
    Leverages = {8}
    CloseSizes = {7}
    WalletFunds = 8
    TreasuryFunds = 0
    Switchable = {}
INVARIANTS
    
    LiquidationsSeen
