SPECIFICATION Spec
CONSTANTS
    ONE = 4
    Users = {u1}
    Markets = {m1}
    Tokens = {usdc}
    NoUser = NoUser
    NoToken = NoToken
    UsdScale <- Dec6
    TakerFeeBps = 1000
    MakerFeeBps = 500
    LiquidationFeeBps = 5000
    InsuranceFeeBps = 10000
    MaxLeverage = 12
    MaintenanceMarginBps = 2000
    MaxOpenInterest = 80
    MinPositionSizeUsd = 4
    MaxPriceStaleness = 1
    MaxPriceDeviationBps = 5000
    DampingFactor = 5000
    AdlThreshold = 2
    InitialPool <- NoPool
    MaxPositions = 1
    StartTime = 2
    MaxTime = 2
    MaxSlotMargin = 8
    Prices = {8}
    FundingRates = {0}
    Amounts = {4, 7}
    VaultAmounts = {2}
    Leverages = {8}
    CloseSizes = {5, 7}
    WalletFunds = 12
    TreasuryFunds = 2
    Switchable = {}
INVARIANTS
    TrackedBacked
    
