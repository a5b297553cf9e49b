SPECIFICATION KeeperSpec
CONSTANTS
    ONE = 4
    Users = {u1}
    Markets = {m1}
    Tokens = {usdc}
    NoUser = NoUser
    NoToken = NoToken
    UsdScale <- Dec18
    TakerFeeBps = 1000
    MakerFeeBps = 500
    LiquidationFeeBps = 5000
    InsuranceFeeBps = 10000
    MaxLeverage = 12
    MaintenanceMarginBps = 2000
    MaxOpenInterest = 12
    MinPositionSizeUsd = 4
    MaxPriceStaleness = 1
    MaxPriceDeviationBps = 5000
    DampingFactor = 5000
    AdlThreshold = 2
    InitialPool <- NoPool
    MaxPositions = 2
    StartTime = 2
    MaxTime = 2
    MaxSlotMargin = 8
    Prices = {6, 8}
    FundingRates = {0}
    Amounts = {8}
    VaultAmounts = {}
    Leverages = {4}
    CloseSizes = {}
    WalletFunds = 16
    TreasuryFunds = 0
    Switchable = {"market"}
    MaxOrders = 2
    OrderTypes = {"STOP_LIMIT", "TAKE_PROFIT", "STOP_LOSS"}
    OrderSizes = {8, 16}
    TriggerPrices = {8}
    MinOrderSizeUsd = 4
INVARIANTS
    OINeverOverstated
    TrackedBacked
    NetMode
    BookTypeOK
    ExecutedOnce
PROPERTIES
    ExecutedAtLimit
    PausedAddsNone
