SPECIFICATION KeeperSpec
CONSTANTS
    ONE = 4
    Users = {u1, u2}
    Markets = {m1}
    Tokens = {usdc}
    NoUser = NoUser
    NoToken = NoToken
    UsdScale <- Dec18
    TakerFeeBps = 1000
    MakerFeeBps = 500
    LiquidationFeeBps = 5000
    InsuranceFeeBps = 10000
    MaxLeverage = 12
    MaintenanceMarginBps = 2000
    MaxOpenInterest = 20
    MinPositionSizeUsd = 4
    MaxPriceStaleness = 1
    MaxPriceDeviationBps = 5000
    DampingFactor = 5000
    AdlThreshold = 2
    InitialPool <- NoPool
    MaxPositions = 2
    StartTime = 2
    MaxTime = 2
    MaxSlotMargin = 8
    Prices = {6, 8}
    FundingRates = {0}
    Amounts = {8}
    VaultAmounts = {}
    Leverages = {8}
    CloseSizes = {}
    WalletFunds = 8
    TreasuryFunds = 0
    Switchable = {}
    MaxOrders = 1
    OrderTypes = {"LIMIT", "TAKE_PROFIT", "STOP_LOSS"}
    OrderSizes = {16}
    TriggerPrices = {6, 8}
    MinOrderSizeUsd = 4
PROPERTIES
    SkippedLeavesNothing
