SPECIFICATION Spec
CONSTANTS
    Selectors <- MCSelectors
    MaxAddress = 18
    Facets <- MCFacets
    Code <- MCCode
    CoreFacets <- MCCore
    TradingFacets <- MCTrading
    PricingFacets <- MCPricing
    SupportFacets <- MCSupport
    UpdatedFacets <- MCUpdated
    NewFacets <- MCNew
    InitialMarkets <- MCInitialMarkets
    NewMarkets <- MCNewMarkets
    Tokens <- MCTokens
    CutSelector = "diamondCut"
    AdminSelector = "admin"
    LoupeSelector = "facets"
    Explored <- MCExplored
    Purse = 2
    Runs <- MCRuns
    MaxRuns = 5
    MaxFaults = 2
CHECK_DEADLOCK FALSE
INVARIANTS
    LoupeConsistent
    ManifestTrue
    PoolHasPrice
PROPERTIES
    ServiceKept
    DeployAllCompletes
