----------------------------- MODULE MCDeployment -----------------------------
(* A diamond of seven facets.  getMarkPrice is in two pricing facets, as in *)
(* the contracts; the second release drops and adds a function of one.     *)
EXTENDS Deployment

MCFacets == {"DiamondCutFacet", "Loupe", "Position", "AMM", "PriceFeed", "Registry", "Multicall"}
MCSelectors == {"diamondCut", "facets", "open", "close", "removeCollateral", "getMarkPrice",
                "syncToOracle", "getTWAP", "admin", "executeCycle"}

Same(selectors) == <<selectors, selectors>>
MCCode ==
    [DiamondCutFacet |-> Same(<<"diamondCut">>),
     Loupe           |-> Same(<<"facets">>),
     Position        |-> << <<"open", "close">>, <<"open", "removeCollateral">> >>,
     AMM             |-> Same(<<"syncToOracle", "getMarkPrice">>),
     PriceFeed       |-> Same(<<"getMarkPrice", "getTWAP">>),
     Registry        |-> Same(<<"admin">>),
     Multicall       |-> << <<>>, <<"executeCycle">> >>]

MCCore == <<"Loupe">>
MCTrading == <<"Position">>
MCPricing == <<"AMM", "PriceFeed">>
MCSupport == <<"Registry">>
MCUpdated == <<"Position", "AMM">>
MCNew == <<"Multicall">>
\* All but the facet that is new in the second release.
MCExplored == MCFacets \ {"Multicall"}
MCInitialMarkets == <<"BTC">>
MCNewMarkets == <<"TSLA">>
MCTokens == <<"USDC">>

Scripts(names) == {[script |-> s] : s \in names}
MCRuns == Scripts({"deploy-all", "05", "06", "07", "08", "09", "upgrade-v2", "diagnose-oracle",
                   "verify-contracts"})
            \cup [script : {"upgrade-facet"}, facet : {"Position", "PriceFeed"},
                  mode : {"REPLACE", "ADD_NEW", "FULL"}]
MCSteps == Scripts({"01", "02", "03", "04", "05", "06"})
=============================================================================
