----------------------------- MODULE LibPosition -----------------------------
(***************************************************************************)
(* Position and fee arithmetic: libraries/LibPosition.sol, LibFee.sol and  *)
(* the stablecoin normalisation every trading facet repeats.  A position   *)
(* is the record of AppStorage.Position; only the fields an operator names *)
(* matter to it.                                                           *)
(***************************************************************************)
EXTENDS LibMath

CONSTANTS
    UsdScale,             \* token -> [mul, div]: 10^(18-decimals) as a ratio
    TakerFeeBps, MakerFeeBps, LiquidationFeeBps, InsuranceFeeBps

\* The bounds setFees enforces, and what 10^n can be.
ASSUME FeeAssumption ==
    /\ TakerFeeBps \in 0..1000 /\ MakerFeeBps \in 0..1000
    /\ LiquidationFeeBps \in 0..5000 /\ InsuranceFeeBps \in 0..BPS

ASSUME UsdScaleAssumption ==
    \A t \in DOMAIN UsdScale :
       UsdScale[t] \in [mul : Nat \ {0}, div : Nat \ {0}]

\* Profit or loss in USD at the given price, truncated twice toward zero.
calculatePnl(pos, price) ==
    IF pos.sizeUsd = 0 \/ pos.entryPrice = 0 THEN 0
    ELSE LET delta == IF pos.isLong THEN price - pos.entryPrice
                                    ELSE pos.entryPrice - price
         IN  mulFpSigned(pos.sizeUsd, divFpSigned(delta, pos.entryPrice))

Equity(pos, price) == pos.collateralUsd + calculatePnl(pos, price)

\* calculateMarginRatio(pos, price) < bps.  The code returns uint256's
\* maximum for a position without size, which is below no bound.
MarginBelow(pos, price, bps) ==
    /\ pos.sizeUsd # 0
    /\ \/ Equity(pos, price) <= 0 /\ 0 < bps
       \/ /\ Equity(pos, price) > 0
          /\ (Equity(pos, price) * BPS) \div pos.sizeUsd < bps

\* The requirements of validateLeverage.
LeverageAllowed(sizeUsd, collateralUsd, maxLeverage) ==
    /\ collateralUsd > 0
    /\ sizeUsd > 0
    /\ divFp(sizeUsd, collateralUsd) <= maxLeverage

calculateAverageEntryPrice_Unscaled(size, entry, addedSize, addedPrice) ==
    IF size + addedSize = 0 THEN 0
    ELSE (mulFp(size, entry) + mulFp(addedSize, addedPrice))
            \div (size + addedSize)

\* The division comes before the scaling back, as in the code: the result
\* is a whole multiple of ONE.
calculateAverageEntryPrice(size, entry, addedSize, addedPrice) ==
    IF size + addedSize = 0 THEN 0
    ELSE ((mulFp(size, entry) + mulFp(addedSize, addedPrice))
            \div (size + addedSize)) * ONE

normalizeToUsd(token, amount) ==
    (amount * UsdScale[token].mul) \div UsdScale[token].div
usdToTokens(token, usd) ==
    (usd * UsdScale[token].div) \div UsdScale[token].mul

\* Rounded up, so that no trade is free.
calculateTradingFee(sizeUsd, feeBps) == (sizeUsd * feeBps + 9999) \div BPS

calculateInsuranceContribution(fee) == (fee * InsuranceFeeBps) \div BPS

\* The penalty on what is left of the collateral and its split 60/40.
LiquidationPenalty(remaining) == (remaining * LiquidationFeeBps) \div BPS
KeeperReward(remaining) == (LiquidationPenalty(remaining) * 6000) \div BPS
InsurancePortion(remaining) ==
    LiquidationPenalty(remaining) - KeeperReward(remaining)

\* What a closing position is paid before the fee is taken off.
GrossPayout(token, collateral, pnl) ==
    IF pnl >= 0 THEN collateral + usdToTokens(token, pnl)
                ELSE SatSub(collateral, usdToTokens(token, -pnl))

Payout(token, collateral, pnl, fee) ==
    SatSub(GrossPayout(token, collateral, pnl), fee)
==============================================================================
