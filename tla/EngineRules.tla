----------------------------- MODULE EngineRules -----------------------------
(***************************************************************************)
(* The arithmetic of the perps-engine: the price it reads from a source's  *)
(* answer, when its scanners pick an order or a position, and the rules    *)
(* the KeeperMulticallFacet applies to what is submitted.                  *)
(***************************************************************************)
EXTENDS Integers

BPS == 10000

\* BigInt division truncates toward zero.
Trunc(a, b) == IF a >= 0 THEN a \div b ELSE -((-a) \div b)

\* _normalize: a value whose last digits are decimals, with the number of
\* decimals of the chain; digits too fine for it are cut off.
normalize(value, digits, decimals) ==
    IF digits <= decimals THEN value * 10 ^ (decimals - digits)
                          ELSE value \div 10 ^ (digits - decimals)

\* _toPrice18: the whole part, and the decimals padded or cut.
toPrice18(value, digits, decimals) ==
    (value \div 10 ^ digits) * 10 ^ decimals
        + normalize(value % 10 ^ digits, digits, decimals)

\* The two fetchPrices: a market's price from its feed or its row, 0 if it is
\* left out of the result.  Orderly's mark price stands before its index price,
\* and that before the last one; a field the source does not send is -1.
Positive(price) == IF price > 0 THEN price ELSE 0
pythPrice(feed, decimals) == Positive(normalize(feed.price, feed.digits, decimals))
orderlyPrice(row, decimals) ==
    LET raw == IF row.mark # -1 THEN row.mark ELSE IF row.index # -1 THEN row.index ELSE row.last
    IN  IF raw <= 0 THEN 0 ELSE Positive(toPrice18(raw, row.digits, decimals))

\* Bought low or stopped out on a fall, against the other way round.
Crossed(order, price) ==
    IF (order.orderType \in {"LIMIT", "STOP_LOSS"}) = order.isLong
    THEN price <= order.triggerPrice
    ELSE price >= order.triggerPrice

Within(isLong, price, limit) == IF isLong THEN price <= limit ELSE price >= limit

\* KeeperMulticallFacet._checkTrigger
checkTrigger(order, price) ==
    /\ Crossed(order, price)
    /\ order.orderType = "STOP_LIMIT" => Within(order.isLong, price, order.limitPrice)

\* OrderScanner._isTriggered: limitPrice || triggerPrice, so a limit of zero
\* counts as not given.
isTriggered(order, price) ==
    /\ Crossed(order, price)
    /\ order.orderType = "STOP_LIMIT" =>
          Within(order.isLong, price,
                 IF order.limitPrice = 0 THEN order.triggerPrice ELSE order.limitPrice)

Pnl(pos, price) ==
    Trunc((IF pos.isLong THEN price - pos.entryPrice ELSE pos.entryPrice - price)
             * pos.sizeUsd, pos.entryPrice)

MarginBps(pos, price, owed) ==
    LET equity == pos.collateralUsd + Pnl(pos, price) - owed
    IN  IF pos.sizeUsd = 0 \/ pos.entryPrice = 0 \/ equity <= 0 THEN 0
        ELSE (equity * BPS) \div pos.sizeUsd

\* LiquidationScanner counts the funding a position owes, the cycle on the
\* chain does not.
scanLiquidatable(pos, price, maintenance) == MarginBps(pos, price, pos.owed) < maintenance
cycleLiquidates(pos, price, maintenance) == MarginBps(pos, price, 0) < maintenance

\* _pushPrices: how far one posting may move a price.
WithinDeviation(old, new, maxBps) ==
    LET delta == IF new > old THEN new - old ELSE old - new
    IN  old = 0 \/ maxBps = 0 \/ (delta * BPS) \div old <= maxBps
==============================================================================
