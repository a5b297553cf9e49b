----------------------------- MODULE VirtualPool -----------------------------
(***************************************************************************)
(* The virtual AMM of one market as the trading facets use it: the price a *)
(* trade is executed at, the reserves after a trade, and the damped move   *)
(* of the quote reserve toward the oracle price.  A pool is the record     *)
(* [base, quote]; base = 0 is a market whose pool was never initialised.   *)
(***************************************************************************)
EXTENDS LibMath

CONSTANT DampingFactor        \* VirtualPool.dampingFactor, in bps

ASSUME DampingAssumption == DampingFactor \in 1..10000

markPrice(pool) == divFp(pool.quote, pool.base)

\* Base tokens a trade of sizeUsd moves, 0 when rounding swallows them.
BaseDelta(pool, sizeUsd, isLong) ==
    LET k == mulFp(pool.base, pool.quote)
    IN  IF isLong THEN SatSub(pool.base, divFp(k, pool.quote + sizeUsd))
                  ELSE SatSub(divFp(k, pool.quote - sizeUsd), pool.base)

\* The oracle price plus or minus the pool's spread over its mark price.
ExecutionPrice(pool, oraclePrice, sizeUsd, isLong) ==
    IF \/ pool.base = 0 \/ sizeUsd = 0
       \/ ~isLong /\ sizeUsd >= pool.quote
       \/ BaseDelta(pool, sizeUsd, isLong) = 0
    THEN oraclePrice
    ELSE LET vammPrice == divFp(sizeUsd, BaseDelta(pool, sizeUsd, isLong))
             spread == markPrice(pool) - vammPrice
         IN  IF vammPrice >= markPrice(pool) THEN oraclePrice - spread
             ELSE IF oraclePrice > spread THEN oraclePrice - spread ELSE 1

\* A buy (opening a long, closing a short) adds quote, a sell removes it,
\* down to 1; base follows so that base * quote stays k.
ApplyVirtualTrade(pool, sizeUsd, isBuy) ==
    IF pool.base = 0 THEN pool
    ELSE LET k == mulFp(pool.base, pool.quote)
             quote == IF isBuy THEN pool.quote + sizeUsd
                      ELSE IF pool.quote > sizeUsd THEN pool.quote - sizeUsd
                      ELSE 1
         IN  [base |-> IF quote > 0 THEN divFp(k, quote) ELSE pool.base,
              quote |-> quote]

\* Move the quote reserve DampingFactor of the way to base * oraclePrice.
SyncedPool(pool, oraclePrice) ==
    LET target == mulFp(pool.base, oraclePrice)
    IN  [pool EXCEPT !.quote =
            IF target > @ THEN @ + ((target - @) * DampingFactor) \div 10000
                          ELSE @ - ((@ - target) * DampingFactor) \div 10000]
==============================================================================
