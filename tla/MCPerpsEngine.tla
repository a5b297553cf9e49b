---------------------------- MODULE MCPerpsEngine ----------------------------
(* One market whose price rises out of reach and comes back, two orders, the *)
(* first of which reverts the batch when its turn comes, and one position.   *)
EXTENDS PerpsEngine

OrderDef(type, long, trigger, limit) ==
    [orderType |-> type, isLong |-> long, triggerPrice |-> trigger, limitPrice |-> limit]

\* Prices 10, 16 and 12: a decimal more than the chain keeps, a row without a
\* mark price, one with the last price alone.
Row(mark, index, last, digits) == [mark |-> mark, index |-> index, last |-> last, digits |-> digits]
MCQuoteAt == <<Row(104, 110, -1, 2), Row(-1, 16, 15, 1), Row(-1, -1, 12, 1)>>
MCFeedAt == <<[price |-> 104, digits |-> 2], [price |-> 16, digits |-> 1], [price |-> 12, digits |-> 1]>>
\* Order 1 stops out a short above 11; order 2 buys at 12 or below.
MCOrderData == [j \in Orders |-> IF j = 1 THEN OrderDef("STOP_LOSS", FALSE, 11, 11)
                                          ELSE OrderDef("LIMIT", TRUE, 12, 12)]
\* Order 1 sells when the price falls to 12, at any price: its limit is zero.
MCStopLimitData == [j \in Orders |-> OrderDef("STOP_LIMIT", FALSE, 12, 0)]
\* A short: safe at 10, liquidatable at 12.
MCPosData == [j \in Accounts |-> [isLong |-> FALSE, sizeUsd |-> 100, entryPrice |-> 10,
                                  collateralUsd |-> 22, owed |-> 1]]
==============================================================================
