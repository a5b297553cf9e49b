-------------------------- MODULE MCKeeperExecutor --------------------------
(* One market with an order and a position.                                  *)
EXTENDS KeeperExecutor

MCPriceAt == <<12, 10>>
\* Buys between 11 and 12.
MCOrderData == [j \in Orders |-> [orderType |-> "STOP_LIMIT", isLong |-> TRUE,
                                  triggerPrice |-> 11, limitPrice |-> 12]]
\* A short, liquidatable at 12, then safe at 10.
MCPosData == [j \in Accounts |-> [isLong |-> FALSE, sizeUsd |-> 100, entryPrice |-> 10,
                                  collateralUsd |-> 22, owed |-> 1]]
=============================================================================
