------------------------------ MODULE OrderBook ------------------------------
(***************************************************************************)
(* OrderBookFacet over the trading core: orders that open a position when  *)
(* the oracle price triggers them (LIMIT, STOP_LIMIT) and orders placed on *)
(* a position to close it (TAKE_PROFIT, STOP_LOSS).  Placing locks nothing *)
(* and reserves nothing: between placement and execution the owner may     *)
(* withdraw the collateral, open a position by hand, or see the market     *)
(* paused, and executeOrder has to look at all of it again.                *)
(* Order.leverage is stored for events only and left out.                  *)
(***************************************************************************)
EXTENDS PerpTrading

CONSTANTS
    MaxOrders,                    \* bound on order ids
    OrderTypes,                   \* the kinds of order that are placed
    OrderSizes, TriggerPrices,    \* inputs of the users
    MinOrderSizeUsd

OpeningTypes == {"LIMIT", "STOP_LIMIT"}
ClosingTypes == {"TAKE_PROFIT", "STOP_LOSS"}

ASSUME OrderAssumption ==
    /\ MaxOrders \in Nat /\ MinOrderSizeUsd \in Nat
    /\ OrderTypes \subseteq OpeningTypes \cup ClosingTypes
    /\ OrderSizes \subseteq Nat
    /\ TriggerPrices \subseteq Nat \ {0}

VARIABLES
    orders, nextOrderId,
    history    \* not in the code: of each order, the position a closing
               \* order was placed on and how often the order was executed

orderVars == <<orders, nextOrderId, history>>
bookVars == <<vars, orderVars>>

OrderIds == 1..MaxOrders

Order ==
    [user : Users \cup {NoUser}, marketId : Markets, isLong : BOOLEAN,
     orderType : OpeningTypes \cup ClosingTypes, triggerPrice : Nat,
     limitPrice : Nat, sizeUsd : Nat, collateralToken : Tokens,
     collateralAmount : Nat, active : BOOLEAN]

EmptyOrder ==
    [user |-> NoUser, marketId |-> CHOOSE m \in Markets : TRUE,
     isLong |-> FALSE, orderType |-> "LIMIT", triggerPrice |-> 0,
     limitPrice |-> 0, sizeUsd |-> 0,
     collateralToken |-> CHOOSE t \in Tokens : TRUE, collateralAmount |-> 0,
     active |-> FALSE]

OrderInit ==
    /\ orders = [o \in OrderIds |-> EmptyOrder]
    /\ nextOrderId = 0
    /\ history = [o \in OrderIds |-> [target |-> 0, executions |-> 0]]

-----------------------------------------------------------------------------
(* Conditions an order waits for.                                          *)

\* Bought low or stopped out on a fall, against the other way round.
TriggerMet(order, price) ==
    IF (order.orderType \in {"LIMIT", "STOP_LOSS"}) = order.isLong
    THEN price <= order.triggerPrice
    ELSE price >= order.triggerPrice

\* limitPrice or better: lower for who buys, higher for who sells.
WithinLimit(order, price) ==
    IF order.isLong THEN price <= order.limitPrice
                    ELSE price >= order.limitPrice

Triggered_LimitIgnored(order, price) == TriggerMet(order, price)

Triggered(order, price) ==
    /\ TriggerMet(order, price)
    /\ order.orderType = "STOP_LIMIT" => WithinLimit(order, price)

\* The net-mode check: the pointer is set and its position is active.
MarketTaken(u, m) ==
    userMarketPosition[u][m] # 0 /\ positions[userMarketPosition[u][m]].active

SpendOrder_Kept(o) == UNCHANGED orders

SpendOrder(o) == orders' = [orders EXCEPT ![o].active = FALSE]

CountExecution(o) ==
    history' = [history EXCEPT ![o].executions = @ + 1]

-----------------------------------------------------------------------------
(* What users do with orders.                                              *)

\* _placeOrder and _placeCloseOrder write the order under the next id.
Place(order, target) ==
    /\ nextOrderId < MaxOrders                        \* bound on order ids
    /\ nextOrderId' = nextOrderId + 1
    /\ orders' = [orders EXCEPT ![nextOrderId + 1] = order]
    /\ history' = [history EXCEPT ![nextOrderId + 1].target = target]
    /\ UNCHANGED vars

\* placeLimitOrder and placeStopLimitOrder.  A paused market takes orders.
PlaceOrder(u, m, isLong, type, trigger, limit, size, t, amount) ==
    /\ ~globalPaused /\ marketEnabled[m]
    /\ type = "LIMIT" => limit = trigger
    /\ size > 0 /\ amount > 0
    /\ size >= MinOrderSizeUsd
    /\ accounts[u].exists
    /\ LeverageAllowed(size, normalizeToUsd(t, amount), MaxLeverage)
    /\ Place([user |-> u, marketId |-> m, isLong |-> isLong,
              orderType |-> type, triggerPrice |-> trigger,
              limitPrice |-> limit, sizeUsd |-> size, collateralToken |-> t,
              collateralAmount |-> amount, active |-> TRUE], 0)

\* placeTakeProfitOrder and placeStopLossOrder, by the position's owner.
\* The order keeps the market and the side of the position, not its id.
PlaceCloseOrder(id, type, trigger) ==
    LET pos == positions[id]
    IN  /\ ~globalPaused
        /\ pos.active
        /\ Place([user |-> pos.user, marketId |-> pos.marketId,
                  isLong |-> pos.isLong, orderType |-> type,
                  triggerPrice |-> trigger, limitPrice |-> trigger,
                  sizeUsd |-> pos.sizeUsd,
                  collateralToken |-> pos.collateralToken,
                  collateralAmount |-> 0, active |-> TRUE], id)

CancelOrder(o) ==
    /\ orders[o].active
    /\ SpendOrder(o)
    /\ UNCHANGED <<vars, nextOrderId, history>>

-----------------------------------------------------------------------------
(* The keeper.                                                             *)

\* The record of the position an order opens, at the oracle price.
OrderedPosition(order, fs) ==
    LET t == order.collateralToken
        net == SatSub(order.collateralAmount,
                      TradingFeeTokens(t, order.sizeUsd, MakerFeeBps))
    IN  [user |-> order.user, marketId |-> order.marketId,
         isLong |-> order.isLong, sizeUsd |-> order.sizeUsd,
         collateralUsd |-> normalizeToUsd(t, net), collateralToken |-> t,
         collateralAmount |-> net,
         entryPrice |-> latestPrice[order.marketId],
         lastFundingIndex |-> FundingIndex(fs, order.isLong),
         active |-> TRUE]

\* The new position enters the book; open interest is left to the caller.
EnterPosition(order, id, fs) ==
    /\ nextPositionId' = id
    /\ positions' = [positions EXCEPT ![id] = OrderedPosition(order, fs)]
    /\ userMarketPosition' =
          [userMarketPosition EXCEPT ![order.user][order.marketId] = id]

OrderFee(order) ==
    calculateInsuranceContribution(
       TradingFeeTokens(order.collateralToken, order.sizeUsd, MakerFeeBps))

\* An order of any type goes through here.  The collateral of a closing
\* order is 0, which lockForPosition refuses.  The price may be stale.
ExecuteOrder(o) ==
    LET order == orders[o]
        m == order.marketId
        t == order.collateralToken
    IN  /\ order.active
        /\ NotPaused(m)
        /\ latestPrice[m] > 0
        /\ Triggered(order, latestPrice[m])
        /\ ~MarketTaken(order.user, m)
        /\ marketEnabled[m]
        /\ openInterest[m][OISide(order.isLong)] + order.sizeUsd
              <= MaxOpenInterest
        /\ NextId \in PositionIds                    \* bound on position ids
        /\ LockCollateral(order.user, t, order.collateralAmount, 0)
        /\ CreditInsurance(t, OrderFee(order))
        /\ AccrueFunding(m)
        /\ EnterPosition(order, NextId, AccruedFunding(m))
        /\ IncreaseOI(m, order.isLong, order.sizeUsd)
        /\ TradeOnPool(m, order.sizeUsd, order.isLong, TRUE)
        /\ SpendOrder(o)
        /\ CountExecution(o)
        /\ UNCHANGED <<now, oracleVars, adminVars, outsideVars, nextOrderId>>

OrderStep ==
    \/ \E u \in Users, m \in Markets, long \in BOOLEAN,
          type \in OrderTypes \cap OpeningTypes, trigger \in TriggerPrices,
          limit \in TriggerPrices, size \in OrderSizes, t \in Tokens,
          a \in Amounts :
          PlaceOrder(u, m, long, type, trigger, limit, size, t, a)
    \/ \E id \in PositionIds, type \in OrderTypes \cap ClosingTypes,
          trigger \in TriggerPrices : PlaceCloseOrder(id, type, trigger)
    \/ \E o \in OrderIds : CancelOrder(o) \/ ExecuteOrder(o)

BookInit == Init /\ OrderInit

BookNext ==
    \/ Next /\ UNCHANGED orderVars
    \/ OrderStep

BookSpec == BookInit /\ [][BookNext]_bookVars

-----------------------------------------------------------------------------
(* Properties.                                                             *)

\* Orders keep their types, and so does the core under them.
BookTypeOK ==
    /\ TypeOK
    /\ orders \in [OrderIds -> Order]
    /\ nextOrderId \in 0..MaxOrders
    /\ history \in [OrderIds -> [target : 0..MaxPositions, executions : Nat]]

\* However often keepers send it and however it is cancelled, an order is
\* executed at most once.
ExecutedOnce == \A o \in OrderIds : history[o].executions <= 1

\* What the two properties around it rest on: ids above the counter are
\* unused, an order that is active has an owner and was not executed, and
\* the limit of a limit order is its trigger.
OrdersSound ==
    /\ \A o \in OrderIds : o > nextOrderId =>
          ~orders[o].active /\ history[o].executions = 0
    /\ \A o \in OrderIds : orders[o].active =>
          /\ orders[o].user \in Users
          /\ history[o].executions = 0
          /\ orders[o].orderType = "LIMIT" =>
                orders[o].limitPrice = orders[o].triggerPrice

\* "will only execute at _limitPrice or better": the position an order opens
\* is the one its owner asked for, entered at the limit or better.
ExecutedAtLimit ==
    [][\A o \in OrderIds :
          LET pos == positions'[nextPositionId']
              order == orders[o]
          IN  order.orderType \in OpeningTypes
              /\ history'[o].executions > history[o].executions =>
                 /\ <<pos.user, pos.marketId, pos.isLong, pos.sizeUsd>> =
                    <<order.user, order.marketId, order.isLong, order.sizeUsd>>
                 /\ WithinLimit(order, pos.entryPrice)]_bookVars

-----------------------------------------------------------------------------
(* A statement of the code's comments, checked by a run of its own.        *)

\* "close when price >= trigger": once its trigger is met, a closing order
\* on an active position is one executeOrder accepts.
CloseOrderExecutable ==
    \A o \in OrderIds :
       LET order == orders[o]
       IN  /\ order.active /\ order.orderType \in ClosingTypes
           /\ NotPaused(order.marketId)
           /\ latestPrice[order.marketId] > 0
           /\ Triggered(order, latestPrice[order.marketId])
           /\ positions[history[o].target].active
           => ENABLED ExecuteOrder(o)
==============================================================================
